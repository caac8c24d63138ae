# wolfusb in TLA+

TLA+ models of wolfusb (`src/`), checked with TLC on small instances, and
theorems about them checked with TLAPS.  Paths are those of the repository;
line numbers in comments are lines of the file a comment names.

## 1. The system

wolfusb shares USB devices over TCP.  A server owns the devices of its host.
A client works on them in one of two ways: it attaches a device and sends
single transfers (the session protocol), or it asks for a bridge, after which
the kernels of the two hosts speak USB/IP on the socket (`wolfusb mount`).

| component | state | operations | interacts with |
|---|---|---|---|
| DeviceManager (`server/device_manager.rs`) | `attachments`, `session_to_device`, `next_session_id`, behind one Mutex | attach, detach, detach_all_for_sessions, claim/release_interface, set_configuration, get_handle, validate_session | libusb and the kernel's drivers below, all connections above |
| Connection (`server/connection.rs`, `server/listener.rs`) | `authenticated`, its own `sessions` map, what it awaits | one handler per message, run, cleanup, accept | DeviceManager (blocking calls), its client, the bridge (hands its socket over) |
| Transfers (`server/transfer.rs`) | none | the three transfers, limits on length and timeout | run on an `Arc` of a handle without the Mutex |
| Codec (`protocol/*.rs`) | read buffer | encode, decode, the 16 MiB limit | both ends of a connection |
| Bridge (`server/bridge.rs`, `server/kernel_usbip.rs`) | none of its own: sysfs is the state | run_bridge, bind, unbind, attach_socket, wait_until_detached | usbip-host through sysfs, concurrently per connection |
| Mount (`client/mount.rs`, `bridge/vhci.rs`) | port number, `consecutive_free` | cmd_mount, find_free_port, attach, the park loop, detach | vhci_hcd through sysfs, other mounts of the host, systemd |
| Client session (`client/session.rs`), CLI (`client/commands.rs`, `main.rs`) | the framed stream | connect with its handshake, one request at a time | a Connection |
| Runtime (tokio, the process; `server/listener.rs`) | the Mutex's queue, the blocking pool, descriptors | accept, spawn_blocking, lock, the end and restart of the process | all connections |
| TLS, errors, display, install scripts | none | configuration, texts | - |

What is hard, and what makes each component correct:

* **DeviceManager.**  Two tables that must agree; the order of release and
  rebind; a device that leaves and another one at its address; the death of
  the process.  Correct: session ids are unique, no claim and no kernel driver
  is lost track of.
* **Connection.**  Tasks interleave at every `await`; a result is entered in
  the task's map only after the Mutex is free; a client may go away anywhere;
  a reply may fail to be sent.  Correct: one user per device, no device
  attached to nobody, no session without authentication, devices freed when
  their client goes.
* **The wire.**  A read returns any part of the stream; the reply is taken to
  be the next frame; the handshake's checks are split over two ends and two
  copies of the client; the stream changes from frames to USB/IP, where read
  buffers are thrown away and kernels take over at different times.  Correct:
  the ends stay in step, a client that goes on is with a server it agrees
  with, no byte is lost in the change, every wait ends.
* **Runtime.**  Tasks wait for the Mutex and for threads, threads wait for the
  Mutex; served bridges keep a thread and then a descriptor.  Correct: no
  deadlock, no starvation, and only served bridges use the resources up.
* **Bridge.**  Unsynchronised tasks share sysfs; a poll every 500 ms cannot
  tell its own socket from a later one; every error leaves sysfs as it is; a
  silent client holds a device.  Correct: a served client stays served, a
  bridge ends with its client, the device gets its driver back.
* **Mount.**  Processes share the port table; polls every two seconds see a
  port's state and not its owner; status reads fail; a kill runs no handler.
  Correct: a lost port is noticed, a blip is not taken for a loss, a port in
  use is watched, other mounts are left alone.
* **CLI.**  One process and one connection per command, with session numbers
  carried from one to the next by the operator.

`PROJECT.json` lists the hazards line by line with the properties that cover
them.

## 2. Modules

| module | models | relation |
|---|---|---|
| `UsbBus` | the bus and the kernel's drivers, as libusb shows them (external) | base of DeviceManager |
| `DeviceManager` | the methods of DeviceManager, callable by anyone | EXTENDS UsbBus |
| `DeviceLease` | abstract: a device has at most one holder | implemented by Connection |
| `Connection` | the connections' tasks over the shared DeviceManager | EXTENDS DeviceManager |
| `Cli` | an operator's commands, one process and connection each | EXTENDS Connection |
| `Wire` | one connection from both ends: framing, handshake, requests, the change to USB/IP | stands alone |
| `Runtime` | what connections share: Mutex, blocking pool, descriptors, the process | stands alone |
| `KernelBridge` | bridge tasks of one device over its sysfs state | stands alone |
| `Mount` | the mounts of one host over its vhci ports | stands alone |
| `MCConnection` | symmetry sets for TLC | EXTENDS Connection |
| `DeviceManagerProofs`, `ConnectionProofs`, `LeaseProofs`, `WireProofs`, `KernelBridgeProofs`, `MountProofs`, `RuntimeProofs` | theorems | EXTEND what they prove about; `ConnectionProofs` also DeviceManager's theorems, `LeaseProofs` also Connection's |

The modules cut the system where its parts touch in one event.  A request is a
frame in `Wire`, a handler over the shared tables in `Connection`, and a user
of the Mutex and of a thread in `Runtime`; an accepted Bridge is the last frame
in `Wire`, a hand-over in `Connection`, a task of `KernelBridge` on the
server's host and a process of `Mount` on the client's.  Each module keeps what
its properties tell apart of that event and makes the rest a choice: a
transfer's outcome, say, or whether a bind is refused.

How state and actions correspond to the code:

* `DeviceManager`: `attachments[d]` is the `AttachmentInfo` of `d` (`handle`
  is 0 when there is none, else it names the `Arc` by the session id it was
  opened under; `epoch` says which of the devices that were at the address it
  was opened on), `sessionToDevice` and `nextSessionId` are the fields of that
  name.  A method is one action, because it runs from lock to unlock; its
  error returns change nothing and have no action.  `TearDown` is the body of
  `detach`, in its order: claims released, drivers rebound, entry gone.
* `Connection`: `pc[c]` is where the task awaits: a message (`idle`), the
  blocking call (`work`), the transfer on its `Arc` (`transfer`), the write of
  the reply (`reply`), `cleanup`, the bridge.  `Start` is `handle_message` up
  to the call, `Exec*` the call under the Mutex, `Respond` / `SendFails` /
  `HandOff` what `run` does with the outcome.  The handlers update `sessions`
  between the call and the write, without an await; the model does so when the
  reply is written or fails, which no other task can tell apart, as the map is
  the task's own.  A closed slot is used again by a new connection.
* `Cli`: `stage[c]` is where the process on connection `c` is, `printed` what
  the operator has read off `wolfusb attach`; the server's side is Connection's.
* `Wire`: `c2s`, `s2c` are the bytes under way and `cbuf`, `sbuf` the read
  buffers of the two `Framed`.  Sizes are in units in which everything but a
  transfer's data is 1, so that a read can stop behind the length prefix and
  between any two units; `setup` is what the operators of the two ends chose.
  `ListDevices` stands for all requests with a short frame and a short reply.
* `Runtime`: `stage[c]` is what the task waits for and `job[c]` what its closure
  on the pool does; `mutex` is the holder and the waiters in their order, as
  tokio's Mutex is fair, and `queue` the closures without a thread.
* `KernelBridge`: `pc[b]` walks through `run_bridge_inner`, one step per sysfs
  access; `driver`, `allowed`, `user` are sysfs's side.  A task that ended may
  begin again as the next connection's; `quiet` are the clients that stay and
  never send OP_REQ_IMPORT.
* `Mount`: `pc[m]` is where `cmd_mount` is; `owner[p]` is vhci's side, `left`
  the ports of killed mounts, whose socket vhci alone keeps alive.

## 3. Runs

| run | question | bounds |
|---|---|---|
| `conn` | is the device one client's at a time, is the lease implemented, is every claim and kernel driver accounted for? | 2 connections, 2 devices, 1 replug per address, 3 sessions, clients that name a session's own device |
| `conn_any` | what holds whatever clients send, and when the server is restarted? | 2 connections, 2 devices, 2 interfaces, 2 sessions, all requests, a key, restarts |
| `conn_live` | are the devices of a client that goes away freed? | 2 connections, 2 devices, 2 sessions, fairness |
| `wire` | do the two ends stay in step, through handshake, requests and the change to USB/IP? | 2 keys and none, 2 versions, TLS or not at either end, frames of 3 units with transfers of up to 4, 2 requests, 2 URBs, fairness |
| `runtime` | do requests return, connections end and resources come back? | 3 connections, 2 threads, 3 descriptors, timeouts of 0 and 4 for a width of 2 bits, fairness |
| `bridge` | what holds of bridges of one device, overlapping or not? | 2 tasks at a time, any number one after the other, silent clients, a device that may be unplugged, fairness |
| `mount` | are lost ports, and only those, given up? | 3 mounts, 2 ports, 2 free reads, kills, Ctrl-C and restarts at any point, fairness |

Two connections are enough for the properties that relate two of them, since a
third one's steps on the shared tables are those of either; two devices are
needed for a request that names the wrong one (`conn_any`, `v_mismatch`), and
three sessions for an attach after a detach while another session lives.  One
replug of an address gives all of `Live`'s cases; two products tell a replaced
device from a returned one.  DeviceManager has no run of its own: its
properties are checked over the calls that connections make, and proved for
any calls (`DmSpec`).  In `wire` a frame of three units is the
least with room for a reply that fits, one that fills the frame and one that
does not, and two requests let a reply be taken for the wrong one.  In
`runtime` three connections with two threads let a bridge hold one, a call wait
for the other, and a third wait behind both; slots are used again, so that the
descriptors run out after any number of connections.  In `bridge` two tasks
meet in every pair of places, and a slot that is used again lets a third
bridge find what two have left.  In `mount` three mounts with two ports let a
mount find no free port, and a freed port go to another one.  What the bounds
leave out is covered by the theorems for the safety properties they state.

`Symmetry` permutes devices and connections in the runs without liveness.
Deadlock is checked except in `wire`, where a connection is used once and ends,
and in `mount`, where all mounts may have been detached by Ctrl-C.

`ImplementsLease` checks refinement: `DeviceLease` with `holder` the
connection that has the session the device is attached under, and `leaving`
true in cleanup and at work on a detach.

### What the code does otherwise than it says

Each of these runs checks one property that a document or a comment states,
and TLC finds the behaviour that breaks it.

| run | property | what happens |
|---|---|---|
| `v_mismatch` | `ExclusiveUse` | detach does not compare session and device: a client with any session detaches any device; the old session stays in `session_to_device` and is admitted to the device's next attachment |
| `v_bridge` | `DisconnectFrees` | `run` returns after a bridge without `cleanup`: what the connection had attached stays attached to nobody |
| `v_waiter` | `BridgeEnds` | the poll of `usbip_status` waits on another bridge's socket |
| `v_parked` | `LossNoticed` | the poll of the port's status waits on another mount's port |
| `v_cli` | `PrintedSessionUsable` | the session that `wolfusb attach` prints ends when that process does, so the transfer and detach commands of README.md:143-158 are refused |

The models show more of the kind:

* claim, release and set_configuration skip `validate_session`
  (`connection.rs:525`).  `OnlyHolderClaims` therefore holds in `conn`, whose
  clients name a session's own device, and fails as soon as they do not
  (`MatchedRequests = FALSE`).
* A bridge takes a device that another bridge's client is using for a leftover
  (`bridge.rs:55`).  `ServedUntilDisconnect` therefore speaks of a task that
  nobody disturbs; `v_waiter` begins with the other case.
* Two overlapping bridges can leave a device with no driver for good.  One has
  released it (`kernel_usbip.rs:161`), the other one's `unbind` takes the busid
  off the allow-list (`:205`), and the first one's write to `bind` is refused
  (`:179`): the error returns and nothing probes again.  Every later bridge ends
  in `from_sysfs`, which needs the usb driver's attributes (`bridge.rs:78`).  It
  is the exception that `BridgeServed` names.
* A silent client holds the device on usbip-host, as the read of OP_REQ_IMPORT
  has no timeout (`bridge.rs:87`); the next bridge gets it away, by way of the
  release of leftovers.  `BridgeServed` and `EndsUnlessOvertaken` include it.
* A timeout that is a nonzero multiple of 2^32 ms reaches libusb as 0, which is
  the infinite one `safe_timeout` keeps away; the transfer holds its thread
  (`Held` in `Runtime`).
* An IN transfer of the full 16 MiB that `transfer.rs:10` admits has a reply that the codec refuses (`codec.rs:63`), and
  the connection ends: `BreaksExplained` names it.  The encoder compares the
  length after cutting it to 32 bits (`codec.rs:61`), which no message of this
  repository is long enough to show.
* `do_hello` of a mount does not compare versions (`mount.rs:186`), unlike
  `Session::connect`; `HandshakeAgreement` holds because the server does.
* Kernel drivers that a killed server had detached are on no record after a
  restart (`device_manager.rs:218`), so that no detach brings them back;
  `DriversAccounted` is checked (`conn`) and proved for a server that is not
  restarted.
* Ctrl-C of a mount whose port was freed and given to another mount detaches
  that one's device (`mount.rs:137`): `LivePortKept` says that this is the only
  way a live mount loses its port.

## 4. Assumptions

* **Atomicity.**  A method of DeviceManager is one step (the Mutex is held from
  its first to its last statement).  A task's own variables change only in its
  own steps.  In `KernelBridge` a sysfs access is one step.
* **Clients.**  In `Connection` a client has one request outstanding; more than
  one in the socket's buffer changes nothing, since a task reads the next
  message only when it has answered the last.  With `MatchedRequests` clients
  name, with a session, the device they got it for (as `client/commands.rs`
  does when the user gives it the right arguments): `conn`, `conn_live` and five
  theorems assume it, and `v_mismatch` shows that they must.  In `Wire` both
  ends are this repository's, of whatever version.
* **Fairness** (`FairSpec`).
  * `Connection`: tokio polls a task that can go on, the Mutex is fair, libusb
    calls return, a transfer has a nonzero timeout (`safe_timeout`; below 2^32
    ms), the end of a stream is delivered.  Nothing is assumed of clients or
    the bus.
  * `Wire`: both processes go on when they can, and what is sent arrives.  When
    the client sends, or leaves, is its own affair.
  * `Runtime`: the steps of tasks and of the pool's threads, and systemd's
    restart.  A transfer whose timeout libusb takes for none is *not* assumed
    to end, nor a client to leave; the properties name both.  Weak fairness of
    a task's steps is enough because queue and Mutex are in order of arrival.
  * `KernelBridge`: plain code between bounded sleeps; a client that is there,
    and not one of the silent ones, sends its import request; the kernel
    notices a dead socket.
  * `Mount`: a timer drives the poll, systemd restarts a mount that exits with
    an error, vhci notices a dead socket.  Nothing says when vhci frees the
    port of a killed mount.
* **Kernel and libusb** are modelled by what the code relies on: a claimed
  interface cannot be bound and a bound one cannot be claimed, a handle whose
  device is gone does nothing, `set_configuration` needs an unclaimed and
  unbound device.  The implicit claim that usbfs makes on a transfer without a
  claim is left out.

## 5. Theorems

For every value of the constants, under the assumptions the modules state of
them (`BusAssumption`, `DmAssumption`, `ConnAssumption`, `BridgeAssumption`,
`MountAssumption`, `RuntimeAssumption`, `WireAssumption`):

* `DeviceManagerProofs`
  * `DmTypeCorrect`: `DmSpec => []DmTypeOK`.
  * `SessionIdsCorrect`: `DmSpec => []SessionIdsUnique`; inductive with the
    types.
  * `ClaimsCorrect`: `DmSpec => []ClaimsRecorded`.  Not inductive alone: after
    a replug an attachment of the device that left must not come alive again.
    The strengthening is `EpochsSound`: an attachment's epoch is at most the
    address's, and if they are equal the device is there.
  * `DriversCorrect`: `~AllowRestart => (DmSpec => []DriversAccounted)`, on top
    of the same invariant.  A driver is missing only while an attachment that
    has it on record lives, and detach can rebind it because, by
    `ClaimsRecorded`, what it releases is all that was claimed.
* `ConnectionProofs`
  * `TypeCorrect`: `Spec => []TypeOK`, with `Pending`: a request in progress
    has the arguments that its handler uses.
  * `ImplementsManager`: `Spec => DmSpec`.  The server uses the DeviceManager by
    its methods alone, with arguments that exist (`Pending`), so that all of the
    above holds in it: `ServerManagerCorrect`.
  * `SessionsDisjointCorrect`: `Spec => []SessionsDisjoint`, for all clients.
    With `Issued` (a session that is held was handed out) it is inductive: a
    connection comes to a session only by an attach (`HoldsStep`), whose id is
    new.
  * `SessionsAuthenticatedCorrect`: `Spec => []SessionsAuthenticated`, with
    `AuthInv`, which speaks of the requests at work too.
  * `ExclusiveUseCorrect`, `TransferCorrect`: `MatchedRequests => (Spec =>
    []ExclusiveUse)`, and the same for `TransferOnCurrentAttachment`.  The
    inductive invariant `MatchInv` adds four parts: `Backed` (an entry of
    `session_to_device` names an attachment opened under that very session),
    `Agree` (a task's map, as the reply under way will leave it, is part of
    that table), `Named` (the request at work names its session's device) and
    `Current` (a transfer's handle is its session's).  `Backed` is what a
    mismatched detach breaks.
* `LeaseProofs`
  * `NoOrphanCorrect`: `MatchedRequests /\ NoBridges => (Spec => []NoOrphan)`.
    `NoOrphan` alone is not inductive: a device's task may be between the
    Mutex and its own map.  `KeptInv` says it of the map as the reply under way
    will leave it, and of a task whose cleanup is yet to come (`Kept`), next to
    `MatchInv` and `Unbridged` (no task is near a bridge).  The hard step is a
    detach or cleanup that removes an entry: by `MatchInv` the session it
    removes is that of the device it tears down.
  * `ImplementsLeaseCorrect`: `MatchedRequests /\ NoBridges /\ ~AllowRestart =>
    (Spec => ImplementsLease)`.  `KeptInv` gives every attached device its one
    holder (`HolderIsOwner`), and then each step is one of the lease's or a
    stutter: an attach is an `Acquire`, the start of a detach and the break of
    the loop are `Ask`, the detach's call and `cleanup` are `Release`, of all
    the devices whose entries go.
  * `OnlyHolderClaimsCorrect`: `MatchedRequests => (Spec => OnlyHolderClaims)`.
    It needs `MatchInv` alone, and so includes bridges and restarts.
  * Every condition is needed: TLC breaks each of the properties on the instance
    of `conn` as soon as one of its conditions is dropped (`MatchedRequests`,
    `NoBridges`, `~AllowRestart`).  `v_mismatch` and `v_bridge` show the kind of
    behaviour; a restart takes every lease away at once.
* `WireProofs`
  * The eight safety properties of `wire`, seven invariants and the action
    property `NothingLostAtHandOff`, from one invariant, for any frame size
    and limits, any number of requests and URBs, and any cut of the streams by
    reads.  `WireInv` looks at a buffer and the bytes still under way together
    (`ToServer`, `ToClient`), as a read only moves bytes from the one to the
    other.  Until the kernels take over, the two directions together hold at
    most one frame or one message of USB/IP: in `ClientPhase`, what a client
    in `cpc` can find is the request it asked, its one reply, or neither if the
    reply was too long to send (`Exchange`, `HelloExchange`,
    `ImportExchange`); `ServerPhase` says what a server can count on when its
    client has gone meanwhile.  `FrameOnly` then gives what a decoder sees: the
    buffer begins with the prefix of that frame, and when it is whole nothing
    is behind it.  In `KernelPhase` the bytes under way make up the difference
    between the URBs submitted and given back.
  * `HelloAgrees` is the argument of the handshake: the server compares
    versions and, if it has a key, proofs; the client's own check covers a
    server that has none.
  * `WireAssumption` asks for `MaxFrame > 1`, as OP_REP_IMPORT takes two units
    (`MAX_FRAME_SIZE` is 16 MiB).

* `KernelBridgeProofs`
  * `BridgeTypeCorrect`: `Spec => []TypeOK`.
  * `SessionWatchedCorrect`: `Spec => []SessionWatched`, for any number of
    bridges that overlap in any order.  With the types it is inductive: a
    task becomes the kernel's user only in the step that makes it wait, and
    it stops waiting only when nobody is the user.
  * `ServedUntilDisconnectCorrect`: `Spec => ServedUntilDisconnect`.  Of the
    steps that end a session, the `unbind` of the serving task needs the end
    of its watch, and another task's is excluded.
* `MountProofs`
  * `MountTypeCorrect`: `Spec => []TypeOK`.  The count of free reads is in its
    range because of `CountBelow`: it is below `MaxFree` until the mount gives
    up.
  * `PortWatchedCorrect`: `Spec => []PortWatched`.  It is inductive with
    `PortChosen` (a mount that attaches has a port) and because a poll ends the
    park only on a port that is free, which rests on `MaxFree > 1`
    (`LostOnlyWhenFree`): one failed read is not enough.
  * `LostIsLostCorrect`, `LivePortKeptCorrect`: the two action properties.  The
    second rests on `ParkedOwns`: a parked mount whose connection lives has the
    port it is parked on.
* `RuntimeProofs` (the connections are finitely many)
  * `HolderRunsCorrect`: `Spec => []HolderRuns`.  Inductive with `MutexInv`:
    who wants the Mutex is in its queue (`WantsListed`), the task at its tests
    is at the head (`TestHolds`), and a closure waits for a thread once, as
    one of a task that is queued (`QueueWaits`, `QueuedWorks`).
  * `RuntimeTypeCorrect`, `StopsOnlyForBridgesCorrect`: on top of it `FdsInv`,
    whose part `Counted` says that the bridges served are those watched and
    those that leaked, and that connections and leaks fit into `MaxFds`.

`MatchInv`, `KeptInv` and `WireInv` were checked by TLC, as invariants of the
instances of `conn` and `wire`, before they were proved.

Only model-checked: everything under fairness (`DisconnectFrees`, `Settles`,
`CallsReturn`, `ConnectionsEnd`, `BridgeServed`, `EndsUnlessOvertaken`,
`DriverReturned`, `FreePortNoticed`), as TLAPS proves neither `ENABLED` nor
leads-to under fairness.  Every other property of a run that passes is a
theorem; `Cli` has none that holds, only the finding.

## 6. Not modelled

* TLS: configuration of rustls only; what both ends must agree on is in `Wire`.
* Texts, the layout of what commands print, and the parsing of hex arguments
  (`display.rs`, `main.rs:249-264`; a bad one is a way for a command to end).
* bincode's layout: a payload is its length, and one that does not decode
  cannot come from the encoder.  The columns of sysfs files are read for their
  meaning.
* The install scripts and CI; the units' `Restart=` is in `Runtime` and `Mount`.
* `list_devices` and `get_descriptors`: answers without a change of state.
* A connection that dies without its end of stream being delivered keeps its
  devices: the code has no keepalive, and `DisconnectFrees` does not speak of
  it.
* Time.  Sleeps and polls are steps without durations; that `bind` sleeps on a
  thread of the async runtime (`kernel_usbip.rs:188`), which delays the other
  tasks of that thread, is below the models' grain.

## 7. Plan

Done: all components but those of section 6, and the theorems above.  Left:

1. Proofs: the safety half of the leads-to properties, that what they wait for
   is not lost on the way, and an abstract request-and-reply channel that
   `Wire` implements.
2. `Bridged`: Connection, KernelBridge and the DeviceManager's attachments
   together: one device attached by one client and bridged by another, where
   `bind` takes the device from under an attachment that keeps its claims.
