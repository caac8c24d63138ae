------------------------- MODULE DeviceManagerProofs -------------------------
(***************************************************************************)
(* Theorems about DeviceManager, and the step lemmas that ConnectionProofs *)
(* uses again: each method keeps the tables well typed and the session ids *)
(* unique.                                                                 *)
(***************************************************************************)
EXTENDS DeviceManager, TLAPS

LEMMA NoAttachmentType == NoAttachment \in Attachment
  BY SMT DEF NoAttachment, Attachment

\* The tables of a server that has just started are well typed.
LEMMA DmInitType == DmInit => DmTypeOK
  BY NoAttachmentType, DmAssumption, BusAssumption, SMT
  DEF DmInit, DmTypeOK, BusInit, BusTypeOK, SessionIds

\* The bus changes nothing but itself, and stays well typed.
LEMMA BusStepType == DmTypeOK /\ BusNext /\ UNCHANGED dmVars => DmTypeOK'
<1> SUFFICES ASSUME DmTypeOK, BusNext, UNCHANGED dmVars PROVE BusTypeOK'
  BY SMT DEF DmTypeOK, dmVars
<1>1. ASSUME NEW d \in Devices, Unplug(d) PROVE BusTypeOK'
  BY <1>1, SMT DEF DmTypeOK, BusTypeOK, Unplug
<1>2. ASSUME NEW d \in Devices, NEW p \in Products, Plug(d, p) PROVE BusTypeOK'
  BY <1>2, BusAssumption, SMT DEF DmTypeOK, BusTypeOK, Plug
<1> QED BY <1>1, <1>2 DEF BusNext

LEMMA AttachType == ASSUME DmTypeOK, NEW d \in Devices, attach(d) PROVE DmTypeOK'
<1>1. PICK detached \in SUBSET driver[d] :
         /\ driver' = [driver EXCEPT ![d] = @ \ detached]
         /\ attachments' = [attachments EXCEPT ![d] =
               [handle |-> nextSessionId, epoch |-> epoch[d], product |-> plugged[d],
                drivers |-> detached, claimed |-> {}]]
  BY DEF attach, Enter
<1>2. nextSessionId \in SessionIds /\ nextSessionId' \in 1 .. MaxSessions + 1
  BY DmAssumption, SMT DEF attach, Enter, DmTypeOK, SessionIds
<1>3. BusTypeOK'
  BY <1>1, SMT DEF attach, Enter, DmTypeOK, BusTypeOK
<1>4. [handle |-> nextSessionId, epoch |-> epoch[d], product |-> plugged[d],
       drivers |-> detached, claimed |-> {}] \in Attachment
  BY <1>2, SMT DEF DmTypeOK, BusTypeOK, Attachment, SessionIds
<1>5. attachments' \in [Devices -> Attachment]
  BY <1>1, <1>4, SMT DEF DmTypeOK
<1>6. sessionToDevice' \in [SessionIds -> Devices \cup {NoDevice}]
  BY <1>2, SMT DEF attach, Enter, DmTypeOK
<1> QED BY <1>2, <1>3, <1>5, <1>6 DEF DmTypeOK

\* What TearDown leaves behind, whatever the set of devices.
LEMMA TearDownType ==
  ASSUME DmTypeOK, NEW D \in SUBSET Devices, TearDown(D)
  PROVE  BusTypeOK' /\ attachments' \in [Devices -> Attachment]
<1>1. claims' \in [Devices -> SUBSET Interfaces]
  BY SMT DEF TearDown, Unclaimed, Freed, DmTypeOK, BusTypeOK
<1>2. \A d \in Devices : attachments[d].drivers \subseteq Interfaces
  BY SMT DEF DmTypeOK, Attachment
<1>3. driver' \in [Devices -> SUBSET Interfaces]
  BY <1>2, SMT DEF TearDown, DmTypeOK, BusTypeOK
<1>4. attachments' \in [Devices -> Attachment]
  BY NoAttachmentType, SMT DEF TearDown, DmTypeOK
<1> QED BY <1>1, <1>3, <1>4 DEF TearDown, DmTypeOK, BusTypeOK

LEMMA DetachType ==
  ASSUME DmTypeOK, NEW d \in Devices, NEW s \in SessionIds, detach(d, s)
  PROVE  DmTypeOK'
<1>1. BusTypeOK' /\ attachments' \in [Devices -> Attachment]
  BY TearDownType DEF detach
<1> QED BY <1>1, SMT DEF detach, DmTypeOK

LEMMA DetachAllType ==
  ASSUME DmTypeOK, NEW S \in SUBSET SessionIds, detach_all_for_sessions(S)
  PROVE  DmTypeOK'
<1> DEFINE targets == {d \in Devices : Attached(d) /\ \E s \in S : sessionToDevice[s] = d}
<1>1. BusTypeOK' /\ attachments' \in [Devices -> Attachment]
  <2>1. TearDown(targets) BY DEF detach_all_for_sessions
  <2> QED BY <2>1, TearDownType
<1>2. sessionToDevice' \in [SessionIds -> Devices \cup {NoDevice}]
  BY SMT DEF detach_all_for_sessions, DmTypeOK
<1>3. nextSessionId' = nextSessionId BY DEF detach_all_for_sessions
<1> QED BY <1>1, <1>2, <1>3 DEF DmTypeOK

\* An entry stays one when its list of claimed interfaces changes.
LEMMA ClaimedType ==
  ASSUME DmTypeOK, NEW d \in Devices, NEW C \in SUBSET Interfaces,
         attachments' = [attachments EXCEPT ![d].claimed = C]
  PROVE  attachments' \in [Devices -> Attachment]
<1>1. [attachments[d] EXCEPT !.claimed = C] \in Attachment
  BY SMT DEF DmTypeOK, Attachment
<1> QED BY <1>1, SMT DEF DmTypeOK

LEMMA ClaimType ==
  ASSUME DmTypeOK, NEW d \in Devices, NEW i \in Interfaces, claim_interface(d, i)
  PROVE  DmTypeOK'
<1>1. attachments' \in [Devices -> Attachment]
  <2>1. attachments[d].claimed \cup {i} \in SUBSET Interfaces
    BY SMT DEF DmTypeOK, Attachment
  <2>2. attachments' = [attachments EXCEPT ![d].claimed = attachments[d].claimed \cup {i}]
    BY DEF claim_interface
  <2> QED BY <2>1, <2>2, ClaimedType
<1>2. claims' \in [Devices -> SUBSET Interfaces]
  BY SMT DEF claim_interface, DmTypeOK, BusTypeOK
<1> QED BY <1>1, <1>2, SMT DEF claim_interface, DmTypeOK, BusTypeOK

LEMMA ReleaseType ==
  ASSUME DmTypeOK, NEW d \in Devices, NEW i \in Interfaces, release_interface(d, i)
  PROVE  DmTypeOK'
<1>1. attachments' \in [Devices -> Attachment]
  <2>1. attachments[d].claimed \ {i} \in SUBSET Interfaces
    BY SMT DEF DmTypeOK, Attachment
  <2>2. attachments' = [attachments EXCEPT ![d].claimed = attachments[d].claimed \ {i}]
    BY DEF release_interface
  <2> QED BY <2>1, <2>2, ClaimedType
<1>2. claims' \in [Devices -> SUBSET Interfaces]
  BY SMT DEF release_interface, DmTypeOK, BusTypeOK
<1> QED BY <1>1, <1>2, SMT DEF release_interface, DmTypeOK, BusTypeOK

LEMMA SetConfigurationType ==
  ASSUME DmTypeOK, NEW d \in Devices, set_configuration(d)
  PROVE  DmTypeOK'
BY BusAssumption, SMT DEF set_configuration, DmTypeOK, BusTypeOK

LEMMA RestartType == ASSUME DmTypeOK, Restart PROVE DmTypeOK'
BY NoAttachmentType, DmAssumption, SMT DEF Restart, DmTypeOK, BusTypeOK

\* The tables stay well typed whatever methods are called, and whatever the
\* bus does: every session id handed out is one of the table's.
THEOREM DmTypeCorrect == DmSpec => []DmTypeOK
<1>1. DmTypeOK /\ [DmNext]_<<busVars, dmVars>> => DmTypeOK'
  <2> SUFFICES ASSUME DmTypeOK, [DmNext]_<<busVars, dmVars>> PROVE DmTypeOK'
    OBVIOUS
  <2>1. CASE BusNext /\ UNCHANGED dmVars
    BY <2>1, BusStepType
  <2>2. ASSUME NEW d \in Devices, attach(d) \/ set_configuration(d) PROVE DmTypeOK'
    BY <2>2, AttachType, SetConfigurationType
  <2>3. ASSUME NEW d \in Devices, NEW s \in SessionIds, detach(d, s) PROVE DmTypeOK'
    BY <2>3, DetachType
  <2>4. ASSUME NEW S \in SUBSET SessionIds, detach_all_for_sessions(S) PROVE DmTypeOK'
    BY <2>4, DetachAllType
  <2>5. ASSUME NEW d \in Devices, NEW i \in Interfaces,
               claim_interface(d, i) \/ release_interface(d, i)
        PROVE  DmTypeOK'
    BY <2>5, ClaimType, ReleaseType
  <2>6. CASE Restart
    BY <2>6, RestartType
  <2>7. CASE UNCHANGED <<busVars, dmVars>>
    BY <2>7 DEF DmTypeOK, BusTypeOK, busVars, dmVars
  <2> QED BY <2>1, <2>2, <2>3, <2>4, <2>5, <2>6, <2>7 DEF DmNext
<1> QED BY DmInitType, <1>1, PTL DEF DmSpec
-----------------------------------------------------------------------------
LEMMA AttachUnique ==
  ASSUME DmTypeOK, SessionIdsUnique, NEW d \in Devices, attach(d)
  PROVE  SessionIdsUnique'
<1>1. /\ nextSessionId \in Nat \ {0}
      /\ nextSessionId' = nextSessionId + 1
      /\ \A e \in Devices : attachments[e].handle \in Nat
  BY DmAssumption, SMT DEF attach, DmTypeOK, Attachment
<1>2. /\ attachments'[d].handle = nextSessionId
      /\ \A e \in Devices \ {d} : attachments'[e] = attachments[e]
  BY SMT DEF attach, Enter, DmTypeOK
<1>3. \A e \in Devices \ {d} : attachments'[e].handle < nextSessionId
  BY <1>2 DEF SessionIdsUnique
<1>4. \A e, f \in Devices :
         attachments'[e].handle # 0 /\ attachments'[e].handle = attachments'[f].handle
           => e = f
  BY <1>1, <1>2, <1>3, SMT DEF SessionIdsUnique, Attached
<1>5. \A e \in Devices : attachments'[e].handle < nextSessionId'
  BY <1>1, <1>2, <1>3, SMT
<1>6. \A s \in SessionIds : s >= nextSessionId' => sessionToDevice'[s] = NoDevice
  BY <1>1, SMT DEF attach, Enter, SessionIdsUnique, DmTypeOK, SessionIds
<1> QED BY <1>4, <1>5, <1>6 DEF SessionIdsUnique, Attached

\* Taking entries out of both tables, with the counter left alone.
LEMMA RemoveUnique ==
  ASSUME DmTypeOK, SessionIdsUnique, NEW D \in SUBSET Devices, TearDown(D),
         UNCHANGED nextSessionId,
         \A s \in SessionIds : sessionToDevice'[s] \in {sessionToDevice[s], NoDevice}
  PROVE  SessionIdsUnique'
<1>1. \A d \in Devices : attachments'[d].handle \in {0, attachments[d].handle}
  BY SMT DEF TearDown, NoAttachment
<1>2. nextSessionId > 0 /\ \A d \in Devices : attachments[d].handle \in Nat
  BY DmAssumption, SMT DEF DmTypeOK, Attachment
<1> QED BY <1>1, <1>2, SMT DEF SessionIdsUnique, Attached

LEMMA DetachUnique ==
  ASSUME DmTypeOK, SessionIdsUnique, NEW d \in Devices, NEW s \in SessionIds, detach(d, s)
  PROVE  SessionIdsUnique'
<1>1. \A t \in SessionIds : sessionToDevice'[t] \in {sessionToDevice[t], NoDevice}
  BY SMT DEF detach, DmTypeOK
<1> QED BY <1>1, RemoveUnique DEF detach

LEMMA DetachAllUnique ==
  ASSUME DmTypeOK, SessionIdsUnique, NEW S \in SUBSET SessionIds,
         detach_all_for_sessions(S)
  PROVE  SessionIdsUnique'
<1> DEFINE targets == {d \in Devices : Attached(d) /\ \E s \in S : sessionToDevice[s] = d}
<1>1. TearDown(targets) /\ UNCHANGED nextSessionId
  BY DEF detach_all_for_sessions
<1>2. \A t \in SessionIds : sessionToDevice'[t] \in {sessionToDevice[t], NoDevice}
  BY SMT DEF detach_all_for_sessions
<1> QED BY <1>1, <1>2, RemoveUnique

\* A step that leaves the handles, the table of sessions and the counter alone.
LEMMA SameUnique ==
  ASSUME SessionIdsUnique, UNCHANGED <<sessionToDevice, nextSessionId>>,
         \A d \in Devices : attachments'[d].handle = attachments[d].handle
  PROVE  SessionIdsUnique'
BY DEF SessionIdsUnique, Attached

LEMMA ClaimSame ==
  ASSUME DmTypeOK, NEW d \in Devices, NEW i \in Interfaces,
         claim_interface(d, i) \/ release_interface(d, i)
  PROVE  /\ \A e \in Devices : /\ attachments'[e].handle = attachments[e].handle
                               /\ attachments'[e].epoch = attachments[e].epoch
                               /\ attachments'[e].drivers = attachments[e].drivers
                               /\ e # d => attachments'[e] = attachments[e]
         /\ UNCHANGED <<plugged, epoch, driver, sessionToDevice, nextSessionId>>
BY SMT DEF claim_interface, release_interface, DmTypeOK, Attachment

LEMMA RestartUnique == ASSUME DmTypeOK, Restart PROVE SessionIdsUnique'
BY DmAssumption, SMT DEF Restart, SessionIdsUnique, Attached, NoAttachment, SessionIds

\* No two devices are ever attached under one session id, and an id that was
\* given out is not given out again before a restart.
THEOREM SessionIdsCorrect == DmSpec => []SessionIdsUnique
<1>1. DmInit => SessionIdsUnique
  BY SMT DEF DmInit, SessionIdsUnique, Attached, NoAttachment, SessionIds
<1>2. DmTypeOK /\ SessionIdsUnique /\ [DmNext]_<<busVars, dmVars>> => SessionIdsUnique'
  <2> SUFFICES ASSUME DmTypeOK, SessionIdsUnique, [DmNext]_<<busVars, dmVars>>
               PROVE  SessionIdsUnique'
    OBVIOUS
  <2>1. CASE UNCHANGED dmVars
    BY <2>1, SameUnique DEF dmVars
  <2>2. ASSUME NEW d \in Devices, attach(d) PROVE SessionIdsUnique'
    BY <2>2, AttachUnique
  <2>3. ASSUME NEW d \in Devices, set_configuration(d) PROVE SessionIdsUnique'
    BY <2>3, SameUnique DEF set_configuration
  <2>4. ASSUME NEW d \in Devices, NEW s \in SessionIds, detach(d, s)
        PROVE  SessionIdsUnique'
    BY <2>4, DetachUnique
  <2>5. ASSUME NEW S \in SUBSET SessionIds, detach_all_for_sessions(S)
        PROVE  SessionIdsUnique'
    BY <2>5, DetachAllUnique
  <2>6. ASSUME NEW d \in Devices, NEW i \in Interfaces,
               claim_interface(d, i) \/ release_interface(d, i)
        PROVE  SessionIdsUnique'
    BY <2>6, ClaimSame, SameUnique
  <2>7. CASE Restart
    BY <2>7, RestartUnique
  <2> QED BY <2>1, <2>2, <2>3, <2>4, <2>5, <2>6, <2>7 DEF DmNext
<1> QED BY <1>1, <1>2, DmTypeCorrect, PTL DEF DmSpec
-----------------------------------------------------------------------------
(***************************************************************************)
(* The kernel's side and the record of it agree.  DriversAccounted needs   *)
(* ClaimsRecorded (a claim without a record would keep a driver from being *)
(* bound again), and both need EpochsSound (after a replug the attachment  *)
(* must not count as live).                                                *)
(***************************************************************************)
BusRecord == EpochsSound /\ ClaimsRecorded

LEMMA LiveFacts ==
  ASSUME DmTypeOK, NEW d \in Devices
  PROVE  /\ attachments[d].epoch \in Nat /\ epoch[d] \in Nat
         /\ attachments[d].drivers \subseteq Interfaces
         /\ attachments[d].claimed \subseteq Interfaces
         /\ driver[d] \subseteq Interfaces /\ claims[d] \subseteq Interfaces
BY SMT DEF DmTypeOK, BusTypeOK, Attachment

LEMMA UnplugRecord ==
  ASSUME DmTypeOK, BusRecord, NEW d \in Devices, Unplug(d), UNCHANGED dmVars
  PROVE  BusRecord'
<1>1. \A e \in Devices \ {d} : /\ plugged'[e] = plugged[e] /\ epoch'[e] = epoch[e]
                               /\ claims'[e] = claims[e] /\ driver'[e] = driver[e]
                               /\ Live(e)' = Live(e)
  BY SMT DEF Unplug, DmTypeOK, BusTypeOK, dmVars, Live, Attached
<1>2. /\ plugged'[d] = NoProduct /\ epoch'[d] = epoch[d] + 1
      /\ claims'[d] = {} /\ driver'[d] = {} /\ ~Live(d)'
  BY SMT DEF Unplug, DmTypeOK, BusTypeOK, Live
<1>3. attachments' = attachments BY DEF dmVars
<1>4. EpochsSound'
  BY <1>1, <1>2, <1>3, LiveFacts, SMT DEF BusRecord, EpochsSound, Attached
<1>5. ClaimsRecorded'
  BY <1>1, <1>2, <1>3 DEF BusRecord, ClaimsRecorded
<1> QED BY <1>4, <1>5 DEF BusRecord

LEMMA PlugRecord ==
  ASSUME DmTypeOK, BusRecord, NEW d \in Devices, NEW p \in Products, Plug(d, p),
         UNCHANGED dmVars
  PROVE  BusRecord'
<1>1. \A e \in Devices \ {d} : /\ plugged'[e] = plugged[e] /\ driver'[e] = driver[e]
                               /\ Live(e)' = Live(e)
  BY SMT DEF Plug, DmTypeOK, BusTypeOK, dmVars, Live, Attached
<1>2. UNCHANGED <<epoch, claims, attachments>> BY DEF Plug, dmVars
<1>3. Attached(d) => attachments[d].epoch < epoch[d]
  BY LiveFacts, SMT DEF BusRecord, EpochsSound, Plug
<1>4. ~Live(d) /\ ~Live(d)' /\ claims[d] = {}
  BY <1>2, <1>3, LiveFacts, SMT DEF BusRecord, ClaimsRecorded, Live, Attached
<1>5. EpochsSound'
  BY <1>1, <1>2, <1>3, LiveFacts, SMT DEF BusRecord, EpochsSound, Attached
<1>6. ClaimsRecorded'
  BY <1>1, <1>2, <1>4 DEF BusRecord, ClaimsRecorded
<1> QED BY <1>5, <1>6 DEF BusRecord

LEMMA AttachFacts ==
  ASSUME DmTypeOK, NEW d \in Devices, attach(d)
  PROVE  /\ \A e \in Devices \ {d} : /\ driver'[e] = driver[e]
                                     /\ attachments'[e] = attachments[e]
         /\ attachments'[d].handle = nextSessionId /\ nextSessionId # 0
         /\ attachments'[d].epoch = epoch[d] /\ attachments'[d].claimed = {}
         /\ driver'[d] = driver[d] \ attachments'[d].drivers
         /\ ~Live(d) /\ Live(d)'
         /\ UNCHANGED <<plugged, epoch, claims>>
<1>1. PICK detached \in SUBSET driver[d] :
         /\ driver' = [driver EXCEPT ![d] = @ \ detached]
         /\ attachments' = [attachments EXCEPT ![d] =
               [handle |-> nextSessionId, epoch |-> epoch[d], product |-> plugged[d],
                drivers |-> detached, claimed |-> {}]]
  BY DEF attach, Enter
<1>2. /\ \A e \in Devices \ {d} : driver'[e] = driver[e] /\ attachments'[e] = attachments[e]
      /\ attachments'[d] = [handle |-> nextSessionId, epoch |-> epoch[d],
                            product |-> plugged[d], drivers |-> detached, claimed |-> {}]
      /\ driver'[d] = driver[d] \ detached
  BY <1>1, SMT DEF DmTypeOK, BusTypeOK
<1>3. nextSessionId # 0 BY DmAssumption, SMT DEF DmTypeOK
<1> QED BY <1>2, <1>3, SMT DEF attach, Enter, Live, Attached

LEMMA AttachRecord ==
  ASSUME DmTypeOK, BusRecord, NEW d \in Devices, attach(d)
  PROVE  BusRecord'
<1>1. EpochsSound'
  BY AttachFacts, LiveFacts, SMT DEF BusRecord, EpochsSound, Attached, attach, Enter
<1>2. claims[d] = {} BY AttachFacts DEF BusRecord, ClaimsRecorded
<1>3. \A e \in Devices \ {d} : Live(e)' = Live(e)
  BY AttachFacts DEF Live, Attached
<1>4. ClaimsRecorded'
  BY <1>2, <1>3, AttachFacts DEF BusRecord, ClaimsRecorded
<1> QED BY <1>1, <1>4 DEF BusRecord

LEMMA TearDownFacts ==
  ASSUME DmTypeOK, BusRecord, NEW D \in SUBSET Devices, TearDown(D), NEW d \in Devices
  PROVE  /\ plugged' = plugged /\ epoch' = epoch
         /\ d \in D => /\ attachments'[d] = NoAttachment
                       /\ claims'[d] = {}
                       /\ Live(d) => driver'[d] = driver[d] \cup attachments[d].drivers
                       /\ ~Live(d) => driver'[d] = driver[d]
         /\ d \notin D => /\ attachments'[d] = attachments[d]
                          /\ claims'[d] = claims[d]
                          /\ driver'[d] = driver[d]
<1>1. Live(d) => Unclaimed(d) = {}
  BY SMT DEF BusRecord, ClaimsRecorded, Unclaimed
<1>2. ~Live(d) => claims[d] = {}
  BY DEF BusRecord, ClaimsRecorded
<1>3. /\ attachments'[d] = IF d \in D THEN NoAttachment ELSE attachments[d]
      /\ claims'[d] = IF d \in Freed(D) THEN Unclaimed(d) ELSE claims[d]
      /\ driver'[d] = IF d \in Freed(D)
                      THEN driver[d] \cup (attachments[d].drivers \ Unclaimed(d))
                      ELSE driver[d]
      /\ plugged' = plugged /\ epoch' = epoch
  BY SMT DEF TearDown
<1>4. d \in Freed(D) <=> d \in D /\ Live(d)
  BY DEF Freed
<1> QED BY <1>1, <1>2, <1>3, <1>4, SMT

LEMMA TearDownRecord ==
  ASSUME DmTypeOK, BusRecord, NEW D \in SUBSET Devices, TearDown(D)
  PROVE  BusRecord'
<1>1. \A d \in D : ~Attached(d)'
  BY TearDownFacts, SMT DEF Attached, NoAttachment
<1>2. EpochsSound'
  BY <1>1, TearDownFacts, SMT DEF BusRecord, EpochsSound, Attached
<1>3. ClaimsRecorded'
  <2>0. D \subseteq Devices OBVIOUS
  <2>1. ASSUME NEW d \in D PROVE claims'[d] = {} /\ ~Live(d)'
    BY <1>1, <2>0, TearDownFacts DEF Live
  <2>2. ASSUME NEW d \in Devices \ D
        PROVE  /\ attachments'[d] = attachments[d] /\ Live(d)' = Live(d)
               /\ claims'[d] = claims[d] /\ driver'[d] = driver[d]
    BY TearDownFacts DEF Live, Attached
  <2> QED BY <2>1, <2>2 DEF BusRecord, ClaimsRecorded
<1> QED BY <1>2, <1>3 DEF BusRecord

LEMMA ClaimRecord ==
  ASSUME DmTypeOK, BusRecord, NEW d \in Devices, NEW i \in Interfaces,
         claim_interface(d, i) \/ release_interface(d, i)
  PROVE  BusRecord'
<1>1. \A e \in Devices : Live(e)' = Live(e)
  BY ClaimSame DEF Live, Attached
<1>2. EpochsSound'
  BY ClaimSame DEF BusRecord, EpochsSound, Attached
<1>3. /\ Live(d)
      /\ claims'[d] = attachments'[d].claimed
      /\ claims'[d] \cap driver[d] = {}
      /\ \A e \in Devices \ {d} : claims'[e] = claims[e]
  <2>1. Live(d) BY DEF claim_interface, release_interface
  <2>2. claims[d] = attachments[d].claimed /\ claims[d] \cap driver[d] = {}
    BY <2>1 DEF BusRecord, ClaimsRecorded
  <2>3. CASE claim_interface(d, i)
    BY <2>1, <2>2, <2>3, SMT DEF claim_interface, DmTypeOK, BusTypeOK, Attachment
  <2>4. CASE release_interface(d, i)
    BY <2>1, <2>2, <2>4, SMT DEF release_interface, DmTypeOK, BusTypeOK, Attachment
  <2> QED BY <2>3, <2>4
<1>4. ClaimsRecorded'
  BY <1>1, <1>3, ClaimSame DEF BusRecord, ClaimsRecorded
<1> QED BY <1>2, <1>4 DEF BusRecord

LEMMA SetConfigurationRecord ==
  ASSUME DmTypeOK, BusRecord, NEW d \in Devices, set_configuration(d)
  PROVE  BusRecord'
<1>1. /\ UNCHANGED <<plugged, epoch, claims, attachments>>
      /\ claims[d] = {}
      /\ \A e \in Devices \ {d} : driver'[e] = driver[e]
  BY SMT DEF set_configuration, DmTypeOK, BusTypeOK
<1>2. \A e \in Devices : Live(e)' = Live(e) BY <1>1 DEF Live, Attached
<1> QED BY <1>1, <1>2 DEF BusRecord, EpochsSound, ClaimsRecorded, Attached

LEMMA RestartRecord == ASSUME DmTypeOK, Restart PROVE BusRecord'
BY SMT DEF Restart, BusRecord, EpochsSound, ClaimsRecorded, Live, Attached, NoAttachment

LEMMA RecordStep ==
  ASSUME DmTypeOK, BusRecord, [DmNext]_<<busVars, dmVars>>
  PROVE  BusRecord'
<1>1. CASE BusNext /\ UNCHANGED dmVars
  BY <1>1, UnplugRecord, PlugRecord DEF BusNext
<1>2. ASSUME NEW d \in Devices, attach(d) \/ set_configuration(d) PROVE BusRecord'
  BY <1>2, AttachRecord, SetConfigurationRecord
<1>3. ASSUME NEW d \in Devices, NEW s \in SessionIds, detach(d, s) PROVE BusRecord'
  <2>1. TearDown({d}) BY <1>3 DEF detach
  <2> QED BY <2>1, TearDownRecord
<1>4. ASSUME NEW S \in SUBSET SessionIds, detach_all_for_sessions(S) PROVE BusRecord'
  <2>1. TearDown({d \in Devices : Attached(d) /\ \E s \in S : sessionToDevice[s] = d})
    BY <1>4 DEF detach_all_for_sessions
  <2> QED BY <2>1, TearDownRecord
<1>5. ASSUME NEW d \in Devices, NEW i \in Interfaces,
             claim_interface(d, i) \/ release_interface(d, i)
      PROVE  BusRecord'
  BY <1>5, ClaimRecord
<1>6. CASE Restart BY <1>6, RestartRecord
<1>7. CASE UNCHANGED <<busVars, dmVars>>
  BY <1>7 DEF BusRecord, EpochsSound, ClaimsRecorded, Live, Attached, busVars, dmVars
<1> QED BY <1>1, <1>2, <1>3, <1>4, <1>5, <1>6, <1>7 DEF DmNext

LEMMA RecordInvariant == DmSpec => []BusRecord
<1>1. DmInit => BusRecord
  BY SMT DEF DmInit, BusInit, BusRecord, EpochsSound, ClaimsRecorded, Live, Attached,
             NoAttachment
<1> QED BY <1>1, RecordStep, DmTypeCorrect, PTL DEF DmSpec

\* The claims on record are the kernel's, in every state of every run: detach
\* releases all there is.
THEOREM ClaimsCorrect == DmSpec => []ClaimsRecorded
<1>1. BusRecord => ClaimsRecorded BY DEF BusRecord
<1> QED BY <1>1, RecordInvariant, PTL

\* As long as the server is not killed, no kernel driver is ever lost: those
\* missing from a device are on record in a live attachment of it.
THEOREM DriversCorrect == ~AllowRestart => (DmSpec => []DriversAccounted)
<1> SUFFICES ASSUME ~AllowRestart PROVE DmSpec => []DriversAccounted
  OBVIOUS
<1>1. DmInit => DriversAccounted
  BY SMT DEF DmInit, BusInit, DriversAccounted
<1>2. DmTypeOK /\ BusRecord /\ DriversAccounted /\ [DmNext]_<<busVars, dmVars>>
        => DriversAccounted'
  <2> SUFFICES ASSUME DmTypeOK, BusRecord, DriversAccounted, [DmNext]_<<busVars, dmVars>>
               PROVE  DriversAccounted'
    OBVIOUS
  <2>1. ASSUME NEW d \in Devices, Unplug(d), UNCHANGED dmVars PROVE DriversAccounted'
    <3>1. \A e \in Devices \ {d} : plugged'[e] = plugged[e] /\ driver'[e] = driver[e]
                                   /\ Live(e)' = Live(e)
      BY <2>1, SMT DEF Unplug, DmTypeOK, BusTypeOK, dmVars, Live, Attached
    <3>2. plugged'[d] = NoProduct BY <2>1, SMT DEF Unplug, DmTypeOK, BusTypeOK
    <3> QED BY <2>1, <3>1, <3>2 DEF DriversAccounted, dmVars
  <2>2. ASSUME NEW d \in Devices, NEW p \in Products, Plug(d, p), UNCHANGED dmVars
        PROVE  DriversAccounted'
    <3>1. \A e \in Devices \ {d} : plugged'[e] = plugged[e] /\ driver'[e] = driver[e]
                                   /\ Live(e)' = Live(e)
      BY <2>2, SMT DEF Plug, DmTypeOK, BusTypeOK, dmVars, Live, Attached
    <3>2. NativeDrivers \ driver'[d] = {} BY <2>2, SMT DEF Plug, DmTypeOK, BusTypeOK
    <3> QED BY <2>2, <3>1, <3>2 DEF DriversAccounted, dmVars
  <2>3. ASSUME NEW d \in Devices, attach(d) PROVE DriversAccounted'
    <3>1. \A e \in Devices \ {d} : Live(e)' = Live(e)
      BY <2>3, AttachFacts DEF Live, Attached
    <3>2. NativeDrivers \ driver'[d] \subseteq attachments'[d].drivers /\ Live(d)'
      <4>1. NativeDrivers \ driver[d] = {}
        <5>1. plugged[d] # NoProduct /\ ~Live(d)
          BY <2>3, AttachFacts DEF attach, Enter
        <5>2. NativeDrivers \ driver[d] \subseteq
                 (IF Live(d) THEN attachments[d].drivers ELSE {})
          BY <5>1 DEF DriversAccounted
        <5> QED BY <5>1, <5>2, SMT
      <4> QED BY <2>3, <4>1, AttachFacts, SMT
    <3> QED BY <2>3, <3>1, <3>2, AttachFacts DEF DriversAccounted
  <2>4. ASSUME NEW D \in SUBSET Devices, TearDown(D) PROVE DriversAccounted'
    <3>1. ASSUME NEW d \in D, plugged[d] # NoProduct PROVE NativeDrivers \ driver'[d] = {}
      <4>1. NativeDrivers \ driver[d] \subseteq
               (IF Live(d) THEN attachments[d].drivers ELSE {})
        BY <3>1 DEF DriversAccounted
      <4>2. /\ Live(d) => driver'[d] = driver[d] \cup attachments[d].drivers
            /\ ~Live(d) => driver'[d] = driver[d]
        BY <2>4, TearDownFacts
      <4> QED BY <4>1, <4>2, SMT
    <3>2. plugged' = plugged BY <2>4 DEF TearDown
    <3>3. ASSUME NEW d \in Devices \ D
          PROVE  /\ attachments'[d] = attachments[d]
                 /\ driver'[d] = driver[d] /\ Live(d)' = Live(d)
      BY <2>4, TearDownFacts DEF Live, Attached
    <3> QED BY <3>1, <3>2, <3>3 DEF DriversAccounted
  <2>5. ASSUME NEW d \in Devices, NEW i \in Interfaces,
               claim_interface(d, i) \/ release_interface(d, i)
        PROVE  DriversAccounted'
    <3>1. \A e \in Devices : Live(e)' = Live(e)
      BY <2>5, ClaimSame DEF Live, Attached
    <3> QED BY <2>5, <3>1, ClaimSame DEF DriversAccounted
  <2>6. ASSUME NEW d \in Devices, set_configuration(d) PROVE DriversAccounted'
    <3>1. /\ UNCHANGED <<plugged, attachments>>
          /\ \A e \in Devices : Live(e)' = Live(e)
          /\ \A e \in Devices \ {d} : driver'[e] = driver[e]
      BY <2>6, SMT DEF set_configuration, DmTypeOK, BusTypeOK, Live, Attached
    <3>2. Live(d) /\ NativeDrivers \subseteq attachments[d].drivers
      BY <2>6, SMT DEF set_configuration, DriversAccounted, Live
    <3> QED BY <3>1, <3>2, SMT DEF DriversAccounted
  <2>7. CASE UNCHANGED <<busVars, dmVars>>
    BY <2>7 DEF DriversAccounted, Live, Attached, busVars, dmVars
  <2>8. ASSUME NEW d \in Devices, NEW s \in SessionIds, detach(d, s)
        PROVE  DriversAccounted'
    <3>1. TearDown({d}) BY <2>8 DEF detach
    <3> QED BY <2>4, <3>1
  <2>9. ASSUME NEW S \in SUBSET SessionIds, detach_all_for_sessions(S)
        PROVE  DriversAccounted'
    <3>1. TearDown({d \in Devices : Attached(d) /\ \E s \in S : sessionToDevice[s] = d})
      BY <2>9 DEF detach_all_for_sessions
    <3> QED BY <2>4, <3>1
  <2>10. ~Restart BY DEF Restart
  <2> QED BY <2>1, <2>2, <2>3, <2>5, <2>6, <2>7, <2>8, <2>9, <2>10 DEF DmNext, BusNext
<1> QED BY <1>1, <1>2, DmTypeCorrect, RecordInvariant, PTL DEF DmSpec
=============================================================================
