----------------------------- MODULE DeviceLease -----------------------------
(***************************************************************************)
(* What the server promises of its devices: at any time a device has at    *)
(* most one holder, only a free device is acquired, and a device is given  *)
(* up only when its own holder has asked for it or is on its way out.      *)
(* Connection.tla implements it.                                           *)
(***************************************************************************)
CONSTANTS Devices, Conns, NoConn

VARIABLES holder,   \* holder[d]: the connection that has d attached
          leaving   \* leaving[c]: c gives up one of its devices, or all

LeaseInit == /\ holder = [d \in Devices |-> NoConn]
             /\ leaving = [c \in Conns |-> FALSE]

Acquire(c, d) == /\ holder[d] = NoConn
                 /\ ~leaving[c]
                 /\ holder' = [holder EXCEPT ![d] = c]
                 /\ UNCHANGED leaving

Ask(c) == /\ leaving' = [leaving EXCEPT ![c] = TRUE]
          /\ UNCHANGED holder

\* D is empty when there was nothing to give up.
Release(c, D) == /\ leaving[c]
                 /\ \A d \in D : holder[d] = c
                 /\ holder' = [d \in Devices |-> IF d \in D THEN NoConn ELSE holder[d]]
                 /\ leaving' = [leaving EXCEPT ![c] = FALSE]

LeaseNext == \E c \in Conns : \/ \E d \in Devices : Acquire(c, d)
                              \/ Ask(c)
                              \/ \E D \in SUBSET Devices : Release(c, D)

LeaseSpec == LeaseInit /\ [][LeaseNext]_<<holder, leaving>>
=============================================================================
