------------------------------- MODULE MCRelay -------------------------------
(***************************************************************************)
(* Instances of Relay for TLC: model values for sockets and ids, and the   *)
(* functions of them a configuration file cannot write.                    *)
(***************************************************************************)
EXTENDS RelayLedger, TLC

CONSTANTS m1, m2, r1, r2

\* Each phone draws its request ids from its own set.
DisjointIds == [m \in MobileSockets |-> IF m = m1 THEN {r1} ELSE {r2}]

\* Request ids are unique per client process only: two phones may collide.
SharedIds == [m \in MobileSockets |-> RequestIds]

\* No phone sends a forwarded request.
NoIds == [m \in MobileSockets |-> {}]

\* Without forwarded requests nothing tells the sockets apart.
PairingSymmetry ==
    Permutations(DesktopSockets) \cup Permutations(MobileSockets)
        \cup Permutations(DesktopIds) \cup Permutations(Codes)
        \cup Permutations(Tokens) \cup Permutations(Devices)
=============================================================================
