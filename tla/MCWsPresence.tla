---------------------------- MODULE MCWsPresence ----------------------------
(***************************************************************************)
(* WsPresence with two nodes: s1 and s2 connect to n1, s3 to n2.  At most  *)
(* one thing fails.                                                        *)
(***************************************************************************)
EXTENDS WsPresence, TLC

CONSTANTS s1, s2, s3, n1, n2

MCNodeOf == [s \in Sockets |-> IF s = s3 THEN n2 ELSE n1]

\* The sockets of one node are interchangeable.
MCSymmetry == Permutations({s1, s2})

Failure ==
    \/ \E s \in Sockets :
          RefuseUnknown(s) \/ RegisterFails(s) \/ HelloFails(s) \/ UnregisterFails(s) \/ RemainingUnknown(s)
    \/ \E n \in Nodes : Crash(n)

OneFailureSpec == PresenceInit /\ [][PresenceNext /\ (failed => ~Failure)]_PresenceVars
=============================================================================
