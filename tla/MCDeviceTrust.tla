--------------------------- MODULE MCDeviceTrust ---------------------------
(* Small instance of DeviceTrust for TLC. *)
EXTENDS DeviceTrust, TLC

\* The devices that do not rotate their tokens are interchangeable, and so are
\* the recovery roots.
Symmetric == Permutations(Device \ Refreshing) \cup Permutations(Root)

\* What is still read: of a session that is not live only its state and its age,
\* its tokens and its session file change nothing any more.
Read ==
    <<[d \in Device |-> IF sessions[d].state = "live" THEN <<sessions[d], creds[d], clients[d]>>
                        ELSE <<sessions[d].state, sessions[d].at>>],
      security, codes, challenges, history>>
=============================================================================
