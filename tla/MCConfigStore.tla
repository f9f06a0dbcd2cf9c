--------------------------- MODULE MCConfigStore ---------------------------
(* Instances of ConfigStore for TLC. *)
EXTENDS ConfigStore

CONSTANTS u1, u2, w1, w2

MCUsers == {u1, u2}
MCTwoWorkers == {w1, w2}

MCCall(kind, user, id) == [kind |-> kind, user |-> user, id |-> id, bare |-> FALSE]

\* Two configurations of u1 may exist; u2 only tries to change the first.
MCCalls ==
    {MCCall(kind, u1, 1) : kind \in Kinds}
        \cup {[kind |-> "update", user |-> u1, id |-> 1, bare |-> TRUE],
              MCCall("update", u2, 1)}
=============================================================================
