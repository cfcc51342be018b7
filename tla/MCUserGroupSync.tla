-------------------------- MODULE MCUserGroupSync --------------------------
(* An instance of UserGroupSync: the group g1 has the members u2 and u3, and
   g2 does not exist; one file wants u1 and u2 in g1, and u3 and somebody
   unknown in g2; two managers of the other one give g1. *)
EXTENDS UserGroupSync

CONSTANTS f1, f2, g1, g2, u1, u2, u3, u4

MCOrder == <<g1, g2>>
MCWanted == [f \in {f1, f2} |-> [g \in {g1, g2} |->
                CASE f = f1 /\ g = g1 -> {u1, u2}
                  [] f = f1 /\ g = g2 -> {u3, u4}
                  [] f = f2 /\ g = g1 -> {u1}
                  [] f = f2 /\ g = g2 -> {}]]
MCFirst == [g \in {g1, g2} |-> IF g = g1 THEN {u2, u3} ELSE None]
=============================================================================
