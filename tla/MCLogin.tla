------------------------------ MODULE MCLogin ------------------------------
(* Small instances of Login.                                               *)
EXTENDS Login, TLC

CONSTANTS q1, e1, n1, p1, p2, p2x

\* Emails and usernames are interchangeable: those of q1 are called e1 and n1.
\* So are the other requests: of overlaps that only swap them, one is chosen.
Overlaps ==
    LET All == {f \in [Requests -> [email : Emails, username : Usernames]] :
                   f[q1] = [email |-> e1, username |-> n1]}
        Swaps == {p \in Permutations(Requests) : p[q1] = q1}
    IN  {CHOOSE f \in All : \E p \in Swaps : f = [q \in Requests |-> g[p[q]]] :
            g \in All}

\* q1 gives p1 and the others p2; p2x is p2 and more, after 72 bytes.
TwoPasswords == [q \in Requests |-> IF q = q1 THEN p1 ELSE p2]
SamePrefix   == p1 :> p1 @@ p2 :> p2 @@ p2x :> p2
=============================================================================
