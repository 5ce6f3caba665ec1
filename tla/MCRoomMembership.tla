-------------------------- MODULE MCRoomMembership --------------------------
(* Small instances of RoomMembership.                                      *)
EXTENDS RoomMembership, TLC

\* Who reads, and the name in a request that creates nothing, do not matter.
Kinds ==
    {k \in [op : Ops, user : Users, name : Names] :
        /\ k.op \in {"list", "members"} => k.user = CHOOSE u \in Users : TRUE
        /\ k.op # "create" => k.name = CHOOSE n \in Names : TRUE}

\* How many of the requests are of which kind.
Count(w) == [k \in Kinds |-> Cardinality({q \in Requests : w[q] = k})]

\* The same with other users and names.
Renamed(k, pu, pn) ==
    IF k.op = "create" THEN [k EXCEPT !.user = pu[@], !.name = pn[@]]
    ELSE IF k.op = "join" THEN [k EXCEPT !.user = pu[@]]
    ELSE k

Renamings(count) ==
    {[k \in Kinds |-> count[Renamed(k, pu, pn)]] :
        pu \in Permutations(Users), pn \in Permutations(Names)}

\* Requests, users and names are interchangeable: every mixture, once.
Mixtures ==
    LET All == [Requests -> Kinds]
    IN  {CHOOSE w \in All : Count(w) \in same :
            same \in {Renamings(count) : count \in {Count(w) : w \in All}}}
=============================================================================
