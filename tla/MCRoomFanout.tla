---------------------------- MODULE MCRoomFanout ----------------------------
(* Small instances of RoomFanout.                                          *)
EXTENDS RoomFanout, TLC

\* One room for every connection, or each room at least one connection.
AnyRoomOf == CHOOSE f \in [Conns -> Rooms] :
                 \A r \in Rooms : \E c \in Conns : f[c] = r

\* The connections of one room are interchangeable.
Symmetry == {p \in Permutations(Conns) :
                \A c \in Conns : RoomOf[p[c]] = RoomOf[c]}
=============================================================================
