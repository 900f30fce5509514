----------------------------- MODULE MCLottery -----------------------------
(***************************************************************************)
(* Instance of Lottery for TLC.                                            *)
(***************************************************************************)
EXTENDS Lottery

CONSTANTS l1, l2

R(start, increment, smallest, largest, normal, lucky, drawAt, target) ==
    [start |-> start, increment |-> increment, min |-> smallest, max |-> largest,
     normal |-> normal, lucky |-> lucky, drawAt |-> drawAt, target |-> target]

\* A lottery with a growing pool, with a target or with both, beside one whose draw
\* overlaps with it.
Overlapping ==
    (l1 :> {R(5, 1, 2, 5, 1, 1, 1, 0), R(9, 0, 1, 5, 2, 0, 1, 2),
            R(5, 2, 1, 4, 1, 1, 1, 2)})
    @@ (l2 :> {R(4, 0, 1, 3, 0, 1, -1, 2)})

=============================================================================
