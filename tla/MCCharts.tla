------------------------------ MODULE MCCharts ------------------------------
(***************************************************************************)
(* A front row of one or two seats for Charts, which can also be moved.    *)
(***************************************************************************)
EXTENDS Charts, TLC

CONSTANTS p1, p2

Row(n, where) == [rows |-> 1, seats_per_row |-> n, alternating |-> FALSE, alt_row_seat_delta |-> 0,
                  numbering_scheme |-> "sequential", skip_io |-> TRUE, row_label_start |-> 0,
                  removed |-> {}, place |-> where]

OneOrTwo     == {Row(1, 0), Row(2, 0)}
TierOne      == [s \in Section |-> 1]
FirstDearer  == <<p1, 1>> :> 3
Ids          == Permutations(ZoneId)
=============================================================================
