--------------------------- MODULE MCHistoryPaging --------------------------
(* Values for HistoryPaging: three rows in two milliseconds, a filter on the *)
(* columns, and one on the time as well.                                     *)
EXTENDS HistoryPaging

CONSTANTS mine, other

MCKind  == {mine, other}
MCQuery == {[kinds |-> {mine}, from |-> 0, to |-> 9],
            [kinds |-> {mine}, from |-> 2, to |-> 2]}
MCLimits == {1, 2}
=============================================================================
