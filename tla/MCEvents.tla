---------------------------- MODULE MCEvents ----------------------------
EXTENDS Events

(* Two descriptors, or two alarms and a handler, or one alarm and one     *)
(* descriptor, or two handlers.                                           *)
Limited(a, h, d, time) == [alarms |-> a, handlers |-> h, descs |-> d, time |-> time]
MCLimits == {Limited(0, 0, 2, 0), Limited(2, 1, 0, 1), Limited(1, 0, 1, 1), Limited(0, 2, 0, 0)}
=============================================================================
