--------------------------- MODULE MCGattOffload ----------------------------
(* Small instances of GattOffload for TLC. *)
EXTENDS GattOffload

\* Sessions 1 and 2 share a service of one microapp, session 3 belongs to
\* another one; all are on one connection.
TwoEndpoints == [s \in Session |-> IF s < 3 THEN 1 ELSE 2]
OneAcl == [s \in Session |-> 1]
OneService == [s \in Session |-> 1]

\* Two operations at a time, of the first session.
FirstOperates == [s \in Session |-> IF s = 1 THEN {1, 2} ELSE {}]
=============================================================================
