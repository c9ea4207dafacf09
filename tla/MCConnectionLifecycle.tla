------------------------ MODULE MCConnectionLifecycle ------------------------
(* Small instances of ConnectionLifecycle for TLC. *)
EXTENDS ConnectionLifecycle, TLC

CONSTANTS c1, c2, c3

TwoConns   == {c1, c2}
ThreeConns == {c1, c2, c3}
(* Two connections to the plain port, the third to the TLS port. *)
PlainConns == {c1, c2}
OnePlain   == {c1}
=============================================================================
