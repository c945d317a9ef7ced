------------------------------ MODULE MCEvents ------------------------------
(***************************************************************************)
(* A small instance of EventDispatcher for TLC.                            *)
(***************************************************************************)
EXTENDS EventDispatcher, TLC

CONSTANTS c1, c2, o1, o2

\* Both threads have events for o1, which may disappear from the configuration.
Interests == c1 :> {o1, o2} @@ c2 :> {o1}
=============================================================================
