------------------------- MODULE MCStreamController -------------------------
(* Instances of StreamController for TLC.                                  *)
EXTENDS StreamController

\* Every kind of configuration, each in its own behaviours.
MCKinds == AllKinds

=============================================================================
