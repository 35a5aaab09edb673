-------------------------------- MODULE MCKlog --------------------------------
(* Instances of Klog for TLC.                                              *)
EXTENDS Klog

\* Bound: records logged when something has failed.
CONSTANT MaxAfterFailure

FewAfterFailure == failed => logged <= MaxAfterFailure
=============================================================================
