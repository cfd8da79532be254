---------------------------- MODULE MCResponder ----------------------------
(***************************************************************************)
(* One pid that is recycled, two names, an allowlisted and an ordinary     *)
(* executable, one destination.  The shapes cover every branch of execute, *)
(* with and without an executable on the event.                            *)
(***************************************************************************)
EXTENDS Responder

Shape(isExec, dstIP, requested, risk) ==
    [isExec |-> isExec, dstIP |-> dstIP, requested |-> requested, risk |-> risk,
     severity |-> "low"]

MCShapes ==
    {Shape(TRUE, None, "", 90), Shape(FALSE, "ip1", "", 90),
     Shape(FALSE, "ip1", "", 75),
     Shape(FALSE, None, "quarantine", 0), Shape(FALSE, "ip1", "other", 0),
     Shape(TRUE, None, "", 0)}
=============================================================================
