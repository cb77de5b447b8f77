----------------------------- MODULE MCLiveView -----------------------------
(* One dashboard, and a slot for the fetch that it has cancelled; after    *)
(* the first run one reading, one other commit and one fault.              *)
EXTENDS LiveView

CONSTANTS q1, q2
=============================================================================
