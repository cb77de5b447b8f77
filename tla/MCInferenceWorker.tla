-------------------------- MODULE MCInferenceWorker --------------------------
(* Two assets of two measurements, one of which can disagree with itself. *)
EXTENDS InferenceWorker

CONSTANTS a1, a2, m1, m2

Event(a, at, m, v) == [asset |-> a, at |-> at, measurement |-> m, value |-> v]

MCRequired == {m1, m2}

MCTelemetry ==
    {Malformed, Event(a1, 1, m1, 1), Event(a1, 2, m1, 1), Event(a1, 2, m2, 1),
     Event(a1, 2, m2, 2), Event(a2, 1, m1, 1)}
=============================================================================
