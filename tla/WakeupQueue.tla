---------------------------- MODULE WakeupQueue ----------------------------
(***************************************************************************)
(* What the reasoning job queue promises to the rest of the platform, with *)
(* no jobs, rows, locks or processes in it: an observation that has been   *)
(* stored stays owed to the reasoning pipeline until an attempt on its     *)
(* asset looks at it, and such an attempt looks at everything the asset    *)
(* has stored so far.  ReasoningJobs is shown to implement this module.    *)
(***************************************************************************)
CONSTANTS
    Obs,        \* the observations that may be posted
    Asset,      \* the assets
    AssetOf     \* AssetOf[o] is the asset observation o belongs to

VARIABLES
    arrived,    \* observations stored
    attended    \* observations some finished attempt has looked at

wvars == <<arrived, attended>>

Owed(a) == {o \in arrived \ attended : AssetOf[o] = a}

WInit == arrived = {} /\ attended = {}

(* An observation is stored, once. *)
Arrive(o) ==
    /\ o \notin arrived
    /\ arrived' = arrived \cup {o}
    /\ UNCHANGED attended

(* An attempt on asset a finishes; it discharges all that a is owed. *)
Attend(a) ==
    /\ Owed(a) # {}
    /\ attended' = attended \cup Owed(a)
    /\ UNCHANGED arrived

WNext == (\E o \in Obs : Arrive(o)) \/ (\E a \in Asset : Attend(a))

WFairness == \A a \in Asset : WF_wvars(Attend(a))

WSafety == WInit /\ [][WNext]_wvars
WSpec == WSafety /\ WFairness
============================================================================
