-------------------------- MODULE RegistryAbstract --------------------------
(***************************************************************************)
(* What the record module promises about its sessions, with every step     *)
(* atomic and no reference counts: a stream name is registered to at most *)
(* one session; a session is registered under its stream while it is      *)
(* live (inactive or active); it records only while active; it is killed   *)
(* only when stopped and unregistered in the same step; and a killed       *)
(* session is eventually deleted.  RecordModule implements this           *)
(* specification (RecordRefinement).                                       *)
(***************************************************************************)
CONSTANTS Names, Sessions, None

VARIABLES
    registry,   \* stream name -> its registered session, or None
    phase,      \* session -> "free", "inactive", "active" or "killed"
    stream      \* session -> the stream it was created for, or None

avars == <<registry, phase, stream>>

Live(s) == phase[s] \in {"inactive", "active"}

Init ==
    /\ registry = [n \in Names |-> None]
    /\ phase = [s \in Sessions |-> "free"]
    /\ stream = [s \in Sessions |-> None]

(* A session is created for an unregistered stream and registered. *)
Register(n, s) ==
    /\ registry[n] = None /\ phase[s] = "free"
    /\ registry' = [registry EXCEPT ![n] = s]
    /\ phase' = [phase EXCEPT ![s] = "inactive"]
    /\ stream' = [stream EXCEPT ![s] = n]

(* A registered inactive session starts recording. *)
Start(s) ==
    /\ phase[s] = "inactive" /\ registry[stream[s]] = s
    /\ phase' = [phase EXCEPT ![s] = "active"]
    /\ UNCHANGED <<registry, stream>>

(* A recording session stops; it stays registered. *)
Stop(s) ==
    /\ phase[s] = "active"
    /\ phase' = [phase EXCEPT ![s] = "inactive"]
    /\ UNCHANGED <<registry, stream>>

(* A stopped session is unregistered and killed at once. *)
Retire(s) ==
    /\ phase[s] = "inactive" /\ registry[stream[s]] = s
    /\ registry' = [registry EXCEPT ![stream[s]] = None]
    /\ phase' = [phase EXCEPT ![s] = "killed"]
    /\ UNCHANGED stream

(* A killed session is deleted. *)
Free(s) ==
    /\ phase[s] = "killed"
    /\ phase' = [phase EXCEPT ![s] = "free"]
    /\ stream' = [stream EXCEPT ![s] = None]
    /\ UNCHANGED registry

Next ==
    \/ \E n \in Names, s \in Sessions : Register(n, s)
    \/ \E s \in Sessions : Start(s) \/ Stop(s) \/ Retire(s) \/ Free(s)

Spec == Init /\ [][Next]_avars /\ \A s \in Sessions : WF_avars(Free(s))

(* Registered sessions are exactly the live ones, each under its stream. *)
LiveIffRegistered ==
    \A s \in Sessions : Live(s) <=> stream[s] # None /\ registry[stream[s]] = s
=============================================================================
