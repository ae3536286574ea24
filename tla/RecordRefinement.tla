------------------------- MODULE RecordRefinement -------------------------
(***************************************************************************)
(* RecordModule implements RegistryAbstract: the OSRefTable map is the     *)
(* registry, and a session's state and stream name are its phase and       *)
(* stream.  Reference counts, the map mutex, the handler threads' steps    *)
(* and the EasyOSS handles are hidden; every handler step is either one   *)
(* abstract step or a stutter.                                            *)
(***************************************************************************)
EXTENDS RecordModule

Abs == INSTANCE RegistryAbstract WITH
    registry <- table,
    phase <- [s \in Sessions |-> sess[s].state],
    stream <- [s \in Sessions |-> sess[s].name]

(* EasyHLSOpen and EasyHLSClose, interleaved by the dispatch threads and  *)
(* the session tasks, behave as the atomic registry: no session is        *)
(* started while unregistered, killed while registered or active, or     *)
(* created under a name another session holds, and every killed session  *)
(* is deleted.                                                            *)
ImplementsRegistry == Abs!Spec
=============================================================================
