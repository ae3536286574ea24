--------------------------- MODULE EasyOSSClients ---------------------------
(***************************************************************************)
(* Callers of the libEasyOSS C API (libEasyOSS.h): writer handles that     *)
(* open, append, query the size, delete and close, and reader handles that *)
(* open, read, query the size and close, in any order and interleaving.    *)
(***************************************************************************)
EXTENDS EasyOSS

CONSTANTS Writers, Readers

ASSUME Writers \cap Readers = {} /\ Writers \cup Readers = Handles

(* The data argument of EasyOSS_Write: size bytes. *)
Chunks == UNION {[1..k -> Bytes] : k \in WriteSizes}

Init == OSSInit

Next ==
    \/ \E h \in Handles, n \in Names : Open(h, n)
    \/ \E h \in Handles : Close(h) \/ Size(h)
    \/ \E h \in Writers : Delete(h) \/ \E d \in Chunks : Write(h, d)
    \/ \E h \in Readers, k \in ReadSizes : Read(h, k)

Spec == Init /\ [][Next]_ossVars

-----------------------------------------------------------------------------
TypeOK ==
    /\ store \in [Names -> {Absent} \cup Seq(Bytes)]
    /\ hnd \in [Handles -> HandleRec \cup {Closed}]
    /\ \A h \in Handles : hnd[h] # Closed => hnd[h].position <= MaxLen
    /\ readback \in [Handles -> Seq(Bytes \cup {Absent})]
    /\ stale \in [Handles -> BOOLEAN]
    /\ failed \in [Handles -> BOOLEAN]

Content(n) == IF store[n] = Absent THEN <<>> ELSE store[n]

(* Round trip (EasyOSS::Read): the bytes a reader handle has been given   *)
(* since it was opened are exactly the first position_ bytes of the       *)
(* object, so no byte is skipped or repeated by the cursor arithmetic,    *)
(* the size clamp of the Range header or the buffer copy loop, as long as *)
(* the object is not deleted under the handle.                            *)
ReadBackIsObjectPrefix ==
    \A h \in Readers :
        hnd[h] # Closed /\ ~stale[h] =>
            readback[h] = SubSeq(Content(hnd[h].obj), 1, hnd[h].position)

(* The cursor of a handle (EasyOSS::Write and EasyOSS::Read advancing     *)
(* position_) never points past the end of its object while the object   *)
(* has not been deleted under it, whatever requests failed or lost their  *)
(* replies.                                                               *)
CursorWithinObject ==
    \A h \in Handles :
        hnd[h] # Closed /\ ~stale[h] => hnd[h].position <= ObjLen(hnd[h].obj)

(* Spec 8: Size() re-queried after writing returns the object's length;  *)
(* every Size() answered without a transport failure is the length then.  *)
SizeReQueryFresh ==
    \A h \in Handles : sizeSeen[h].served => sizeSeen[h].ret = sizeSeen[h].truth
=============================================================================
