------------------------------- MODULE EasyOSS -------------------------------
(***************************************************************************)
(* The libEasyOSS object handle (class EasyOSS, EasyOSS.cpp) over the OSS  *)
(* append/range-GET/HEAD/DELETE service.  A handle keeps a single cursor   *)
(* position_ shared by Read and Write, and a memoised object size          *)
(* (size_, get_size_).  Every request may fail at the transport; an        *)
(* append may also be applied by the service while its reply is lost.     *)
(* The actions are parameterised by the handle so that RecordModule can    *)
(* drive them from its sessions.                                           *)
(***************************************************************************)
EXTENDS Integers, Sequences, SequencesExt

CONSTANTS
    Handles,        \* EasyOSS_Handle values (heap objects)
    Names,          \* object names in the configured bucket
    Bytes,          \* the byte values written
    Absent,         \* store value of an object that does not exist
    Closed,         \* handle slot that is not (or no longer) allocated
    MaxLen,         \* bound: longest object the model lets a write build
    ReadSizes,      \* the size arguments of EasyOSS_Read calls
    WriteSizes,     \* the size arguments of EasyOSS_Write calls
    MaxBuffers,     \* bound: aos_buf_t chunks in one GET response body
    ULongMod,       \* 2^w for unsigned long arithmetic on offsets
    LostReplies     \* whether an applied append may still report failure

VARIABLES
    store,      \* service side: object name -> content or Absent
    hnd,        \* handle -> [obj, position, size, get_size] or Closed
    readback,   \* history: bytes a handle's Reads returned since Open
    sizeSeen,   \* history: last Size() result and the true length then
    stale,      \* history: the handle's object was deleted since Open
    failed      \* history: a Size or Read of the handle failed since Open

ossVars == <<store, hnd, readback, sizeSeen, stale, failed>>

HandleRec == [obj : Names, position : Nat, size : Nat, get_size : BOOLEAN]

ObjLen(n) == IF store[n] = Absent THEN 0 ELSE Len(store[n])

MinOf(a, b) == IF a < b THEN a ELSE b

(* EasyOSS::EasyOSS: a new handle starts at offset 0 with no cached size. *)
NewHandle(n) == [obj |-> n, position |-> 0, size |-> 0, get_size |-> FALSE]

(* EasyOSS::Size: the memo, or a HEAD whose Content-Length is memoised;  *)
(* a failed HEAD leaves size_ = 0 and get_size_ FALSE.                   *)
SizeCall(h, headOk) ==
    LET r == hnd[h] IN
    IF r.get_size THEN r
    ELSE IF headOk /\ store[r.obj] # Absent
         THEN [r EXCEPT !.size = ObjLen(r.obj), !.get_size = TRUE]
         ELSE [r EXCEPT !.size = 0]

(* The Range header "bytes=first-last" of EasyOSS::Read: the last offset  *)
(* is position_ + size - 1 in unsigned long, clamped to Size() - 1.        *)
RangeLast(p, k, sz) == MinOf((p + k - 1) % ULongMod, sz - 1)

(* The GET answer: a syntactically invalid range (first > last) is        *)
(* ignored and the whole object returned; a first offset at or past the   *)
(* end is 416; otherwise the bytes of the range clipped to the object.    *)
GetBody(n, first, last) ==
    IF store[n] = Absent THEN Absent
    ELSE IF first > last THEN store[n]
    ELSE IF first >= Len(store[n]) THEN Absent
    ELSE SubSeq(store[n], first + 1, MinOf(last, Len(store[n]) - 1) + 1)

(* The ways the HTTP layer may split a body into at most m aos_buf_t     *)
(* buffers of the response list.                                          *)
RECURSIVE Splits(_, _)
Splits(s, m) ==
    IF s = <<>> THEN {<<>>}
    ELSE IF m = 0 THEN {}
    ELSE UNION {{<<SubSeq(s, 1, i)>> \o t : t \in Splits(SubSeq(s, i + 1, Len(s)), m - 1)}
                : i \in 1..Len(s)}

(* memcpy(data + pos, content, len) into the caller's buffer of size k,  *)
(* whose bytes not written by this Read are shown as Absent.             *)
CopyAt(out, pos, chunk) ==
    [i \in 1..(IF Len(out) > pos + Len(chunk) THEN Len(out) ELSE pos + Len(chunk)) |->
        IF i > pos /\ i <= pos + Len(chunk) THEN chunk[i - pos] ELSE out[i]]

(* Fault variant of the copy loop: the offset is not accumulated, each   *)
(* buffer is copied to the start of the caller's buffer.                  *)
RECURSIVE CopyBuffersNoAccumulate(_, _, _, _, _)
CopyBuffersNoAccumulate(cs, out, pos, k, room) ==
    IF cs = <<>> THEN [res |-> "done", pos |-> pos, out |-> out]
    ELSE LET len == Len(Head(cs)) IN
         IF len > k \/ pos + len > k THEN [res |-> "overflow", pos |-> pos, out |-> out]
         ELSE IF pos + len > room THEN [res |-> "past_size", pos |-> pos, out |-> out]
         ELSE CopyBuffersNoAccumulate(Tail(cs), CopyAt(out, 0, Head(cs)), pos + len, k, room)

(* The copy loop of EasyOSS::Read over the response buffers: a buffer     *)
(* exceeding the caller's size is fatal; one passing the cached size ends *)
(* the loop returning the bytes copied so far.                            *)
RECURSIVE CopyBuffers(_, _, _, _, _)
CopyBuffers(cs, out, pos, k, room) ==
    IF cs = <<>> THEN [res |-> "done", pos |-> pos, out |-> out]
    ELSE LET len == Len(Head(cs)) IN
         IF len > k \/ pos + len > k THEN [res |-> "overflow", pos |-> pos, out |-> out]
         ELSE IF pos + len > room THEN [res |-> "past_size", pos |-> pos, out |-> out]
         ELSE CopyBuffers(Tail(cs), CopyAt(out, pos, Head(cs)), pos + len, k, room)

OSSInit ==
    /\ store \in [Names -> {Absent} \cup BoundedSeq(Bytes, MaxLen)]
    /\ hnd = [h \in Handles |-> Closed]
    /\ readback = [h \in Handles |-> <<>>]
    /\ sizeSeen = [h \in Handles |-> [ret |-> 0, truth |-> 0, served |-> FALSE]]
    /\ stale = [h \in Handles |-> FALSE]
    /\ failed = [h \in Handles |-> FALSE]

(* EasyOSS_Open: a new EasyOSS on the object name. *)
Open(h, n) ==
    /\ hnd[h] = Closed
    /\ hnd' = [hnd EXCEPT ![h] = NewHandle(n)]
    /\ readback' = [readback EXCEPT ![h] = <<>>]
    /\ stale' = [stale EXCEPT ![h] = FALSE]
    /\ failed' = [failed EXCEPT ![h] = FALSE]
    /\ UNCHANGED <<store, sizeSeen>>

(* EasyOSS_Close: delete the EasyOSS; the remote object is kept. *)
Close(h) ==
    /\ hnd[h] # Closed
    /\ hnd' = [hnd EXCEPT ![h] = Closed]
    /\ UNCHANGED <<store, readback, sizeSeen, stale, failed>>

(* Fault variant of Write: position_ advances on any reply, success or  *)
(* error status alike.                                                    *)
WriteIgnoringStatus(h, data) ==
    LET r == hnd[h]
        n == r.obj
        accepted == r.position = ObjLen(n)
    IN
    /\ r # Closed
    /\ MinOf(r.position, ObjLen(n)) + Len(data) <= MaxLen
    /\ \E outcome \in {"io_error", "reply"} :
        /\ store' = IF outcome # "io_error" /\ accepted
                    THEN [store EXCEPT ![n] = (IF @ = Absent THEN <<>> ELSE @) \o data]
                    ELSE store
        /\ hnd' = IF outcome = "reply"
                  THEN [hnd EXCEPT ![h].position = @ + Len(data)]
                  ELSE hnd
    /\ UNCHANGED <<readback, sizeSeen, stale, failed>>

(* EasyOSS::Write: append at offset position_; the service accepts it    *)
(* only when that offset is the object's length (0 creates the object).  *)
(* position_ advances only on a reply of success.                         *)
Write(h, data) ==
    LET r == hnd[h]
        n == r.obj
        accepted == r.position = ObjLen(n)
    IN
    /\ r # Closed
    /\ MinOf(r.position, ObjLen(n)) + Len(data) <= MaxLen
    /\ \E outcome \in {"io_error", "reply"} \cup
                      (IF LostReplies THEN {"lost_reply"} ELSE {}) :
        /\ store' = IF outcome # "io_error" /\ accepted
                    THEN [store EXCEPT ![n] = (IF @ = Absent THEN <<>> ELSE @) \o data]
                    ELSE store
        /\ hnd' = IF outcome = "reply" /\ accepted
                  THEN [hnd EXCEPT ![h].position = @ + Len(data)]
                  ELSE hnd
    /\ UNCHANGED <<readback, sizeSeen, stale, failed>>

(* Record whether the call failed: a HEAD without an answer, a failed GET *)
(* or a body larger than the caller's buffer (the -1 returns of Read).   *)
Failed(h, bad) == failed' = [failed EXCEPT ![h] = @ \/ bad]

(* Fault variant of Read: position_ += pos also on the error path, where *)
(* pos is (size_t)-1.                                                     *)
ReadAdvanceOnError(h, k) ==
    /\ hnd[h] # Closed
    /\ \E headOk, getOk \in BOOLEAN :
       LET r == SizeCall(h, headOk)
           first == r.position
           body == GetBody(r.obj, first, RangeLast(first, k, r.size))
       IN
       \/ /\ first >= r.size
          /\ hnd' = [hnd EXCEPT ![h] = r]
          /\ Failed(h, ~r.get_size)
          /\ UNCHANGED readback
       \/ /\ first < r.size
          /\ ~getOk \/ body = Absent
          /\ Failed(h, TRUE)
          /\ hnd' = [hnd EXCEPT ![h] = [r EXCEPT !.position = (@ - 1) % ULongMod]]
          /\ UNCHANGED readback
       \/ /\ first < r.size
          /\ getOk /\ body # Absent
          /\ \E cs \in Splits(body, MaxBuffers) :
             LET c == CopyBuffers(cs, [i \in 1..k |-> Absent], 0, k, r.size - first) IN
             /\ hnd' = [hnd EXCEPT ![h] = IF c.res = "done"
                                          THEN [r EXCEPT !.position = @ + c.pos]
                                          ELSE r]
             /\ readback' = IF c.res = "overflow" THEN readback
                            ELSE [readback EXCEPT ![h] = @ \o SubSeq(c.out, 1, c.pos)]
             /\ Failed(h, c.res = "overflow")
    /\ UNCHANGED <<store, sizeSeen, stale>>

(* Fault variant of Read: the end test is position_ + 1 >= Size(), so   *)
(* the last byte of the object is never requested.                       *)
ReadEndOffByOne(h, k) ==
    /\ hnd[h] # Closed
    /\ \E headOk, getOk \in BOOLEAN :
       LET r == SizeCall(h, headOk)
           first == r.position
           body == GetBody(r.obj, first, RangeLast(first, k, r.size))
       IN
       \/ /\ first + 1 >= r.size
          /\ hnd' = [hnd EXCEPT ![h] = r]
          /\ Failed(h, ~r.get_size)
          /\ UNCHANGED readback
       \/ /\ first + 1 < r.size
          /\ ~getOk \/ body = Absent
          /\ Failed(h, TRUE)
          /\ hnd' = [hnd EXCEPT ![h] = r]
          /\ UNCHANGED readback
       \/ /\ first + 1 < r.size
          /\ getOk /\ body # Absent
          /\ \E cs \in Splits(body, MaxBuffers) :
             LET c == CopyBuffers(cs, [i \in 1..k |-> Absent], 0, k, r.size - first) IN
             /\ hnd' = [hnd EXCEPT ![h] = IF c.res = "done"
                                          THEN [r EXCEPT !.position = @ + c.pos]
                                          ELSE r]
             /\ readback' = IF c.res = "overflow" THEN readback
                            ELSE [readback EXCEPT ![h] = @ \o SubSeq(c.out, 1, c.pos)]
             /\ Failed(h, c.res = "overflow")
    /\ UNCHANGED <<store, sizeSeen, stale>>

(* EasyOSS::Read(data, k): end of object by the cached size, else a range *)
(* GET; position_ advances only when the whole body was copied, and the   *)
(* caller keeps the bytes of a loop ended by the cached size.             *)
Read(h, k) ==
    /\ hnd[h] # Closed
    /\ \E headOk, getOk \in BOOLEAN :
       LET r == SizeCall(h, headOk)
           first == r.position
           body == GetBody(r.obj, first, RangeLast(first, k, r.size))
       IN
       \/ /\ first >= r.size
          /\ hnd' = [hnd EXCEPT ![h] = r]
          /\ Failed(h, ~r.get_size)
          /\ UNCHANGED readback
       \/ /\ first < r.size
          /\ ~getOk \/ body = Absent
          /\ Failed(h, TRUE)
          /\ hnd' = [hnd EXCEPT ![h] = r]
          /\ UNCHANGED readback
       \/ /\ first < r.size
          /\ getOk /\ body # Absent
          /\ \E cs \in Splits(body, MaxBuffers) :
             LET c == CopyBuffers(cs, [i \in 1..k |-> Absent], 0, k, r.size - first) IN
             /\ hnd' = [hnd EXCEPT ![h] = IF c.res = "done"
                                          THEN [r EXCEPT !.position = @ + c.pos]
                                          ELSE r]
             /\ readback' = IF c.res = "overflow" THEN readback
                            ELSE [readback EXCEPT ![h] = @ \o SubSeq(c.out, 1, c.pos)]
             /\ Failed(h, c.res = "overflow")
    /\ UNCHANGED <<store, sizeSeen, stale>>

(* EasyOSS_Size. *)
Size(h) ==
    hnd[h] # Closed /\
    \E headOk \in BOOLEAN :
    LET r == SizeCall(h, headOk) IN
    /\ hnd' = [hnd EXCEPT ![h] = r]
    /\ sizeSeen' = [sizeSeen EXCEPT ![h] =
                       [ret |-> r.size, truth |-> ObjLen(r.obj),
                        served |-> hnd[h].get_size \/ headOk]]
    /\ Failed(h, ~r.get_size)
    /\ UNCHANGED <<store, readback, stale>>

(* EasyOSS::Delete: DELETE the object (success also when already absent); *)
(* the handle keeps its cursor and cached size.                           *)
Delete(h) ==
    LET n == hnd[h].obj IN
    /\ hnd[h] # Closed
    /\ \E applied \in BOOLEAN :
        /\ store' = IF applied THEN [store EXCEPT ![n] = Absent] ELSE store
        /\ stale' = IF applied
                    THEN [g \in Handles |-> stale[g] \/ (hnd[g] # Closed /\ hnd[g].obj = n)]
                    ELSE stale
    /\ UNCHANGED <<hnd, readback, sizeSeen, failed>>
=============================================================================
