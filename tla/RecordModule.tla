---------------------------- MODULE RecordModule ----------------------------
(***************************************************************************)
(* EasyRecordModule (EasyRecordModule.cpp): the Easy_RecordOpen_Role and   *)
(* Easy_RecordClose_Role handlers EasyHLSOpen and EasyHLSClose, run by     *)
(* concurrent dispatch threads against the server's record-session map    *)
(* (an OSRefTable: a mutex, a name -> OSRef table and a reference count   *)
(* per OSRef), and the EasyRecordSession tasks they create, start, stop    *)
(* and kill.  Each session owns one EasyOSS handle on the object named     *)
(* after its stream; the handle slot of a session is the session slot.     *)
(* OSRefTable and EasyRecordSession are not part of this repository and   *)
(* follow the spec (4.1, 4.2); the handlers follow the source step by      *)
(* step, one step per OSRefTable call.                                     *)
(***************************************************************************)
EXTENDS EasyOSS, FiniteSets

CONSTANTS
    Threads,    \* dispatch threads calling the module's roles
    NoThread,   \* lock holder when the map mutex is free
    None        \* no session (empty table slot, thread without a session)

Sessions == Handles

VARIABLES
    lock,       \* holder of the OSRefTable mutex
    table,      \* OSRefTable map: stream name -> registered session or None
    sess,       \* session slot -> [state, name, ref]
    pc,         \* thread -> its step in a handler, or "idle"
    req,        \* thread -> stream name of its current request
    cur,        \* thread -> the session its handler is working on
    kills,      \* history: kKillEvent signals a session received
    stopped     \* history: sessions a Close returned QTSS_NoErr on

regVars == <<lock, table, sess, pc, req, cur, kills, stopped>>
vars == <<regVars, ossVars>>

States == {"free", "inactive", "active", "killed"}
Steps == {"idle", "open_resolve", "open_create", "open_start", "open_release",
          "close_resolve", "close_stop", "close_check"}

(* The data one recording write appends. *)
Chunks == UNION {[1..k -> Bytes] : k \in WriteSizes \ {0}}

-----------------------------------------------------------------------------
(* Fault variant: the map mutex is not taken. *)
AcquireUnchecked(t) == lock' = t

(* OSMutexLocker on the map mutex at handler entry: lines 146 and 180. *)
Acquire(t) == lock = NoThread /\ lock' = t

(* OSRefTable::Resolve: the registered OSRef of a name, its count raised. *)
ResolveRef(sv, s) == [sv EXCEPT ![s].ref = @ + 1]

(* OSRefTable::Release. *)
ReleaseRef(sv, s) == [sv EXCEPT ![s].ref = @ - 1]

Goto(t, step) == pc' = [pc EXCEPT ![t] = step]

(* Handler exit: the OSMutexLocker destructor frees the mutex. *)
Leave(t) ==
    /\ lock' = NoThread
    /\ Goto(t, "idle")
    /\ cur' = [cur EXCEPT ![t] = None]

Init ==
    /\ OSSInit
    /\ lock = NoThread
    /\ table = [n \in Names |-> None]
    /\ sess = [s \in Sessions |-> [state |-> "free", name |-> None, ref |-> 0]]
    /\ pc = [t \in Threads |-> "idle"]
    /\ req = [t \in Threads |-> None]
    /\ cur = [t \in Threads |-> None]
    /\ kills = [s \in Sessions |-> 0]
    /\ stopped = {}

(* A role call arrives: EasyHLSOpen or EasyHLSClose for a stream name,   *)
(* blocking on the map mutex.                                            *)
Enter(t) ==
    /\ pc[t] = "idle"
    /\ Acquire(t)
    /\ \E n \in Names, role \in {"open_resolve", "close_resolve"} :
        /\ req' = [req EXCEPT ![t] = n]
        /\ Goto(t, role)
    /\ UNCHANGED <<table, sess, cur, kills, stopped, ossVars>>

(* EasyHLSOpen lines 150-155: Resolve the stream name. *)
OpenResolve(t) ==
    LET s == table[req[t]] IN
    /\ pc[t] = "open_resolve"
    /\ IF s # None
       THEN /\ sess' = ResolveRef(sess, s)
            /\ cur' = [cur EXCEPT ![t] = s]
            /\ Goto(t, "open_start")
       ELSE /\ Goto(t, "open_create")
            /\ UNCHANGED <<sess, cur>>
    /\ UNCHANGED <<lock, table, req, kills, stopped, ossVars>>

(* Fault variant of OpenCreate: without the second Resolve of line 164. *)
OpenCreateNoResolve(t) ==
    LET n == req[t] IN
    /\ pc[t] = "open_create"
    /\ \E s \in Sessions :
        /\ sess[s].state = "free"
        /\ table' = [table EXCEPT ![n] = IF @ = None THEN s ELSE @]
        /\ sess' = [sess EXCEPT ![s] = [state |-> "inactive", name |-> n, ref |-> 0]]
        /\ cur' = [cur EXCEPT ![t] = s]
        /\ kills' = [kills EXCEPT ![s] = 0]
    /\ Goto(t, "open_start")
    /\ UNCHANGED <<lock, req, stopped, ossVars>>

(* EasyHLSOpen lines 158-165: NEW EasyRecordSession, Register its OSRef   *)
(* (refused if the name is taken, the Assert compiled out), and Resolve   *)
(* the name once more: the reference released at line 171.                *)
OpenCreate(t) ==
    LET n == req[t] IN
    /\ pc[t] = "open_create"
    /\ \E s \in Sessions :
        LET registered == IF table[n] = None THEN s ELSE table[n]
            created == [sess EXCEPT ![s] = [state |-> "inactive", name |-> n, ref |-> 0]]
        IN
        /\ sess[s].state = "free"
        /\ table' = [table EXCEPT ![n] = registered]
        /\ sess' = ResolveRef(created, registered)
        /\ cur' = [cur EXCEPT ![t] = s]
        /\ kills' = [kills EXCEPT ![s] = 0]
    /\ Goto(t, "open_start")
    /\ UNCHANGED <<lock, req, stopped, ossVars>>

(* Line 169, EasyRecordSession::HLSSessionStart (spec 4.2): an inactive   *)
(* session opens its EasyOSS handle on first start and becomes active; an *)
(* active one is refreshed in place.  A killed or freed session is left   *)
(* as it is.                                                              *)
OpenStart(t) ==
    LET s == cur[t] IN
    /\ pc[t] = "open_start"
    /\ \/ /\ sess[s].state = "inactive"
          /\ sess' = [sess EXCEPT ![s].state = "active"]
          /\ IF hnd[s] = Closed THEN Open(s, sess[s].name) ELSE UNCHANGED ossVars
       \/ /\ sess[s].state # "inactive"
          /\ UNCHANGED <<sess, ossVars>>
    /\ Goto(t, "open_release")
    /\ UNCHANGED <<lock, table, req, cur, kills, stopped>>

(* Fault variant of OpenRelease: the Release of line 171 is missing. *)
OpenReleaseKeepRef(t) ==
    /\ pc[t] = "open_release"
    /\ stopped' = stopped \ {cur[t]}
    /\ Leave(t)
    /\ UNCHANGED <<sess, table, req, kills, ossVars>>

(* Lines 171-173: Release the reference, return QTSS_NoErr. *)
OpenRelease(t) ==
    /\ pc[t] = "open_release"
    /\ sess' = ReleaseRef(sess, cur[t])
    /\ stopped' = stopped \ {cur[t]}
    /\ Leave(t)
    /\ UNCHANGED <<table, req, kills, ossVars>>

(* EasyHLSClose lines 183-189: Resolve; QTSS_RequestFailed if absent. *)
CloseResolve(t) ==
    LET s == table[req[t]] IN
    /\ pc[t] = "close_resolve"
    /\ IF s = None
       THEN /\ Leave(t)
            /\ UNCHANGED sess
       ELSE /\ sess' = ResolveRef(sess, s)
            /\ cur' = [cur EXCEPT ![t] = s]
            /\ Goto(t, "close_stop")
            /\ UNCHANGED lock
    /\ UNCHANGED <<table, req, kills, stopped, ossVars>>

(* Lines 191-193: HLSSessionRelease (spec 4.2 Stop: active becomes        *)
(* inactive, the handle is kept), then Release the reference.             *)
CloseStop(t) ==
    LET s == cur[t] IN
    /\ pc[t] = "close_stop"
    /\ sess' = ReleaseRef([sess EXCEPT ![s].state =
                              IF @ = "active" THEN "inactive" ELSE @], s)
    /\ Goto(t, "close_check")
    /\ UNCHANGED <<lock, table, req, cur, kills, stopped, ossVars>>

(* Fault variant of CloseCheck: the reference is Released a second time  *)
(* before the count is tested.                                            *)
CloseCheckReleaseAgain(t) ==
    LET s == cur[t]
        sv == ReleaseRef(sess, s)
    IN
    /\ pc[t] = "close_check"
    /\ IF sv[s].ref = 0
       THEN /\ table' = [n \in Names |-> IF table[n] = s THEN None ELSE table[n]]
            /\ sess' = [sv EXCEPT ![s].state = "killed"]
            /\ kills' = [kills EXCEPT ![s] = IF @ < 2 THEN @ + 1 ELSE @]
       ELSE /\ sess' = sv
            /\ UNCHANGED <<table, kills>>
    /\ stopped' = stopped \cup {s}
    /\ Leave(t)
    /\ UNCHANGED <<req, ossVars>>

(* Fault variant of CloseCheck: the session is killed but not UnRegistered. *)
CloseCheckNoUnRegister(t) ==
    LET s == cur[t] IN
    /\ pc[t] = "close_check"
    /\ IF sess[s].ref = 0
       THEN /\ sess' = [sess EXCEPT ![s].state = "killed"]
            /\ kills' = [kills EXCEPT ![s] = IF @ < 2 THEN @ + 1 ELSE @]
       ELSE UNCHANGED <<sess, kills>>
    /\ stopped' = stopped \cup {s}
    /\ Leave(t)
    /\ UNCHANGED <<table, req, ossVars>>

(* Lines 195-201: at reference count 0, UnRegister and Signal kKillEvent; *)
(* return QTSS_NoErr.                                                     *)
CloseCheck(t) ==
    LET s == cur[t] IN
    /\ pc[t] = "close_check"
    /\ IF sess[s].ref = 0
       THEN /\ table' = [n \in Names |-> IF table[n] = s THEN None ELSE table[n]]
            /\ sess' = [sess EXCEPT ![s].state = "killed"]
            /\ kills' = [kills EXCEPT ![s] = IF @ < 2 THEN @ + 1 ELSE @]
       ELSE UNCHANGED <<table, sess, kills>>
    /\ stopped' = stopped \cup {s}
    /\ Leave(t)
    /\ UNCHANGED <<req, ossVars>>

(* EasyRecordSession task on kKillEvent (spec 4.2 Teardown): close the    *)
(* handle and delete the session.                                         *)
Teardown(s) ==
    /\ sess[s].state = "killed"
    /\ sess' = [sess EXCEPT ![s] = [state |-> "free", name |-> None, ref |-> 0]]
    /\ stopped' = stopped \ {s}
    /\ IF hnd[s] # Closed THEN Close(s) ELSE UNCHANGED ossVars
    /\ UNCHANGED <<lock, table, pc, req, cur, kills>>

(* An active session appends stream data through its handle (spec 4.2). *)
Record(s) ==
    /\ sess[s].state = "active"
    /\ \E d \in Chunks : Write(s, d)
    /\ UNCHANGED regVars

ThreadStep(t) ==
    \/ OpenResolve(t) \/ OpenCreate(t) \/ OpenStart(t) \/ OpenRelease(t)
    \/ CloseResolve(t) \/ CloseStop(t) \/ CloseCheck(t)

Next ==
    \/ \E t \in Threads : Enter(t) \/ ThreadStep(t)
    \/ \E s \in Sessions : Teardown(s) \/ Record(s)

(* A thread inside a handler keeps running (it holds the mutex or is     *)
(* about to leave), and the task threads run every signalled task; new   *)
(* role calls and stream data are not guaranteed to arrive.              *)
Spec ==
    /\ Init /\ [][Next]_vars
    /\ \A t \in Threads : WF_vars(ThreadStep(t))
    /\ \A s \in Sessions : WF_vars(Teardown(s))

-----------------------------------------------------------------------------
TypeOK ==
    /\ lock \in Threads \cup {NoThread}
    /\ table \in [Names -> Sessions \cup {None}]
    /\ sess \in [Sessions -> [state : States, name : Names \cup {None}, ref : Nat]]
    /\ pc \in [Threads -> Steps]
    /\ cur \in [Threads -> Sessions \cup {None}]
    /\ kills \in [Sessions -> 0..2]
    /\ stopped \subseteq Sessions

(* The threads inside a handler that hold a reference to session s. *)
Holders(s) ==
    {t \in Threads : cur[t] = s /\ pc[t] \in {"open_start", "open_release", "close_stop"}}

(* OSRef discipline of EasyHLSOpen/EasyHLSClose: every session's count   *)
(* is exactly the number of handler threads between their Resolve and   *)
(* their Release, so it is 0 whenever no handler is using the session    *)
(* (the extra Resolve of line 164 is the one released at line 171).      *)
RefCountMatchesHolders ==
    \A s \in Sessions : sess[s].state # "free" =>
        sess[s].ref = Cardinality(Holders(s))

KilledAtMostOnce == \A s \in Sessions : kills[s] <= 1

(* A stream whose close returned QTSS_NoErr, and that is not opened       *)
(* again, has its session deleted and its handle closed eventually.       *)
StoppedSessionFreed ==
    \A s \in Sessions : s \in stopped ~> (s \notin stopped \/ sess[s].state = "free")

(* Spec 4.3: a recording appends at the object's true end.  For the live  *)
(* session of a stream, the append offset of its handle is the length of *)
(* the stream's object.                                                   *)
RecordingAppendsAtObjectEnd ==
    \A s \in Sessions :
        sess[s].state = "active" /\ hnd[s] # Closed =>
            hnd[s].position = ObjLen(sess[s].name)
=============================================================================
