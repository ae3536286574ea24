---------------------------- MODULE UploadHarness ----------------------------
(***************************************************************************)
(* The libEasyOSS test program (EasyOSSTest/main.cpp): testUploadFile     *)
(* copies a local file into the object in READ_BUF_SIZE chunks through    *)
(* one handle, then testReadFile reads the object back through a second   *)
(* handle until EasyOSS_Read stops returning a positive count.  The local *)
(* file is FileData; the file written by the read loop is readback[Hr].   *)
(* main() as written runs testMakeDir instead: one handle, one            *)
(* EasyOSS_Write of a fixed string, close.  The program is either one.    *)
(***************************************************************************)
EXTENDS EasyOSS

CONSTANTS
    Hu,             \* the handle of testUploadFile
    Hr,             \* the handle of testReadFile
    Obj,            \* "dms.log"
    FileData,       \* contents of the local file
    UploadBufSize,  \* READ_BUF_SIZE of testUploadFile
    ReadBufSize,    \* READ_BUF_SIZE of testReadFile
    MkBuf           \* the string testMakeDir writes

VARIABLES
    hpc,        \* the harness's point in main.cpp
    lSize,      \* testUploadFile: bytes of the file still to send
    before      \* history: the object's content when the program started

harnessVars == <<hpc, lSize, before>>
vars == <<harnessVars, ossVars>>

ObjContent == IF store[Obj] = Absent THEN <<>> ELSE store[Obj]

Init ==
    /\ OSSInit
    /\ hpc \in {"upload_open", "mkdir_open"}
    /\ lSize = 0
    /\ before = ObjContent

(* Lines 14-17: EasyOSS_Initialize (result ignored), EasyOSS_Open. *)
UploadOpen ==
    /\ hpc = "upload_open"
    /\ Open(Hu, Obj)
    /\ hpc' = "stat"
    /\ UNCHANGED <<lSize, before>>

(* Lines 21-29: _stat of the local file; on failure return, the handle   *)
(* left open.                                                            *)
Stat ==
    /\ hpc = "stat"
    /\ \/ hpc' = "read_open" /\ UNCHANGED lSize
       \/ hpc' = "upload" /\ lSize' = Len(FileData)
    /\ UNCHANGED <<before, ossVars>>

(* Fault variant of UploadChunk: lSize -= READ_BUF_SIZE instead of       *)
(* nRead, in size_t.                                                      *)
UploadChunkSubtractBufSize ==
    LET off == Len(FileData) - lSize
        nRead == MinOf(UploadBufSize, lSize)
    IN
    /\ hpc = "upload" /\ lSize > 0
    /\ Write(Hu, SubSeq(FileData, off + 1, off + nRead))
    /\ lSize' = (lSize - UploadBufSize) % ULongMod
    /\ UNCHANGED <<hpc, before>>

(* Fault variant of UploadChunk: lSize is not decremented. *)
UploadChunkNoDecrement ==
    LET off == Len(FileData) - lSize
        nRead == MinOf(UploadBufSize, lSize)
    IN
    /\ hpc = "upload" /\ lSize > 0
    /\ Write(Hu, SubSeq(FileData, off + 1, off + nRead))
    /\ UNCHANGED <<hpc, lSize, before>>

(* Lines 34-44: one iteration of the upload loop: fread the next         *)
(* min(READ_BUF_SIZE, lSize) bytes, EasyOSS_Write them (the result is   *)
(* not looked at), lSize -= nRead.                                       *)
UploadChunk ==
    LET off == Len(FileData) - lSize
        nRead == MinOf(UploadBufSize, lSize)
    IN
    /\ hpc = "upload" /\ lSize > 0
    /\ Write(Hu, SubSeq(FileData, off + 1, off + nRead))
    /\ lSize' = lSize - nRead
    /\ UNCHANGED <<hpc, before>>

(* Lines 36-41: fread returns nothing (the local file shrank or a read  *)
(* error); the loop breaks without writing.                              *)
UploadFreadFail ==
    /\ hpc = "upload" /\ lSize > 0
    /\ hpc' = "upload_break"
    /\ UNCHANGED <<lSize, before, ossVars>>

(* Lines 45-47: loop done or broken, EasyOSS_Close. *)
UploadClose ==
    /\ \/ hpc = "upload" /\ lSize = 0
       \/ hpc = "upload_break"
    /\ Close(Hu)
    /\ hpc' = "read_open"
    /\ UNCHANGED <<lSize, before>>

(* Lines 52-55: testReadFile opens a new handle. *)
ReadOpen ==
    /\ hpc = "read_open"
    /\ Open(Hr, Obj)
    /\ hpc' = "read_size"
    /\ UNCHANGED <<lSize, before>>

(* Line 61: EasyOSS_Size for the log line. *)
ReadSize ==
    /\ hpc = "read_size"
    /\ Size(Hr)
    /\ hpc' = "read"
    /\ UNCHANGED <<lSize, before>>

(* Fault variant of ReadChunk: the loop test is != 0 instead of > 0, so *)
(* the -1 of the end of object keeps the loop going.  Read returns 0     *)
(* only for an empty copied body, which a range inside the object and a  *)
(* positive buffer size never give.                                      *)
ReadChunkNonZero ==
    /\ hpc = "read"
    /\ Read(Hr, ReadBufSize)
    /\ hpc' = "read"
    /\ UNCHANGED <<lSize, before>>

(* Lines 67-74: one EasyOSS_Read; a positive count is appended to the    *)
(* local file and the loop goes on, anything else ends it.               *)
ReadChunk ==
    /\ hpc = "read"
    /\ Read(Hr, ReadBufSize)
    /\ hpc' = IF Len(readback'[Hr]) > Len(readback[Hr]) THEN "read" ELSE "read_close"
    /\ UNCHANGED <<lSize, before>>

(* Lines 75-77: EasyOSS_Close; the program ends. *)
ReadClose ==
    /\ hpc = "read_close"
    /\ Close(Hr)
    /\ hpc' = "done"
    /\ UNCHANGED <<lSize, before>>

(* testMakeDir, lines 80-95: EasyOSS_Initialize (result ignored),        *)
(* EasyOSS_Open; then main() calls EasyOSS_Deinitialize, which only      *)
(* tears down the HTTP layer.                                             *)
MakeDirOpen ==
    /\ hpc = "mkdir_open"
    /\ Open(Hu, Obj)
    /\ hpc' = "mkdir_write"
    /\ UNCHANGED <<lSize, before>>

(* Line 91: EasyOSS_Write of buf; the result is not looked at. *)
MakeDirWrite ==
    /\ hpc = "mkdir_write"
    /\ Write(Hu, MkBuf)
    /\ hpc' = "mkdir_close"
    /\ UNCHANGED <<lSize, before>>

(* Line 95: EasyOSS_Close; main() ends. *)
MakeDirClose ==
    /\ hpc = "mkdir_close"
    /\ Close(Hu)
    /\ hpc' = "mkdir_done"
    /\ UNCHANGED <<lSize, before>>

Next ==
    \/ MakeDirOpen \/ MakeDirWrite \/ MakeDirClose
    \/ UploadOpen \/ Stat \/ UploadChunk \/ UploadFreadFail \/ UploadClose
    \/ ReadOpen \/ ReadSize \/ ReadChunk \/ ReadClose

(* One thread runs the program; it is scheduled until it exits. *)
Spec == Init /\ [][Next]_vars /\ WF_vars(Next)

-----------------------------------------------------------------------------
(* The program has returned from main(). *)
Exited == hpc \in {"done", "mkdir_done"}

(* The program run is main() as written, with testMakeDir. *)
MakingDir == hpc \in {"mkdir_open", "mkdir_write", "mkdir_close", "mkdir_done"}

TypeOK ==
    /\ hpc \in {"mkdir_open", "mkdir_write", "mkdir_close", "mkdir_done", "upload_open", "stat", "upload", "upload_break", "read_open", "read_size",
                "read", "read_close", "done"}
    /\ lSize \in 0..Len(FileData)

(* The program always returns from main(): testMakeDir makes one call of *)
(* each kind, the upload loop ends whatever EasyOSS_Write returns, and    *)
(* the read loop ends at the end of the object or at the first failed     *)
(* request.                                                               *)
HarnessTerminates == <>(Exited)

(* After testUploadFile the object is its old content followed by the     *)
(* file, or by a prefix of the file if the upload stopped at a failure:  *)
(* the uploaded copy never has a chunk missing in its middle.            *)
UploadedIsFilePrefix ==
    ~MakingDir => \E i \in 0..Len(FileData) : ObjContent = before \o SubSeq(FileData, 1, i)

(* testReadFile (lines 61-74) copies the whole object into the local    *)
(* file unless a request failed: when the read loop has ended and no     *)
(* EasyOSS_Size or EasyOSS_Read of the handle failed, the bytes written  *)
(* are exactly the object, so the loop neither stops early on the cached *)
(* size nor loses or repeats a chunk of a response.                      *)
ReadBackComplete ==
    hpc = "read_close" /\ ~failed[Hr] => readback[Hr] = ObjContent

(* Spec 3 (ObjectHandle lifecycle): a handle is destroyed by an explicit *)
(* close; when the program ends, both handles it opened are closed.     *)
HandlesClosedAtExit == Exited => hnd[Hu] = Closed /\ hnd[Hr] = Closed
=============================================================================
