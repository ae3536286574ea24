---------------------------- MODULE EasyOSSInit ----------------------------
(***************************************************************************)
(* EasyOSS_Initialize (libEasyOSS.cpp): initialise the HTTP layer, store   *)
(* the bucket, endpoint and keys in the library's globals, and create the *)
(* bucket with oss_create_bucket (oss_bucket.c), returning 0 exactly when *)
(* the status is OK.  The status comes from StorageStatus's model of      *)
(* oss_process_request; the bucket is the service's state.                *)
(***************************************************************************)
EXTENDS Integers

CONSTANTS
    Null, Texts, HttpStatuses, SignResults, SendResults, MaxChildren,
    IoInitResults,      \* aos_http_io_initialize results: AOSE_OK or an error
    OwnBucketAnswers    \* the service's answers to PUT of a bucket the caller owns

St == INSTANCE StorageStatus WITH request <- Null, status <- Null

VARIABLES
    bucket,     \* service: "absent", "mine" (the caller's) or "theirs"
    configured, \* BUCKET_NAME etc. have been set
    ret,        \* the last EasyOSS_Initialize result, or NotCalled
    status,     \* the aos_status_t of the last oss_create_bucket, or Null
    prior,      \* history: the bucket before the last call
    answer      \* history: the HTTP status the service answered, or 0

vars == <<bucket, configured, ret, status, prior, answer>>

NotCalled == 1

(* PUT bucket: a missing bucket is created; an existing one is not. *)
Answers(b) ==
    CASE b = "absent" -> {200}
      [] b = "mine" -> OwnBucketAnswers
      [] b = "theirs" -> {409}
Created(b) == IF b = "absent" THEN "mine" ELSE b

(* oss_create_bucket: the x-oss-acl header and a PUT on the bucket; its  *)
(* status is oss_process_request's.                                       *)
CreateBucket(r) == St!ProcessRequest(r)

Init ==
    /\ bucket \in {"absent", "mine", "theirs"}
    /\ configured = FALSE
    /\ ret = NotCalled
    /\ status = Null
    /\ prior = bucket
    /\ answer = 0

(* EasyOSS_Initialize: a failed aos_http_io_initialize returns -1 before  *)
(* the globals are set; otherwise the bucket is created (a request that   *)
(* is signed but whose answer is lost may or may not have reached the    *)
(* service) and the result is 0 exactly when the status is OK.           *)
Initialize ==
    /\ prior' = bucket
    /\ \/ /\ \E e \in IoInitResults \ {St!AOSE_OK} : TRUE
          /\ ret' = -1 /\ answer' = 0
          /\ UNCHANGED <<bucket, configured, status>>
       \/ /\ St!AOSE_OK \in IoInitResults
          /\ configured' = TRUE
          /\ \E r \in St!Requests :
               LET sent == r.sign = St!AOSE_OK
                   delivered == sent /\ r.send = St!AOSE_OK
               IN /\ delivered => r.status \in Answers(bucket)
                  /\ bucket' \in IF ~sent THEN {bucket}
                                 ELSE IF delivered THEN {Created(bucket)}
                                 ELSE {bucket, Created(bucket)}
                  /\ answer' = IF delivered THEN r.status ELSE 0
                  /\ status' = CreateBucket(r)
                  /\ ret' = IF St!StatusIsOk(status') THEN 0 ELSE -1

Next == Initialize

Spec == Init /\ [][Next]_vars

-----------------------------------------------------------------------------
TypeOK ==
    /\ bucket \in {"absent", "mine", "theirs"}
    /\ configured \in BOOLEAN
    /\ ret \in {NotCalled, 0, -1}
    /\ answer \in HttpStatuses \cup {0}

(* Spec 6: bucket creation is idempotent, "already exists" treated as    *)
(* success: initialising against the caller's existing bucket returns 0  *)
(* whenever the service answered.                                         *)
AlreadyExistsIsSuccess == prior = "mine" /\ answer # 0 => ret = 0
=============================================================================
