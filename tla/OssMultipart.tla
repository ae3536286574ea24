---------------------------- MODULE OssMultipart ----------------------------
(***************************************************************************)
(* The multipart-upload API of the OSS C SDK (oss_multipart.c) with the    *)
(* XML decoding it relies on (oss_xml.c): initiate an upload, upload its   *)
(* parts from a buffer, a file or a copy of an object, list its parts     *)
(* page by page, complete it, abort it, and list the bucket's uploads in  *)
(* progress page by page.                                                  *)
(* Each SDK call is one step: the request, the service's answer and the    *)
(* parse of the answer into the caller's params struct.  A call can fail  *)
(* in transport before the service sees it ("io"), after the service       *)
(* acted ("lost"), or come back 2xx with a body that is not XML            *)
(* ("garbled"); StorageStatus shows the status is OK exactly for a         *)
(* delivered 2xx answer.  The caller is the SDK's documented usage: the    *)
(* library's own programs never call this API.                             *)
(***************************************************************************)
EXTENDS Integers, Sequences, SequencesExt, FiniteSetsExt

CONSTANTS
    Data,       \* part payloads (the ETag of a part stands for its payload)
    FileParts,  \* the caller's file cut into parts: part number -> payload
    NIds,       \* bound: upload ids the service hands out
    Absent,     \* no part uploaded under a number / no object
    MaxParts,   \* params->max_ret of oss_list_upload_part
    MaxUploads, \* params->max_ret of oss_list_multipart_upload
    MaxFaults,  \* bound: failed calls in one run of the caller
    ListCap     \* bound: entries a params list may accumulate

PartNums == DOMAIN FileParts
Ids == 1..NIds
NoId == 0           \* the empty upload_id / part-number / upload-id marker
Key == "object"     \* the one object key the caller uploads to

VARIABLES
    uploads,    \* service: upload id -> [st, parts : part number -> payload]
    object,     \* service: the object's content, or Absent
    uid,        \* caller: the upload_id string
    lp,         \* caller: its oss_list_upload_part_params_t
    lu,         \* caller: its oss_list_multipart_upload_params_t
    st,         \* the class of the status the last call returned
    faults,     \* failed calls so far
    cpc,        \* caller: its step
    np,         \* caller: the part it uploads next
    ci          \* caller: the entry of upload_list it aborts next

svcVars == <<uploads, object>>
vars == <<uploads, object, uid, lp, lu, st, faults, cpc, np, ci>>

(* get_xmldoc: AOSE_XML_PARSE_ERROR for a body that is empty or not XML. *)
XmlParseError(r) == r = "garbled"

(* The class of the aos_status_t a call returns (oss_process_request):     *)
(* HttpIoError for a transport failure, the service's error document for  *)
(* a refused request, an XML error set by the parse of a 2xx body.        *)
StatusOf(r, served) ==
    IF r \in {"io", "lost"} THEN "io"
    ELSE IF ~served THEN "service"
    ELSE IF XmlParseError(r) THEN "xml"
    ELSE "ok"

Open(u) == u \in Ids /\ uploads[u].st = "open"

-----------------------------------------------------------------------------
(* The OSS service's answers (not part of this repository).               *)

(* ListParts: the uploaded parts above the marker, max-parts of them,     *)
(* with NextPartNumberMarker the last one listed.                         *)
PartsPage(u, marker) ==
    LET after == SetToSortSeq({n \in PartNums : uploads[u].parts[n] # Absent /\ n > marker}, <)
        page == SubSeq(after, 1, IF Len(after) < MaxParts THEN Len(after) ELSE MaxParts)
    IN [next |-> IF page = <<>> THEN Absent ELSE page[Len(page)],
        is_truncated |-> IF Len(after) > MaxParts THEN "true" ELSE "false",
        parts |-> [i \in DOMAIN page |-> [part_number |-> page[i],
                                          etag |-> uploads[u].parts[page[i]]]]]

(* ListMultipartUploads: uploads in progress ordered by (key, id) above   *)
(* (key-marker, upload-id-marker); the id marker is ignored without a key *)
(* marker.                                                                 *)
UploadsPage(keyMarker, idMarker) ==
    LET after == SetToSortSeq({u \in Ids : Open(u) /\ (keyMarker = "" \/ u > idMarker)}, <)
        page == SubSeq(after, 1, IF Len(after) < MaxUploads THEN Len(after) ELSE MaxUploads)
    IN [next_key |-> IF page = <<>> THEN Absent ELSE Key,
        next_id |-> IF page = <<>> THEN Absent ELSE page[Len(page)],
        is_truncated |-> IF Len(after) > MaxUploads THEN "true" ELSE "false",
        uploads |-> [i \in DOMAIN page |-> [key |-> Key, upload_id |-> page[i]]]]

-----------------------------------------------------------------------------
(* The SDK.                                                                *)

(* oss_create_list_upload_part_params and                                 *)
(* oss_create_list_multipart_upload_params: empty markers and lists; the   *)
(* next-markers are left NULL by pcalloc.                                  *)
NewListPartsParams == [marker |-> NoId, next |-> Absent, truncated |-> 0, part_list |-> <<>>]
NewListUploadsParams ==
    [key_marker |-> "", id_marker |-> NoId, next_key |-> Absent,
     next_id |-> Absent, truncated |-> 0, upload_list |-> <<>>]

(* oss_upload_id_parse_from_body: upload_id is set only if the document   *)
(* has an UploadId element.                                               *)
ParseUploadId(bodyId, id) == IF bodyId # Absent THEN bodyId ELSE id

(* Fault variant of GetTruncated: the test is inverted. *)
GetTruncatedInverted(text) == IF text # Absent /\ text # "false" THEN 0 ELSE 1

(* get_truncated_from_xml: 0 without an IsTruncated element, else 0 only  *)
(* for "false" (compared ignoring case; the service writes lower case).   *)
GetTruncated(text) == IF text # Absent /\ text # "false" THEN 1 ELSE 0

(* Fault variant of ParseListParts: NextPartNumberMarker is not stored. *)
ParseListPartsNoMarker(p, doc) ==
    [p EXCEPT !.truncated = GetTruncated(doc.is_truncated),
              !.part_list = @ \o doc.parts]

(* oss_list_parts_parse_from_body: the marker is set only when the        *)
(* element is present, truncated is decoded, and the Part entries are      *)
(* appended to part_list (whatever it already holds).                     *)
ParseListParts(p, doc) ==
    [p EXCEPT !.next = IF doc.next # Absent THEN doc.next ELSE @,
              !.truncated = GetTruncated(doc.is_truncated),
              !.part_list = @ \o doc.parts]

(* Fault variant of ParseListUploads: NextKeyMarker is not stored. *)
ParseListUploadsNoKeyMarker(p, doc) ==
    [p EXCEPT !.next_id = IF doc.next_id # Absent THEN doc.next_id ELSE @,
              !.truncated = GetTruncated(doc.is_truncated),
              !.upload_list = @ \o doc.uploads]

(* oss_list_multipart_uploads_parse_from_body. *)
ParseListUploads(p, doc) ==
    [p EXCEPT !.next_key = IF doc.next_key # Absent THEN doc.next_key ELSE @,
              !.next_id = IF doc.next_id # Absent THEN doc.next_id ELSE @,
              !.truncated = GetTruncated(doc.is_truncated),
              !.upload_list = @ \o doc.uploads]

(* build_complete_multipart_upload_body: one Part element, with its       *)
(* PartNumber and ETag, per part_list entry, in list order.                *)
CompleteBody(list) ==
    [i \in DOMAIN list |-> [part_number |-> list[i].part_number, etag |-> list[i].etag]]

(* oss_init_multipart_upload: POST ?uploads; the service opens a fresh    *)
(* upload; on an OK status oss_upload_id_parse_from_body sets upload_id,  *)
(* and a body that is not XML turns the status into an XML error.         *)
InitMultipartUpload(r) ==
    \E u \in Ids :
        /\ uploads[u].st = "unused"
        /\ \A i \in 1..(u - 1) : uploads[i].st # "unused"
        /\ uploads' = IF r = "io" THEN uploads ELSE [uploads EXCEPT ![u].st = "open"]
        /\ st' = StatusOf(r, TRUE)
        /\ uid' = IF st' = "ok" THEN ParseUploadId(u, uid) ELSE uid
        /\ UNCHANGED <<object, lp, lu>>

(* oss_upload_part_from_buffer: PUT ?partNumber&uploadId; the service      *)
(* stores the part (a second upload of a number replaces it) if the        *)
(* upload is open, and answers NoSuchUpload otherwise.                     *)
UploadPartFromBuffer(n, r) ==
    /\ uploads' = IF r # "io" /\ Open(uid)
                  THEN [uploads EXCEPT ![uid].parts[n] = FileParts[n]] ELSE uploads
    /\ st' = StatusOf(r, Open(uid))
    /\ UNCHANGED <<object, uid, lp, lu>>

(* oss_write_request_body_from_upload_file: the range of the file can be *)
(* opened for reading, unless the call's result is a local file error.  *)
UploadFileReadable(r) == r # "file"

(* Fault variant of UploadPartFromFile: no return after the file error;    *)
(* the part is sent with an empty body and the status overwritten.       *)
UploadPartFromFileNoReturn(n, r) ==
    IF ~UploadFileReadable(r)
    THEN /\ uploads' = IF Open(uid) THEN [uploads EXCEPT ![uid].parts[n] = <<>>] ELSE uploads
         /\ st' = StatusOf("ok", Open(uid))
         /\ UNCHANGED <<object, uid, lp, lu>>
    ELSE UploadPartFromBuffer(n, r)

(* oss_upload_part_from_file: as from a buffer, but a file that cannot be *)
(* read fails the call before anything is sent.                           *)
UploadPartFromFile(n, r) ==
    IF ~UploadFileReadable(r)
    THEN st' = "file" /\ UNCHANGED <<uploads, object, uid, lp, lu>>
    ELSE UploadPartFromBuffer(n, r)

(* oss_upload_part_copy: PUT ?partNumber&uploadId with x-oss-copy-source *)
(* and x-oss-copy-source-range; the service stores the range of the       *)
(* source object (the file, already in the bucket) as the part.  The     *)
(* caller's headers argument is replaced by a new table, so only these   *)
(* two headers are sent.                                                 *)
UploadPartCopy(n, r) ==
    /\ uploads' = IF r # "io" /\ Open(uid)
                  THEN [uploads EXCEPT ![uid].parts[n] = FileParts[n]] ELSE uploads
    /\ st' = StatusOf(r, Open(uid))
    /\ UNCHANGED <<object, uid, lp, lu>>

(* oss_list_upload_part: GET ?uploadId&max-parts&part-number-marker; a     *)
(* failed status returns before the body is parsed, leaving params as it  *)
(* was.                                                                    *)
ListUploadPart(p, r) ==
    /\ Len(p.part_list) < ListCap
    /\ st' = StatusOf(r, Open(uid))
    /\ lp' = IF st' = "ok" THEN ParseListParts(p, PartsPage(uid, p.marker)) ELSE p
    /\ UNCHANGED <<uploads, object, uid, lu>>

(* oss_list_multipart_upload: GET ?uploads&key-marker&upload-id-marker.  *)
ListMultipartUpload(p, r) ==
    /\ Len(p.upload_list) < ListCap
    /\ st' = StatusOf(r, TRUE)
    /\ lu' = IF st' = "ok" THEN ParseListUploads(p, UploadsPage(p.key_marker, p.id_marker))
             ELSE p
    /\ UNCHANGED <<uploads, object, uid, lp>>

(* oss_complete_multipart_upload: POST ?uploadId with the part list.  The *)
(* service assembles the object from the listed parts, in order, if the   *)
(* upload is open, the list is not empty, ascending, and every ETag is   *)
(* the part's; it refuses the request otherwise.                         *)
CompleteMultipartUpload(list, r) ==
    LET body == CompleteBody(list)
        valid == /\ Open(uid) /\ body # <<>>
                 /\ IsSorted([i \in DOMAIN body |-> body[i].part_number], <)
                 /\ \A i \in DOMAIN body : uploads[uid].parts[body[i].part_number] = body[i].etag
    IN
    /\ uploads' = IF r # "io" /\ valid THEN [uploads EXCEPT ![uid].st = "completed"] ELSE uploads
    /\ object' = IF r # "io" /\ valid THEN [i \in DOMAIN body |-> body[i].etag] ELSE object
    /\ st' = StatusOf(r, valid)
    /\ UNCHANGED <<uid, lp, lu>>

(* oss_abort_multipart_upload: DELETE ?uploadId; NoSuchUpload unless the  *)
(* upload is open.                                                        *)
AbortMultipartUpload(u, r) ==
    /\ uploads' = IF r # "io" /\ Open(u) THEN [uploads EXCEPT ![u].st = "aborted"] ELSE uploads
    /\ st' = StatusOf(r, Open(u))
    /\ UNCHANGED <<object, uid, lp, lu>>

-----------------------------------------------------------------------------
(* The caller: initiate, upload the parts in order, list them page by     *)
(* page, complete with the listed parts, then list the uploads still in   *)
(* progress page by page and abort each one.  A transport or XML error is *)
(* retried; a service error ends the step.  Before each list call the     *)
(* caller copies the returned next-markers into the request markers.      *)

WriteResults == {"ok", "io", "lost"}
ReadResults == {"ok", "io", "garbled"}

(* The call results possible with the faults left. *)
Allowed(R) == {r \in R : r = "ok" \/ faults < MaxFaults}
Count(r) == faults' = IF r = "ok" THEN faults ELSE faults + 1

LastPart == Max(PartNums)

Init ==
    /\ uploads = [u \in Ids |-> [st |-> "unused", parts |-> [n \in PartNums |-> Absent]]]
    /\ object = Absent
    /\ uid = NoId
    /\ lp = NewListPartsParams
    /\ lu = NewListUploadsParams
    /\ st = "ok"
    /\ faults = 0
    /\ cpc = "init"
    /\ np = 1
    /\ ci = 1

CallInit ==
    /\ cpc = "init"
    /\ \E r \in Allowed(WriteResults \cup ReadResults) :
        /\ InitMultipartUpload(r) /\ Count(r)
        /\ cpc' = CASE st' = "ok" -> "upload" [] st' = "service" -> "cleanup" [] OTHER -> "init"
    /\ UNCHANGED <<np, ci>>

AfterUpload ==
    /\ np' = IF st' = "ok" THEN np + 1 ELSE np
    /\ cpc' = CASE st' = "ok" /\ np = LastPart -> "list"
              [] st' = "service" -> "cleanup"
              [] OTHER -> "upload"
    /\ UNCHANGED ci

CallUploadBuffer ==
    /\ cpc = "upload"
    /\ \E r \in Allowed(WriteResults) : UploadPartFromBuffer(np, r) /\ Count(r)
    /\ AfterUpload

CallUploadFile ==
    /\ cpc = "upload"
    /\ \E r \in Allowed(WriteResults \cup {"file"}) : UploadPartFromFile(np, r) /\ Count(r)
    /\ AfterUpload

CallUploadCopy ==
    /\ cpc = "upload"
    /\ \E r \in Allowed(WriteResults) : UploadPartCopy(np, r) /\ Count(r)
    /\ AfterUpload

CallListParts ==
    /\ cpc = "list"
    /\ \E r \in Allowed(ReadResults) :
        /\ ListUploadPart([lp EXCEPT !.marker = IF lp.next # Absent THEN lp.next ELSE @], r)
        /\ Count(r)
    /\ cpc' = CASE st' = "ok" /\ lp'.truncated = 0 -> "complete"
              [] st' = "service" -> "cleanup"
              [] OTHER -> "list"
    /\ UNCHANGED <<np, ci>>

CallComplete ==
    /\ cpc = "complete"
    /\ \E r \in Allowed(WriteResults) : CompleteMultipartUpload(lp.part_list, r) /\ Count(r)
    /\ cpc' = IF st' = "io" THEN "complete" ELSE "cleanup"
    /\ UNCHANGED <<np, ci>>

CallListUploads ==
    /\ cpc = "cleanup"
    /\ \E r \in Allowed(ReadResults) :
        /\ ListMultipartUpload([lu EXCEPT
               !.key_marker = IF lu.next_key # Absent THEN lu.next_key ELSE @,
               !.id_marker = IF lu.next_id # Absent THEN lu.next_id ELSE @], r)
        /\ Count(r)
    /\ cpc' = CASE st' = "ok" /\ lu'.truncated = 0 -> "abort"
              [] st' = "service" -> "done"
              [] OTHER -> "cleanup"
    /\ UNCHANGED <<np, ci>>

CallAbort ==
    /\ cpc = "abort" /\ ci <= Len(lu.upload_list)
    /\ \E r \in Allowed(WriteResults) :
        AbortMultipartUpload(lu.upload_list[ci].upload_id, r) /\ Count(r)
    /\ ci' = IF st' = "io" THEN ci ELSE ci + 1
    /\ UNCHANGED <<cpc, np>>

Finish ==
    /\ cpc = "abort" /\ ci > Len(lu.upload_list)
    /\ cpc' = "done"
    /\ UNCHANGED <<uploads, object, uid, lp, lu, st, faults, np, ci>>

Next ==
    \/ CallInit \/ CallUploadBuffer \/ CallUploadFile \/ CallUploadCopy \/ CallListParts
    \/ CallComplete \/ CallListUploads \/ CallAbort \/ Finish

(* One thread runs the caller; it is scheduled until it ends. *)
Spec == Init /\ [][Next]_vars /\ WF_vars(Next)

-----------------------------------------------------------------------------
TypeOK ==
    /\ uploads \in [Ids -> [st : {"unused", "open", "completed", "aborted"},
                            parts : [PartNums -> Data \cup {Absent}]]]
    /\ uid \in Ids \cup {NoId}
    /\ st \in {"ok", "io", "service", "xml", "file"}
    /\ faults \in 0..MaxFaults
    /\ cpc \in {"init", "upload", "list", "complete", "cleanup", "abort", "done"}
    /\ object \in Seq(Data) \cup {Absent}
    /\ Len(lp.part_list) <= ListCap /\ Len(lu.upload_list) <= ListCap

(* The entries ListParts would give for every part of upload u. *)
AllParts(u) ==
    LET ns == SetToSortSeq({n \in PartNums : uploads[u].parts[n] # Absent}, <)
    IN [i \in DOMAIN ns |-> [part_number |-> ns[i], etag |-> uploads[u].parts[ns[i]]]]

(* Paging through oss_list_upload_part, with retries of failed and        *)
(* unparsable pages, never lists a part twice or out of order, and when   *)
(* IsTruncated says the last page came the list is every uploaded part    *)
(* with its ETag.                                                         *)
PartListingExact ==
    /\ IsSorted([i \in DOMAIN lp.part_list |-> lp.part_list[i].part_number], <)
    /\ cpc = "complete" => lp.part_list = AllParts(uid)

(* oss_complete_multipart_upload with the listed parts assembles exactly  *)
(* the caller's file: no part missing, repeated or out of place, whatever *)
(* uploads were retried or answers lost.                                  *)
CompletedObjectIsFile == object # Absent => object = FileParts

(* When the caller ends, no upload it initiated is left in progress on    *)
(* the service: the uploads whose initiation answer was lost or garbled   *)
(* are found by paging oss_list_multipart_upload and aborted.             *)
NoUploadLeftOpen == cpc = "done" => \A u \in Ids : ~Open(u)
=============================================================================
