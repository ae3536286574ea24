---------------------------- MODULE StorageStatus ----------------------------
(***************************************************************************)
(* The status every OSS call of the handle returns (oss_c_sdk_lib):       *)
(* oss_process_request signs the request, oss_send_request sends it and    *)
(* builds an aos_status_t, and aos_status_parse_from_body decodes the XML  *)
(* error body of a non-2xx answer.  A request's outcome is the signing     *)
(* result, the transport result and the HTTP response; a response body is *)
(* empty, not XML, or a document: a root name and its child nodes.         *)
(***************************************************************************)
EXTENDS Integers, Sequences, SequencesExt

CONSTANTS
    Null,           \* a NULL char*
    Texts,          \* node contents of the error documents
    HttpStatuses,   \* resp->status values
    SignResults,    \* oss_sign_request results: AOSE_OK or an error
    SendResults,    \* aos_http_send_request results: AOSE_OK or an error
    MaxChildren     \* bound: child nodes of a root

AOSE_OK == 0

(* Element names and their lower case, for apr_strnatcasecmp. *)
Lower == [Code |-> "code", code |-> "code", Message |-> "message",
          RequestId |-> "requestid", Error |-> "error", error |-> "error",
          ListBucketResult |-> "listbucketresult"]
ElementNames == {"Code", "code", "Message", "RequestId"}
RootNames == {"Error", "error", "ListBucketResult"}

(* An xmlNode: an element with its text content, or a text node. *)
Nodes == [type : {"element"}, name : ElementNames, content : Texts]
         \cup [type : {"text"}, name : {"text"}, content : {Null}]

Bodies == [kind : {"empty", "not_xml"}, root : {Null}, children : {<<>>}]
          \cup [kind : {"xml"}, root : RootNames, children : BoundedSeq(Nodes, MaxChildren)]

Requests == [sign : SignResults, send : SendResults, status : HttpStatuses, body : Bodies]

(* aos_status_create: pcalloc'ed, all fields zero. *)
NewStatus == [code |-> 0, error_code |-> Null, error_msg |-> Null]

(* aos_http_is_ok and aos_status_is_ok (aos headers). *)
HttpIsOk(c) == c \div 100 = 2
StatusIsOk(s) == s.code > 0 /\ s.code \div 100 = 2

NameIs(node, n) == Lower[node.name] = n

(* Fault variant of ScanChildren: the element's name is copied instead of *)
(* its content.                                                           *)
RECURSIVE ScanChildrenCopiesName(_, _)
ScanChildrenCopiesName(cs, s) ==
    IF cs = <<>> THEN s
    ELSE LET n == Head(cs) IN
         ScanChildrenCopiesName(Tail(cs),
             IF n.type # "element" THEN s
             ELSE IF NameIs(n, "code") THEN [s EXCEPT !.error_code = n.name]
             ELSE IF NameIs(n, "message") THEN [s EXCEPT !.error_msg = n.name]
             ELSE s)

(* Fault variant of ScanChildren: the loop stops at the first node that *)
(* is not an element.                                                   *)
RECURSIVE ScanChildrenStopAtText(_, _)
ScanChildrenStopAtText(cs, s) ==
    IF cs = <<>> THEN s
    ELSE LET n == Head(cs) IN
         IF n.type # "element" THEN s
         ELSE ScanChildrenStopAtText(Tail(cs),
             IF NameIs(n, "code") THEN [s EXCEPT !.error_code = n.content]
             ELSE IF NameIs(n, "message") THEN [s EXCEPT !.error_msg = n.content]
             ELSE s)

(* The loop over root->children: an element named Code or Message (any   *)
(* case) sets error_code or error_msg; a later one overwrites.           *)
RECURSIVE ScanChildren(_, _)
ScanChildren(cs, s) ==
    IF cs = <<>> THEN s
    ELSE LET n == Head(cs) IN
         ScanChildren(Tail(cs),
             IF n.type # "element" THEN s
             ELSE IF NameIs(n, "code") THEN [s EXCEPT !.error_code = n.content]
             ELSE IF NameIs(n, "message") THEN [s EXCEPT !.error_msg = n.content]
             ELSE s)

(* aos_status_parse_from_body. *)
ParseFromBody(code, body, s0) ==
    LET s == [s0 EXCEPT !.code = code] IN
    IF HttpIsOk(code) THEN s
    ELSE IF body.kind # "xml" THEN [s EXCEPT !.error_code = "UnkonwnError"]
    ELSE IF Lower[body.root] # "error" THEN [s EXCEPT !.error_code = "UnkonwnError"]
    ELSE ScanChildren(body.children, s)

(* oss_send_request, without the request-id header lookup. *)
SendRequest(r) ==
    IF r.send # AOSE_OK
    THEN [code |-> r.send, error_code |-> "HttpIoError", error_msg |-> "reason"]
    ELSE IF ~HttpIsOk(r.status) THEN ParseFromBody(r.status, r.body, NewStatus)
    ELSE [NewStatus EXCEPT !.code = r.status]

(* Fault variant of ProcessRequest: a signing failure is not checked. *)
ProcessRequestNoSignCheck(r) == SendRequest(r)

(* oss_process_request. *)
ProcessRequest(r) ==
    IF r.sign # AOSE_OK
    THEN [code |-> r.sign, error_code |-> "ClientError", error_msg |-> Null]
    ELSE SendRequest(r)

VARIABLES
    request,    \* the outcome of the last call: signing, transport, response
    status      \* the aos_status_t it returned

vars == <<request, status>>

Init ==
    /\ request \in Requests
    /\ status = ProcessRequest(request)

(* One OSS call of the handle (append, GET, HEAD or DELETE). *)
Call ==
    \E r \in Requests :
        /\ request' = r
        /\ status' = ProcessRequest(r)

Spec == Init /\ [][Call]_vars

-----------------------------------------------------------------------------
ErrorCodes == {"HttpIoError", "ClientError", "UnkonwnError"}

TypeOK ==
    /\ request \in Requests
    /\ status.code \in Int
    /\ status.error_code \in ErrorCodes \cup Texts \cup {Null}
    /\ status.error_msg \in Texts \cup {"reason", Null}

(* The reference decoding of an error document (spec 4.4): the content   *)
(* of its last Code and last Message element, or NULL if it has none.    *)
LastField(doc, n) ==
    LET i == SelectLastInSeq(doc.children, LAMBDA x : x.type = "element" /\ NameIs(x, n))
    IN IF i = 0 THEN Null ELSE doc.children[i].content

Delivered(r) == r.sign = AOSE_OK /\ r.send = AOSE_OK

(* A call's status is OK exactly when it was signed, delivered and       *)
(* answered 2xx; a signing failure reports ClientError and a transport   *)
(* failure HttpIoError, whatever the response would have been.           *)
OutcomeClassified ==
    /\ StatusIsOk(status) <=> Delivered(request) /\ HttpIsOk(request.status)
    /\ request.sign # AOSE_OK => status.error_code = "ClientError"
    /\ request.sign = AOSE_OK /\ request.send # AOSE_OK => status.error_code = "HttpIoError"

(* A delivered non-2xx answer whose body is an Error document keeps its  *)
(* Code and Message verbatim (spec 7), however the elements are cased,   *)
(* ordered or interleaved with text nodes.                                *)
ServiceErrorFieldsPreserved ==
    Delivered(request) /\ ~HttpIsOk(request.status)
    /\ request.body.kind = "xml" /\ Lower[request.body.root] = "error"
    => /\ status.error_code = LastField(request.body, "code")
       /\ status.error_msg = LastField(request.body, "message")

(* Spec 4.4: every failed call reports an error code, UnknownError when  *)
(* the body does not provide one.                                        *)
FailureCarriesErrorCode ==
    ~StatusIsOk(status) => status.error_code # Null
=============================================================================
