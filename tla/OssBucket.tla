------------------------------ MODULE OssBucket ------------------------------
(***************************************************************************)
(* The bucket API of the OSS C SDK (oss_bucket.c) with its XML code        *)
(* (oss_xml.c): list objects page by page, put, get and delete the         *)
(* lifecycle rules, get the ACL, delete the bucket.  It composes with the  *)
(* multipart model through the bucket they share: the object a completed  *)
(* multipart upload creates is one of the keys the listing pages over.    *)
(* The caller is one SDK session: the multipart caller of OssMultipart,   *)
(* then a listing of the bucket, a lifecycle put/get/delete, an ACL read  *)
(* and an attempt to delete the bucket.                                    *)
(***************************************************************************)
EXTENDS OssMultipart

CONSTANTS
    NKeys,        \* the bucket's object keys are 1..NKeys, in key order
    KeyPos,       \* the position of Key, the multipart object, among them
    DirOf,        \* key -> the common prefix it rolls up into under "/", or 0
    MaxKeys,      \* params->max_ret of oss_list_object
    BucketAcl,    \* the Grant the service holds for the bucket
    CallerRules,  \* the lifecycle rules the caller puts
    IntMax        \* INT_MAX: the days of a rule that has no Days

Positions == 1..NKeys
Delimiters == {"", "/"}

(* The empty marker "" sorts before every key. *)
EmptyMarker == [kind |-> "key", id |-> 0]

VARIABLES
    lifecycle,  \* service: the stored lifecycle document, or Absent
    bucketSt,   \* service: "exists" or "deleted"
    merged,     \* build: equal string literals share one address
    lo,         \* caller: its oss_list_object_params_t
    lg,         \* caller: the lifecycle_rule_list it reads into
    acl,        \* caller: the aos_string_t oss_acl
    bpc         \* caller: its step in the bucket part of the session

bkVars == <<lifecycle, bucketSt, merged, lo, lg, acl, bpc>>
mpVars == <<uploads, object, uid, lp, lu, cpc, np, ci>>
sessionVars == <<vars, bkVars>>

(* Key k is in the bucket; Key only once the multipart upload completed. *)
Present(k) == k # KeyPos \/ object # Absent

-----------------------------------------------------------------------------
(* The OSS service's answers (not part of this repository).               *)

(* The listing entry of key k: the key, or its common prefix under "/". *)
EntryOf(k, d) ==
    IF d = "/" /\ DirOf[k] # 0 THEN [kind |-> "prefix", id |-> DirOf[k]]
    ELSE [kind |-> "key", id |-> k]

(* Where a listing resumes after marker m: after a key, or after every    *)
(* key under a common prefix.                                             *)
After(m) ==
    IF m.kind = "key" THEN m.id
    ELSE Max({k \in Positions : DirOf[k] = m.id})

(* ListObjects: the entries after the marker in key order, max-keys of    *)
(* them, a common prefix counted once at its first key; NextMarker is the *)
(* last entry of a truncated page.                                        *)
ObjectsPage(d, m) ==
    LET from == {k \in Positions : Present(k) /\ k > After(m)}
        heads == SetToSortSeq({k \in from : \A j \in from : j < k => EntryOf(j, d) # EntryOf(k, d)}, <)
        page == [i \in 1..Min({Len(heads), MaxKeys}) |-> EntryOf(heads[i], d)]
        ids(kind) == [i \in DOMAIN SelectSeq(page, LAMBDA e : e.kind = kind) |->
                        SelectSeq(page, LAMBDA e : e.kind = kind)[i].id]
    IN [next |-> IF Len(heads) > MaxKeys THEN page[Len(page)] ELSE Absent,
        is_truncated |-> IF Len(heads) > MaxKeys THEN "true" ELSE "false",
        contents |-> ids("key"), prefixes |-> ids("prefix")]

(* PutBucketLifecycle accepts rules whose Expiration has exactly one of   *)
(* Days and Date, and a Date that is not empty.                           *)
ValidRule(x) == (x.days = Absent) # (x.date = Absent) /\ x.date # ""

-----------------------------------------------------------------------------
(* The SDK.                                                                *)

(* oss_create_list_object_params: empty prefix, marker and delimiter,     *)
(* empty lists; next_marker left NULL by pcalloc.                         *)
NewListObjectParams ==
    [delimiter |-> "", marker |-> EmptyMarker, next_marker |-> Absent, truncated |-> 0,
     object_list |-> <<>>, common_prefix_list |-> <<>>]

(* Fault variant of ParseListObjects: NextMarker is not stored. *)
ParseListObjectsNoMarker(p, doc) ==
    [p EXCEPT !.truncated = GetTruncated(doc.is_truncated),
              !.object_list = @ \o doc.contents,
              !.common_prefix_list = @ \o doc.prefixes]

(* oss_list_objects_parse_from_body: next_marker set only when NextMarker *)
(* is present, truncated decoded, the Contents and the CommonPrefixes     *)
(* appended to the two lists (their Key and Prefix; size, ETag and owner  *)
(* are not modelled).                                                     *)
ParseListObjects(p, doc) ==
    [p EXCEPT !.next_marker = IF doc.next # Absent THEN doc.next ELSE @,
              !.truncated = GetTruncated(doc.is_truncated),
              !.object_list = @ \o doc.contents,
              !.common_prefix_list = @ \o doc.prefixes]

(* oss_list_object: GET ?prefix&delimiter&marker&max-keys; a failed       *)
(* status returns before the parse.                                       *)
ListObject(p, r) ==
    /\ Len(p.object_list) + Len(p.common_prefix_list) < ListCap
    /\ st' = StatusOf(r, bucketSt = "exists")
    /\ lo' = IF st' = "ok" THEN ParseListObjects(p, ObjectsPage(p.delimiter, p.marker)) ELSE p
    /\ UNCHANGED <<lifecycle, bucketSt, merged, lg, acl>>

(* oss_create_lifecycle_rule_content: empty strings (the literal "" of    *)
(* oss_util.c) and days INT_MAX.                                          *)
NewRule == [id |-> "", prefix |-> "", status |-> "", days |-> IntMax, date |-> ""]

(* build_lifecycle_xml: per rule, ID, Prefix, Status and an Expiration    *)
(* with Days unless days is INT_MAX and Date when date.data != "".  That *)
(* compares pointers: an empty date left by oss_create_lifecycle_rule_    *)
(* content passes it unless the build merged the two files' "" literals.  *)
BuildLifecycleXml(rules) ==
    [i \in DOMAIN rules |->
        [id |-> rules[i].id, prefix |-> rules[i].prefix, status |-> rules[i].status,
         days |-> IF rules[i].days # IntMax THEN rules[i].days ELSE Absent,
         date |-> IF rules[i].date # "" \/ ~merged THEN rules[i].date ELSE Absent]]

(* Fault variant of ParseRule: the Date element is not looked at. *)
ParseRuleNoDate(x) ==
    [NewRule EXCEPT !.id = x.id, !.prefix = x.prefix, !.status = x.status,
                    !.days = IF x.days # Absent THEN x.days ELSE @]

(* oss_lifecycle_rule_content_parse and oss_lifecycle_rule_expire_parse:  *)
(* a fresh rule takes ID, Prefix, Status and, from Expiration, Days       *)
(* (atoi of the %d the build wrote) and Date.                             *)
ParseRule(x) ==
    [NewRule EXCEPT !.id = x.id, !.prefix = x.prefix, !.status = x.status,
                    !.days = IF x.days # Absent THEN x.days ELSE @,
                    !.date = IF x.date # Absent THEN x.date ELSE @]

(* oss_lifecycle_rules_parse_from_body / oss_lifecycle_rule_contents_     *)
(* parse: one rule per Rule element, appended to the caller's list.      *)
ParseLifecycleRules(list, doc) == list \o [i \in DOMAIN doc |-> ParseRule(doc[i])]

(* oss_put_bucket_lifecycle: PUT ?lifecycle with build_lifecycle_body.    *)
PutBucketLifecycle(rules, r) ==
    LET body == BuildLifecycleXml(rules)
        valid == bucketSt = "exists" /\ \A i \in DOMAIN body : ValidRule(body[i])
    IN
    /\ lifecycle' = IF r # "io" /\ valid THEN body ELSE lifecycle
    /\ st' = StatusOf(r, valid)
    /\ UNCHANGED <<bucketSt, merged, lo, lg, acl>>

(* oss_get_bucket_lifecycle: GET ?lifecycle, NoSuchLifecycle when none is *)
(* set; the parse runs only on an OK status.                              *)
GetBucketLifecycle(r) ==
    /\ st' = StatusOf(r, bucketSt = "exists" /\ lifecycle # Absent)
    /\ lg' = IF st' = "ok" THEN ParseLifecycleRules(lg, lifecycle) ELSE lg
    /\ UNCHANGED <<lifecycle, bucketSt, merged, lo, acl>>

(* oss_delete_bucket_lifecycle: DELETE ?lifecycle. *)
DeleteBucketLifecycle(r) ==
    /\ lifecycle' = IF r # "io" /\ bucketSt = "exists" THEN Absent ELSE lifecycle
    /\ st' = StatusOf(r, bucketSt = "exists")
    /\ UNCHANGED <<bucketSt, merged, lo, lg, acl>>

(* get_xmlnode_value: the text of the first matching element, NULL when  *)
(* there is none or it is empty.                                         *)
XmlNodeValue(v) == IF v = "" THEN Absent ELSE v

(* oss_acl_parse_from_body: oss_acl is set only when Grant has a value. *)
AclParse(a, grant) == IF XmlNodeValue(grant) # Absent THEN grant ELSE a

(* oss_get_bucket_acl: GET ?acl. *)
GetBucketAcl(r) ==
    /\ st' = StatusOf(r, bucketSt = "exists")
    /\ acl' = IF st' = "ok" THEN AclParse(acl, BucketAcl) ELSE acl
    /\ UNCHANGED <<lifecycle, bucketSt, merged, lo, lg>>

(* oss_delete_bucket: DELETE; BucketNotEmpty while it holds an object. *)
DeleteBucket(r) ==
    LET valid == bucketSt = "exists" /\ \A k \in Positions : ~Present(k)
    IN
    /\ bucketSt' = IF r # "io" /\ valid THEN "deleted" ELSE bucketSt
    /\ st' = StatusOf(r, valid)
    /\ UNCHANGED <<lifecycle, merged, lo, lg, acl>>

-----------------------------------------------------------------------------
(* The caller, once the multipart caller is done: list the bucket page by *)
(* page with a delimiter of its choice, copying next_marker to marker     *)
(* before each call; put its lifecycle rules, read them back, delete      *)
(* them; read the ACL; try to delete the bucket.  As in OssMultipart, a  *)
(* transport or XML error is retried and a service error ends the step.   *)

(* The step after a call: again on a retryable error, else the next one. *)
Then(next) == IF st' \in {"io", "xml"} THEN bpc ELSE next

SessionInit ==
    /\ Init
    /\ lifecycle = Absent
    /\ bucketSt = "exists"
    /\ merged \in BOOLEAN
    /\ lo = NewListObjectParams
    /\ lg = <<>>
    /\ acl = ""
    /\ bpc = "wait"

BucketStart ==
    /\ cpc = "done" /\ bpc = "wait"
    /\ \E d \in Delimiters : lo' = [lo EXCEPT !.delimiter = d]
    /\ bpc' = "list"
    /\ UNCHANGED <<lifecycle, bucketSt, merged, lg, acl, st, faults>>

CallListObjects ==
    /\ bpc = "list"
    /\ \E r \in Allowed(ReadResults) :
        /\ ListObject([lo EXCEPT !.marker = IF lo.next_marker # Absent THEN lo.next_marker ELSE @], r)
        /\ Count(r)
    /\ bpc' = IF st' = "ok" /\ lo'.truncated = 1 THEN "list" ELSE Then("put_lc")

CallPutLifecycle ==
    /\ bpc = "put_lc"
    /\ \E r \in Allowed(WriteResults) : PutBucketLifecycle(CallerRules, r) /\ Count(r)
    /\ bpc' = Then("get_lc")

CallGetLifecycle ==
    /\ bpc = "get_lc"
    /\ \E r \in Allowed(ReadResults) : GetBucketLifecycle(r) /\ Count(r)
    /\ bpc' = Then("del_lc")

CallDeleteLifecycle ==
    /\ bpc = "del_lc"
    /\ \E r \in Allowed(WriteResults) : DeleteBucketLifecycle(r) /\ Count(r)
    /\ bpc' = Then("acl")

CallGetAcl ==
    /\ bpc = "acl"
    /\ \E r \in Allowed(ReadResults) : GetBucketAcl(r) /\ Count(r)
    /\ bpc' = Then("del_bucket")

CallDeleteBucket ==
    /\ bpc = "del_bucket"
    /\ \E r \in Allowed(WriteResults) : DeleteBucket(r) /\ Count(r)
    /\ bpc' = Then("end")

BucketNext ==
    \/ BucketStart \/ CallListObjects \/ CallPutLifecycle \/ CallGetLifecycle
    \/ CallDeleteLifecycle \/ CallGetAcl \/ CallDeleteBucket

SessionNext ==
    \/ Next /\ UNCHANGED bkVars
    \/ BucketNext /\ UNCHANGED mpVars

(* One thread runs the session; it is scheduled until it ends. *)
SessionSpec == SessionInit /\ [][SessionNext]_sessionVars /\ WF_sessionVars(SessionNext)

-----------------------------------------------------------------------------
SessionTypeOK ==
    /\ TypeOK
    /\ bucketSt \in {"exists", "deleted"}
    /\ lo.delimiter \in Delimiters /\ lo.truncated \in {0, 1}
    /\ lo.object_list \in Seq(Positions)
    /\ acl \in {"", BucketAcl}
    /\ bpc \in {"wait", "list", "put_lc", "get_lc", "del_lc", "acl", "del_bucket", "end"}

(* What a complete listing with delimiter d gives, from the bucket alone: *)
(* the keys it holds that no common prefix takes, and each common prefix  *)
(* that holds a key, once, in key order.                                  *)
Listing(d) ==
    LET held(kind) == {k \in Positions : Present(k) /\ EntryOf(k, d).kind = kind}
    IN [keys |-> SetToSortSeq(held("key"), <),
        prefixes |-> SetToSortSeq({DirOf[k] : k \in held("prefix")}, <)]

(* Paging through oss_list_object, retrying failed and unparsable pages   *)
(* and resuming after a common prefix, never lists a key or a prefix      *)
(* twice or out of order; once IsTruncated says the last page came, the   *)
(* two lists are exactly the bucket's, the multipart object included iff  *)
(* its upload was completed.                                              *)
ObjectListingExact ==
    /\ IsSorted(lo.object_list, <) /\ IsSorted(lo.common_prefix_list, <)
    /\ bpc \notin {"wait", "list"} =>
            /\ lo.object_list = Listing(lo.delimiter).keys
            /\ lo.common_prefix_list = Listing(lo.delimiter).prefixes

(* The rules oss_get_bucket_lifecycle reads back are the rules            *)
(* oss_put_bucket_lifecycle put, field for field, or none: the build and *)
(* the parse are inverse on them (a rule with Days keeps date "", one     *)
(* with a Date keeps days INT_MAX), and a lost or retried call neither    *)
(* doubles nor mixes the list.                                            *)
LifecycleRoundTrip == lg \in {<<>>, CallerRules}

(* The session always ends: the multipart caller, then every bucket step. *)
SessionFinishes == <>(bpc = "end")
=============================================================================
