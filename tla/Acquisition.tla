----------------------------- MODULE Acquisition ----------------------------
(***************************************************************************)
(* Acquiring one filing from SEC: AcquisitionService (ingestion/           *)
(* acquisition.py) with the metadata lookup (sec/submissions.py), the      *)
(* directory, index and SGML inventories (sec/accession.py) and the choice *)
(* of the report input (ingestion/report_input.py).                        *)
(*                                                                         *)
(* A site is what SEC serves for the accession.  Every fetch may fail, the *)
(* process may die at any step, publication and the writing of the attempt *)
(* record may fail, and the acquisition may be attempted again.  The       *)
(* closure and its replay are those of DtsClosure, here by their outcome.  *)
(*                                                                         *)
(* A file's name matters by what its pattern says of the file (KindOf) and *)
(* by its place in the byte order of names (Rank).                         *)
(*                                                                         *)
(* A definition Op_Slip is Op with a plausible slip; it is not part of the *)
(* model and shows that a property notices the slip.                       *)
(***************************************************************************)
EXTENDS Integers, Sequences, FiniteSetsExt, SequencesExt

CONSTANTS
  None,
  Names, KindOf, Rank,   \* file names of the accession
  CompleteSubmission,    \* the name <accession>.txt
  Sites,
  MaxFile, MaxBundle,    \* max_file_bytes, max_bundle_bytes
  MaxAttempts            \* bound: how often the accession is acquired

Kinds == {"complete", "metadata", "rendering", "filer", "sec_xbrl", "plain"}

ASSUME NamesAssumption ==
  /\ KindOf \in [Names -> Kinds]
  /\ Rank \in [Names -> Nat] /\ \A n, p \in Names : Rank[n] = Rank[p] => n = p
  /\ CompleteSubmission \in Names /\ KindOf[CompleteSubmission] = "complete"
  /\ MaxFile \in Nat \ {0} /\ MaxBundle \in Nat \ {0} /\ MaxAttempts \in Nat

(* What is stored of a filing beside its files: the metadata and indexes.  *)
Indexes == {"index.json", "index.html", "index-headers"}
Fixed   == Indexes \union {"discovery.json"}

IsSequence(q) == Len(q) \in Nat /\ DOMAIN q = 1 .. Len(q)

(* What SEC serves: the blocks of the submissions, the directory, the      *)
(* index, the SGML inventory, the bytes of each, and documents outside of  *)
(* the accession that the report needs.                                    *)
ASSUME SitesAssumption ==
  \A s \in Sites :
    /\ IsSequence(s.blocks) /\ s.blocks # <<>> /\ s.blockSize \in Nat
    /\ \A i \in DOMAIN s.blocks : s.blocks[i] = None \/ s.blocks[i].primary \in Names \union {None}
    /\ s.listing \in Seq(Names)
    /\ IsSequence(s.rows) /\ \A i \in DOMAIN s.rows : s.rows[i].name \in Names
    /\ IsSequence(s.sgml) /\ \A i \in DOMAIN s.sgml : s.sgml[i].name \in Names \union {None}
    /\ IsFiniteSet(DOMAIN s.size) /\ Names \union Fixed \union s.externals \subseteq DOMAIN s.size
    /\ \A p \in DOMAIN s.size : s.size[p] \in Nat
    /\ s.externals \intersect (Names \union Fixed) = {}

VARIABLES
  site,
  step, position,    \* of _acquire_body, and of its walk through the directory
  meta,              \* the filing's metadata, or None
  payload,           \* the artifacts: the size of each logical path
  issues,
  input, bound,      \* the report input, and the documents the closure bound
  error,             \* the exception under way, or None
  traces,            \* what the fetcher reported to the observation sink
  records,           \* per attempt its result.json, or None while there is none
  outcomes,          \* per finished attempt, how acquire ended
  published

body    == <<meta, payload, issues, input, bound>>
attempt == <<position, body, error, traces>>
acquisitionVars == <<site, step, attempt, records, outcomes, published>>

-----------------------------------------------------------------------------
(* Issues and exceptions.                                                  *)

Fatal(code)   == [severity |-> "fatal", code |-> code]
Warning(code) == [severity |-> "warning", code |-> code]
AnyFatal(s)   == \E i \in DOMAIN s : s[i].severity = "fatal"

ResourceLimits == {"MAX_BUNDLE_BYTES_EXCEEDED", "MAX_FILE_BYTES_EXCEEDED",
                   "MAX_EXTERNAL_DEPENDENCY_BYTES_EXCEEDED", "MAX_REDIRECTS_EXCEEDED"}
Safeguards     == ResourceLimits \union {"SIZE_LIMIT", "DESTINATION_FORBIDDEN"}

Exceptions == Safeguards \union {"absent", "failed", "LookupError", "ValueError", "RuntimeError",
                                 "UnsupportedReportInput", "BundleStructureError", "OSError"}

(* What else may be wrong with a filing. *)
OtherCodes == {"OPTIONAL_ARTIFACT_MISSING", "MISSING_FILER_SUBMITTED_ATTACHMENT",
               "MISSING_COMPLETE_SUBMISSION", "MISSING_PRIMARY_DOCUMENT",
               "SGML_FILENAME_MISSING_FROM_DIRECTORY", "INDEX_FILER_SUBMITTED_MISSING_FROM_DIRECTORY",
               "INDEX_SUBMITTED_ABSENT_FROM_SGML", "UNSUPPORTED_REPORT_INPUT", "ONLINE_CLOSURE_FAILED"}

(* A bundle, and the record of an attempt. *)
Paths    == UNION {DOMAIN s.size : s \in Sites}
Payloads == UNION {[D -> Nat] : D \in SUBSET Paths}
Bundles  == [primary : Names, payload : Payloads, input : Seq(Names)]
Issues   == [severity : {"fatal", "warning"}, code : Safeguards \union OtherCodes]
Attempts == [status : {"success", "failed"}, error : Exceptions \union {None}, issues : Seq(Issues),
             observed : SUBSET (Nat \X (Paths \union {"submissions"})),
             result : Bundles \union {None}]

ASSUME NoneAssumption == None \notin Names \union Exceptions \union Attempts

(* _issue_from_safeguard: a resource limit carries its own code. *)
SafeguardCode(e) == IF e = "SIZE_LIMIT" THEN "MAX_FILE_BYTES_EXCEEDED" ELSE e

(* An exception leaves _acquire_body, which has reported s: the handler of *)
(* acquire reports a safeguard that nothing fatal explains yet.            *)
RaiseWith_Unreported(e, s) ==
  /\ error' = e
  /\ issues' = s
  /\ step' = "recording"

RaiseWith(e, s) ==
  /\ error' = e
  /\ issues' = IF e \in Safeguards /\ ~ AnyFatal(s) THEN Append(s, Fatal(SafeguardCode(e))) ELSE s
  /\ step' = "recording"

Raise(e) == RaiseWith(e, issues)

Advance(next) == step' = next /\ UNCHANGED error

-----------------------------------------------------------------------------
(* The payload and its budget: LogicalPayloadBudget and fetch_put.         *)

Bytes(p) == MapThenSumSet(LAMBDA path : p[path], DOMAIN p)

Remaining == MaxBundle - Bytes(payload)

WithMember(path, size) == [p \in DOMAIN payload \union {path} |-> IF p = path THEN size ELSE payload[p]]

(* What fetch_to_store may come to, for a resource of that many bytes. *)
FetchOutcomes(size, limit) ==
  {IF size > limit THEN "SIZE_LIMIT" ELSE "ok", "absent", "failed", "DESTINATION_FORBIDDEN",
   "MAX_REDIRECTS_EXCEEDED"}

(* A stream cut off at its limit: which of the two limits it was. *)
LimitReached(limit) ==
  IF limit < MaxFile THEN "MAX_BUNDLE_BYTES_EXCEEDED" ELSE "MAX_FILE_BYTES_EXCEEDED"

FetchPutOutcomes(size) ==
  LET limit == Min({MaxFile, Remaining})
  IN  IF limit <= 0 THEN {"MAX_BUNDLE_BYTES_EXCEEDED"}
      ELSE {IF o = "SIZE_LIMIT" THEN LimitReached(limit) ELSE o : o \in FetchOutcomes(size, limit)}

Observed(path) == traces' = traces \union {<<Len(records), path>>}

(* A fetch into the payload under the remaining budget, with the rest of   *)
(* the handler: what follows when the bytes are there, when they are       *)
(* absent and need not be there, and the issues of another failure.        *)
FetchPut(path, size, optional, next, whenFailed) ==
  /\ Observed(path)
  /\ \E o \in FetchPutOutcomes(size) :
       \/ /\ o = "ok"
          /\ payload' = WithMember(path, size)
          /\ Advance(next) /\ UNCHANGED issues
       \/ /\ o = "absent" /\ optional
          /\ issues' = Append(issues, Warning("OPTIONAL_ARTIFACT_MISSING"))
          /\ Advance(next) /\ UNCHANGED payload
       \/ /\ o \in Safeguards
          /\ Raise(o) /\ UNCHANGED payload
       \/ /\ o = "failed" \/ (o = "absent" /\ ~ optional)
          /\ RaiseWith(o, whenFailed) /\ UNCHANGED payload

-----------------------------------------------------------------------------
(* acquire, and the metadata: lookup_accession_metadata.                   *)

(* The locals of acquire and _acquire_body. *)
NoLocals ==
  /\ position' = 1 /\ meta' = None /\ payload' = <<>> /\ issues' = <<>> /\ input' = <<>>
  /\ bound' = {} /\ error' = None

StartAcquire ==
  /\ step = "idle" /\ Len(records) < MaxAttempts
  /\ records' = Append(records, None)
  /\ step' = "metadata" /\ traces' = {}
  /\ UNCHANGED <<site, position, body, error, outcomes, published>>

(* The blocks in the order they are read: the recent filings, and then the *)
(* historical shards up to the first that lists the accession.             *)
BlocksRead ==
  LET listing == {i \in DOMAIN site.blocks : site.blocks[i] # None}
  IN  1 .. (IF listing = {} THEN Len(site.blocks) ELSE Min(listing))

SupportedForms == {"10-K", "10-K/A", "10-Q", "10-Q/A"}

(* The record as AccessionMetadata, or the exception it raises. *)
Rejection(record) ==
  CASE record = None                       -> "LookupError"
    [] record.form \notin SupportedForms   -> "ValueError"
    [] record.primary = None               -> "ValueError"
    [] ~ record.dated                      -> "ValueError"
    [] OTHER                               -> None

LookupMetadata ==
  /\ step = "metadata"
  /\ \/ \E i \in BlocksRead : \E o \in FetchOutcomes(site.blockSize, MaxFile) \ {"ok"} :
          /\ Raise(o)
          /\ Observed("submissions")
          /\ UNCHANGED meta
     \/ LET record == site.blocks[Max(BlocksRead)]
        IN  /\ site.blockSize <= MaxFile
            /\ Observed("submissions")
            /\ IF Rejection(record) # None
               THEN Raise(Rejection(record)) /\ UNCHANGED meta
               ELSE meta' = record /\ Advance("discovery") /\ UNCHANGED issues
  /\ UNCHANGED <<site, position, payload, input, bound, records, outcomes, published>>

(* discovery.json is written here, not fetched: the same two limits. *)
StoreDiscovery ==
  /\ step = "discovery"
  /\ LET size == site.size["discovery.json"]
     IN  IF size > MaxFile THEN Raise("MAX_FILE_BYTES_EXCEEDED") /\ UNCHANGED payload
         ELSE IF size > Remaining THEN Raise("MAX_BUNDLE_BYTES_EXCEEDED") /\ UNCHANGED payload
         ELSE payload' = WithMember("discovery.json", size) /\ Advance("index.json")
                /\ UNCHANGED issues
  /\ UNCHANGED <<site, position, meta, input, bound, traces, records, outcomes, published>>

-----------------------------------------------------------------------------
(* The indexes and the files of the directory.                             *)

(* index.json and <accession>-index.html must be there, the index headers  *)
(* need not.  The second name of index.html is asked for only if the first *)
(* was optional, which it is not.                                          *)
FetchIndex ==
  /\ step \in Indexes
  /\ FetchPut(step, site.size[step], step = "index-headers",
              CASE step = "index.json" -> "index.html"
                [] step = "index.html" -> "index-headers"
                [] OTHER               -> "directory",
              issues)
  /\ UNCHANGED <<site, position, meta, input, bound, records, outcomes, published>>

Described(row) == row.type # None \/ row.described

Undescribed == [type |-> None, described |-> FALSE]

(* classify_source_and_role: the source class; the role matters only for   *)
(* the complete submission, which is a kind of name.                       *)
SourceClass(name, row) ==
  CASE KindOf[name] \in {"complete", "filer"} -> "filer_submitted"
    [] KindOf[name] = "metadata"              -> "sec_submission_metadata"
    [] KindOf[name] = "rendering"             -> "sec_generated_rendering"
    [] KindOf[name] = "sec_xbrl"              -> "sec_generated_xbrl"
    [] OTHER -> IF Described(row) THEN "filer_submitted" ELSE "unknown"

(* html_by_name keeps the last row of a name. *)
LastRow(name) ==
  LET at == {i \in DOMAIN site.rows : site.rows[i].name = name}
  IN  IF at = {} THEN Undescribed ELSE site.rows[Max(at)]

Entry == site.listing[position]

(* Only what SEC renders may be absent; any other failure ends the         *)
(* attempt, with a completeness issue for what the filer submitted.        *)
MayBeAbsent(name) == SourceClass(name, LastRow(name)) = "sec_generated_rendering"

WhenFailed(name) ==
  IF SourceClass(name, LastRow(name)) = "filer_submitted"
  THEN Append(issues, Fatal("MISSING_FILER_SUBMITTED_ATTACHMENT")) ELSE issues

FetchEntry ==
  /\ step = "directory" /\ position <= Len(site.listing)
  /\ position' = position + 1
  /\ IF Entry \in DOMAIN payload
     THEN UNCHANGED <<step, payload, issues, error, traces>>
     ELSE FetchPut(Entry, site.size[Entry], MayBeAbsent(Entry), "directory", WhenFailed(Entry))
  /\ UNCHANGED <<site, meta, input, bound, records, outcomes, published>>

CheckComplete ==
  /\ step = "directory" /\ position > Len(site.listing)
  /\ LET missing(path, code) == IF path \in DOMAIN payload THEN <<>> ELSE <<Fatal(code)>>
         all == issues \o missing(CompleteSubmission, "MISSING_COMPLETE_SUBMISSION")
                       \o missing(meta.primary, "MISSING_PRIMARY_DOCUMENT")
     IN  IF AnyFatal(all) THEN RaiseWith("RuntimeError", all)
         ELSE issues' = all /\ Advance("inventory")
  /\ UNCHANGED <<site, position, meta, payload, input, bound, traces, records, outcomes, published>>

-----------------------------------------------------------------------------
(* The SGML inventory: parse_sgml_documents, reconcile_sgml_inventory.     *)

SgmlNames == {d.name : d \in ToSet(site.sgml)} \ {None}

HtmlSubmitted ==
  {r.name : r \in {q \in ToSet(site.rows) :
              /\ q.type \notin {None, "GRAPHIC"}
              /\ KindOf[q.name] \notin {"complete", "metadata"}}}

HtmlFilerSubmitted ==
  {r.name : r \in {q \in ToSet(site.rows) :
              SourceClass(q.name, q) = "filer_submitted" /\ KindOf[q.name] # "complete"}}

InventoryIssues_IndexOnly ==
  LET listed == ToSet(site.listing)
      report(S, issue) == [i \in 1 .. Cardinality(S) |-> issue]
  IN  report(HtmlFilerSubmitted \ listed, Fatal("INDEX_FILER_SUBMITTED_MISSING_FROM_DIRECTORY"))
        \o report(HtmlSubmitted \ SgmlNames, Warning("INDEX_SUBMITTED_ABSENT_FROM_SGML"))

InventoryIssues ==
  LET listed == ToSet(site.listing)
      report(S, issue) == [i \in 1 .. Cardinality(S) |-> issue]
  IN  report(SgmlNames \ listed, Fatal("SGML_FILENAME_MISSING_FROM_DIRECTORY"))
        \o report(HtmlFilerSubmitted \ listed, Fatal("INDEX_FILER_SUBMITTED_MISSING_FROM_DIRECTORY"))
        \o report(HtmlSubmitted \ SgmlNames, Warning("INDEX_SUBMITTED_ABSENT_FROM_SGML"))

ReconcileInventory ==
  /\ step = "inventory"
  /\ LET all == issues \o InventoryIssues
     IN  IF AnyFatal(all) THEN RaiseWith("RuntimeError", all)
         ELSE issues' = all /\ Advance("input")
  /\ UNCHANGED <<site, position, meta, payload, input, bound, traces, records, outcomes, published>>

-----------------------------------------------------------------------------
(* The report input: identify_report_input.                                *)

(* Where the index and the SGML inventory describe a file. *)
RowsOf(name) == {i \in DOMAIN site.rows : site.rows[i].name = name}
SgmlOf(name) == {i \in DOMAIN site.sgml : site.sgml[i].name = name}

FirstRow(name)  == site.rows[Min(RowsOf(name))]
FirstSgml(name) == site.sgml[Min(SgmlOf(name))]

(* reconcile_primary_row *)
PrimaryAgrees ==
  /\ Cardinality({i \in RowsOf(meta.primary) : site.rows[i].type = meta.form}) = 1
  /\ Cardinality({i \in SgmlOf(meta.primary) : site.sgml[i].type = meta.form}) = 1

FirstTyped(docs, at) ==
  LET typed == {i \in at : docs[i].type # None}
  IN  IF typed = {} THEN None ELSE docs[Min(typed)].type

(* The first type that the index or else the SGML inventory gives. *)
SoftType(name) ==
  LET row == FirstTyped(site.rows, RowsOf(name))
  IN  IF row # None THEN row ELSE FirstTyped(site.sgml, SgmlOf(name))

FirstDescribed(name) == RowsOf(name) # {} /\ FirstRow(name).described

(* build_submitted_attachments *)
Attachments ==
  {n \in ({r.name : r \in ToSet(site.rows)} \union SgmlNames) \intersect DOMAIN payload :
      /\ KindOf[n] \notin {"complete", "metadata"}
      /\ SourceClass(n, [type |-> SoftType(n), described |-> FirstDescribed(n)]) = "filer_submitted"}

Inline(name) == site.content[name] = "inline"

FilingFees == {"EX-FILING FEES"}

(* reconcile_ixds_attachment_types: one row, one block, one type. *)
TypesAgree_RowOnly(name) == Cardinality(RowsOf(name)) = 1 /\ FirstRow(name).type # None
TypesAgree(name) ==
  /\ Cardinality(RowsOf(name)) = 1 /\ Cardinality(SgmlOf(name)) = 1
  /\ FirstRow(name).type # None
  /\ FirstRow(name).type = FirstSgml(name).type

InlineDocs == {n \in Attachments : Inline(n) /\ FirstRow(n).type \notin FilingFees}

InByteOrder(S) ==
  CHOOSE s \in SetToSeqs(S) : \A i, j \in DOMAIN s : i < j => Rank[s[i]] < Rank[s[j]]

Instances ==
  {n \in Attachments : SoftType(n) = "EX-101.INS" /\ site.content[n] = "instance"}

(* The documents of the report, or None for UnsupportedReportInput. *)
ReportInput ==
  IF ~ PrimaryAgrees THEN None
  ELSE IF Inline(meta.primary)
  THEN IF (\A n \in Attachments : Inline(n) => TypesAgree(n)) /\ meta.primary \in InlineDocs
       THEN <<meta.primary>> \o InByteOrder(InlineDocs \ {meta.primary})
       ELSE None
  ELSE IF Cardinality(Instances) = 1 THEN SetToSeq(Instances) ELSE None

IdentifyInput ==
  /\ step = "input"
  /\ IF ReportInput = None
     THEN RaiseWith("UnsupportedReportInput", Append(issues, Fatal("UNSUPPORTED_REPORT_INPUT")))
            /\ UNCHANGED input
     ELSE input' = ReportInput /\ Advance("closure") /\ UNCHANGED issues
  /\ UNCHANGED <<site, position, meta, payload, bound, traces, records, outcomes, published>>

-----------------------------------------------------------------------------
(* The closure, the bundle and its publication.                            *)

ExternalBytes(E) == MapThenSumSet(LAMBDA p : site.size[p], E)

(* run_online_closure with what is left of the budget: it fetches external *)
(* documents that fit, or stops at a safeguard, or comes back incomplete;  *)
(* a document it captured may be gone from the store.                      *)
RunClosure ==
  /\ step = "closure"
  /\ \/ \E E \in SUBSET site.externals :
          /\ ExternalBytes(E) <= Remaining
          /\ \/ /\ payload' = [p \in DOMAIN payload \union E |->
                                  IF p \in E THEN site.size[p] ELSE payload[p]]
                /\ bound' \in {ToSet(input), ToSet(input) \ {Head(input)}}
                /\ Advance("assemble") /\ UNCHANGED issues
             \/ /\ E # {}
                /\ Raise("RuntimeError") /\ UNCHANGED <<payload, bound>>
     \/ /\ \/ RaiseWith("RuntimeError", Append(issues, Fatal("ONLINE_CLOSURE_FAILED")))
           \/ /\ site.externals # {} /\ ExternalBytes(site.externals) >= Remaining
              /\ RaiseWith("MAX_BUNDLE_BYTES_EXCEEDED",
                           Append(issues, Fatal(SafeguardCode("MAX_BUNDLE_BYTES_EXCEEDED"))))
           \/ \E s \in {"MAX_EXTERNAL_DEPENDENCY_BYTES_EXCEEDED", "MAX_REDIRECTS_EXCEEDED",
                        "DESTINATION_FORBIDDEN"} :
                RaiseWith(s, Append(issues, Fatal(SafeguardCode(s))))
        /\ UNCHANGED <<payload, bound>>
  /\ UNCHANGED <<site, position, meta, input, traces, records, outcomes, published>>

(* validate_bundle_structure and validate_offline_replay. *)
AssembleBundle ==
  /\ step = "assemble"
  /\ \/ ToSet(input) \subseteq bound /\ Advance("publish") /\ UNCHANGED issues
     \/ ~ (ToSet(input) \subseteq bound) /\ Raise("BundleStructureError")
     \/ ToSet(input) \subseteq bound /\ Raise("RuntimeError")
  /\ UNCHANGED <<site, position, meta, payload, input, bound, traces, records, outcomes, published>>

TheBundle == [primary |-> meta.primary, payload |-> payload, input |-> input]

(* BundleRepository.publish, which may fail before or after the rename. *)
Publish ==
  /\ step = "publish"
  /\ \/ published' = published \union {TheBundle} /\ Advance("recording") /\ UNCHANGED issues
     \/ published' \in {published, published \union {TheBundle}} /\ Raise("OSError")
  /\ UNCHANGED <<site, position, meta, payload, input, bound, traces, records, outcomes>>

-----------------------------------------------------------------------------
(* The end of acquire.                                                     *)

AttemptRecord ==
  [status |-> IF error = None THEN "success" ELSE "failed", error |-> error,
   issues |-> issues, observed |-> traces,
   result |-> IF error = None THEN TheBundle ELSE None]

(* The finally clause: _write_attempt, which replaces the file or raises.  *)
WriteAttempt_OnError ==
  /\ step = "recording"
  /\ \/ /\ records' = IF error = None THEN records ELSE [records EXCEPT ![Len(records)] = AttemptRecord]
        /\ outcomes' = Append(outcomes, IF error = None THEN "returned" ELSE "raised")
     \/ /\ outcomes' = Append(outcomes, "unrecorded")
        /\ UNCHANGED records
  /\ step' = "idle" /\ NoLocals
  /\ UNCHANGED <<site, traces, published>>

WriteAttempt ==
  /\ step = "recording"
  /\ \/ /\ records' = [records EXCEPT ![Len(records)] = AttemptRecord]
        /\ outcomes' = Append(outcomes, IF error = None THEN "returned" ELSE "raised")
     \/ /\ outcomes' = Append(outcomes, "unrecorded")
        /\ UNCHANGED records
  /\ step' = "idle" /\ NoLocals
  /\ UNCHANGED <<site, traces, published>>

(* The process dies: the attempt's directory stays, without a record. *)
ProcessDies ==
  /\ step # "idle"
  /\ outcomes' = Append(outcomes, "died")
  /\ step' = "idle" /\ NoLocals /\ traces' = {}
  /\ UNCHANGED <<site, records, published>>

AcquisitionInit ==
  /\ site \in Sites
  /\ step = "idle" /\ position = 1
  /\ meta = None /\ payload = <<>> /\ issues = <<>> /\ input = <<>> /\ bound = {}
  /\ error = None /\ traces = {}
  /\ records = <<>> /\ outcomes = <<>> /\ published = {}

AcquisitionNext ==
  \/ StartAcquire \/ LookupMetadata \/ StoreDiscovery \/ FetchIndex \/ FetchEntry
  \/ CheckComplete \/ ReconcileInventory \/ IdentifyInput \/ RunClosure \/ AssembleBundle
  \/ Publish \/ WriteAttempt \/ ProcessDies

AcquisitionSpec == AcquisitionInit /\ [][AcquisitionNext]_acquisitionVars

-----------------------------------------------------------------------------
(* Properties.                                                             *)

Steps == {"idle", "metadata", "discovery", "index.json", "index.html", "index-headers",
          "directory", "inventory", "input", "closure", "assemble", "publish", "recording"}

(* The state of an acquisition between its steps. *)
AcquisitionTypeOK ==
  /\ step \in Steps /\ position \in 1 .. Len(site.listing) + 1
  /\ \A p \in DOMAIN payload : payload[p] \in Nat
  /\ \A i \in DOMAIN issues : issues[i].severity \in {"fatal", "warning"}
  /\ ToSet(input) \subseteq Names /\ bound \subseteq Names
  /\ Len(records) = Len(outcomes) + (IF step = "idle" THEN 0 ELSE 1)
  /\ ToSet(outcomes) \subseteq {"returned", "raised", "unrecorded", "died"}

(* Every acquire that returns or raises has left a record that tells what  *)
(* happened, whichever step failed: a success names a published bundle and *)
(* no fatal issue, a failure the exception.  Only a death, or a failure of *)
(* the write itself, leaves an attempt without one (the finally clause of  *)
(* acquire).  The observations of a record are those of its own attempt.   *)
AttemptsAreRecorded ==
  \A i \in DOMAIN outcomes :
    IF outcomes[i] \in {"unrecorded", "died"} THEN records[i] = None
    ELSE /\ records[i] # None
         /\ records[i].status = "success" <=> outcomes[i] = "returned"
         /\ records[i].status = "success" =>
              records[i].result \in published /\ ~ AnyFatal(records[i].issues)
         /\ records[i].status = "failed" => records[i].error # None
         /\ records[i].observed # {} /\ \A t \in records[i].observed : t[1] = i

(* An attempt that a safeguard ended says so: its one fatal issue carries  *)
(* the safeguard's code and never that of a missing document; and no other *)
(* failure is reported as a safeguard (the except clauses of fetch_put and *)
(* of the directory loop, and the handler of acquire).                     *)
SafeguardsStayTyped ==
  \A r \in ToSet(records) \ {None} :
    LET fatal == {r.issues[i].code : i \in {j \in DOMAIN r.issues : r.issues[j].severity = "fatal"}}
    IN  IF r.error \in Safeguards THEN fatal = {SafeguardCode(r.error)}
        ELSE fatal \intersect {SafeguardCode(s) : s \in Safeguards} = {}

(* A published bundle has all of the filing: whatever the directory lists  *)
(* except renderings SEC did not serve, every document that the SGML       *)
(* submission or the index says the filer submitted, the complete          *)
(* submission and the primary document, and the indexes they were read     *)
(* from.                                                                   *)
PublishedIsWhole ==
  \A b \in published :
    /\ ToSet(site.listing) \union SgmlNames \union HtmlFilerSubmitted
         \subseteq DOMAIN b.payload \union {n \in Names : KindOf[n] = "rendering"}
    /\ {CompleteSubmission, b.primary, "discovery.json", "index.json", "index.html"}
         \subseteq DOMAIN b.payload

(* The types that the index and the SGML submission give a document. *)
TypesGiven(n) ==
  {site.rows[i].type : i \in RowsOf(n)} \union {site.sgml[i].type : i \in SgmlOf(n)}

(* The inline documents of the filer in a bundle, but for fee exhibits. *)
InlineFiled(b) ==
  {n \in DOMAIN b.payload \intersect Names :
     /\ KindOf[n] \in {"filer", "plain"} /\ Inline(n)
     /\ TypesGiven(n) \ {None} # {} /\ TypesGiven(n) \intersect FilingFees = {}}

(* The report input of an inline filing is its inline documents: the       *)
(* primary document first, only documents that the index and the SGML      *)
(* submission both describe, by one type, and none left out that either of *)
(* them gives a type other than that of a fee exhibit.  If the primary     *)
(* document is not inline, it is one instance document, whether or not     *)
(* some exhibit is inline, which identify_report_input does not look at:   *)
(* see NoIndependentInline.  Nothing SEC generated is in it.               *)
InputIsTheInlineSet ==
  \A b \in published :
    LET docs == ToSet(b.input)
    IN  /\ docs \subseteq DOMAIN b.payload
        /\ \A n \in docs : KindOf[n] \in {"filer", "plain"}
        /\ IF Inline(b.primary)
           THEN /\ Head(b.input) = b.primary
                /\ docs = InlineFiled(b)
                /\ \A n \in docs : Cardinality(TypesGiven(n)) = 1
           ELSE Len(b.input) = 1 /\ site.content[Head(b.input)] = "instance"

(* What ADR 0009 says: an independent inline instance beside the primary   *)
(* document is UNSUPPORTED_REPORT_INPUT, so no inline document of a        *)
(* published bundle is left out of its report input.  Not so if the        *)
(* primary document is not inline and there is one EX-101.INS.             *)
NoIndependentInline == \A b \in published : InlineFiled(b) \subseteq ToSet(b.input)

(* The payload never outgrows its budget and no file its limit, to the     *)
(* byte; and an attempt refused for its size met a filing that does not    *)
(* fit: one file too large, or as many bytes as the budget has.            *)
PayloadFits ==
  /\ Bytes(payload) <= MaxBundle
  /\ \A p \in DOMAIN payload : payload[p] <= MaxFile \/ p \in site.externals
  /\ \A r \in ToSet(records) \ {None} :
       LET sizes == {site.size[p] : p \in DOMAIN site.size} \union {site.blockSize}
       IN  /\ r.error \in {"MAX_FILE_BYTES_EXCEEDED", "SIZE_LIMIT"} => \E s \in sizes : s > MaxFile
           /\ r.error = "MAX_BUNDLE_BYTES_EXCEEDED" => Bytes(site.size) >= MaxBundle

(* What is published is all of the filing, and within the byte limits.     *)
PublishedIsSound == AcquisitionTypeOK /\ PublishedIsWhole /\ PayloadFits
=============================================================================
