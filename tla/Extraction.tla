----------------------------- MODULE Extraction -----------------------------
(***************************************************************************)
(* From the documents of a filing to its source records: the inventory of  *)
(* the parent, then for each report the passes of the extractor over the   *)
(* model Arelle loaded (xbrl/extract.py), the assembly of the records      *)
(* (xbrl/_source_build.py) and the parent's checks of the result           *)
(* (xbrl/source_extract.py, xbrl/integrity.py).                            *)
(*                                                                         *)
(* Extraction is fail-closed: a pass that cannot represent something skips *)
(* it and records an issue, and any fatal issue fails the whole filing.    *)
(* Arelle is external: it may report a document under an alias or under    *)
(* the surrogate of the inline set, and may leave items out of its model.  *)
(*                                                                         *)
(* A definition Op_Slip is Op with a plausible slip; it is not part of the *)
(* model and shows that a property notices the slip.                       *)
(***************************************************************************)
EXTENDS Inventory

CONSTANTS Filings,      \* the filings to extract
          Surrogate,    \* the name Arelle gives a set of inline documents
          NoNamespace   \* concept names without a namespace

VARIABLES filing,       \* the filing being extracted
          stage,        \* the pass that comes next, or how it ended
          current,      \* the report in work, an index into filing.reports
          issues,       \* what the passes recorded for it
          contexts, dimensions, units, measures, facts, networks, concepts,
          reports       \* the reports assembled so far

tables == <<contexts, dimensions, units, measures, facts, networks, concepts>>
extractionVars == <<filing, stage, current, issues, tables, reports>>

---------------------------------------------------------------------------
(* Issues. *)

\* The slip: a base set that cannot be identified is only a warning.
NonFatal_Slip ==
    {"DEFERRED_ARCROLE", "UNSUPPORTED_ARCROLE", "EXCLUDED_ARCROLE", "UNSUPPORTED_INLINE_SIGN",
     "INVALID_INLINE_SCALE", "UNRESOLVED_INLINE_FORMAT", "UNAVAILABLE_FACT_LEXICAL_VALUE",
     "INEXACT_NUMERIC_VALUE", "UNSUPPORTED_RESOLVED_VALUE", "UNRESOLVED_REQUIRED_UNIT",
     "UNEXPECTED_UNIT_REFERENCE", "INVALID_BASE_SET_QNAME"}

NonFatal ==
    {"DEFERRED_ARCROLE", "UNSUPPORTED_ARCROLE", "EXCLUDED_ARCROLE", "UNSUPPORTED_INLINE_SIGN",
     "INVALID_INLINE_SCALE", "UNRESOLVED_INLINE_FORMAT", "UNAVAILABLE_FACT_LEXICAL_VALUE",
     "INEXACT_NUMERIC_VALUE", "UNSUPPORTED_RESOLVED_VALUE", "UNRESOLVED_REQUIRED_UNIT",
     "UNEXPECTED_UNIT_REFERENCE"}

Incomplete(code) ==
    [code |-> code,
     severity |-> CASE code \notin NonFatal -> "fatal"
                    [] code = "EXCLUDED_ARCROLE" -> "info"
                    [] OTHER -> "warning"]
Incoherent(code) == [code |-> code, severity |-> "fatal"]
When(condition, issue) == IF condition THEN {issue} ELSE {}

---------------------------------------------------------------------------
(* Attribution: every row names the bound document that filed it. *)

\* The binding behind the URI Arelle gives an object's document, or None.
SourceDocument(f, uri) ==
    LET canonical == IF \E p \in f.bound : <<uri, p>> \in f.aliases
                     THEN CHOOSE p \in f.bound : <<uri, p>> \in f.aliases ELSE uri
    IN  IF uri # Surrogate /\ canonical \in f.bound THEN canonical ELSE None

Located(f, x) == SourceDocument(f, x.uri) # None
Locator(f, x) == <<SourceDocument(f, x.uri), x.at[2], x.at[3]>>
Unlocated(f, x) == When(~Located(f, x), Incoherent("UNATTRIBUTABLE_SOURCE_DOCUMENT"))

\* What is filed and declared, and what Arelle makes of it.
ContextRecords ==
    [id : STRING, period : SUBSET STRING, dated : BOOLEAN, entity : BOOLEAN, other : BOOLEAN,
     dims : Seq([dim : STRING, kind : STRING, member : STRING, inside : BOOLEAN])]
UnitRecords == [id : STRING, filed : Nat \X Nat, resolved : Nat \X Nat]
ItemRecords ==
    [target : STRING, kind : STRING, concept : STRING, context : STRING, unit : STRING,
     cont : STRING, nil : BOOLEAN, value : {"exact", "inexact", "none", "invalid", "unresolved"},
     lexical : {"text", "unavailable", "unread"},
     attributes : SUBSET STRING, loaded : BOOLEAN, inTuple : BOOLEAN]
DocumentRecords ==
    [wellFormed : BOOLEAN, root : STRING, seenAs : STRING, contexts : Seq(ContextRecords),
     units : Seq(UnitRecords), items : Seq(ItemRecords),
     conts : Seq([id : STRING, next : STRING]), notes : Seq(STRING)]
SourceLocations == STRING \X STRING \X Nat
ConceptRecords == [qname : STRING, issuer : BOOLEAN, uri : STRING, at : SourceLocations]
RelationshipRecords ==
    [role : BOOLEAN, arc : BOOLEAN, uri : STRING, at : SourceLocations, from : STRING,
     to : STRING, attributes : SUBSET STRING, parts : BOOLEAN]
NetworkRecords ==
    [arcrole : STRING, definitionLink : BOOLEAN, named : BOOLEAN, loads : BOOLEAN,
     rels : Seq(RelationshipRecords)]
ReportInputs == [kind : {"ixds", "instance"}, uris : Seq(STRING)]

\* A filing has a report input, an instance is one document, and the name that
\* Arelle gives a document leads back to that document or to none.
ASSUME FilingsAssumption ==
    \A f \in Filings :
        /\ f.reports \in Seq(ReportInputs) /\ f.reports # <<>>
        /\ f.docs \in [DOMAIN f.docs -> DocumentRecords]
        /\ f.dts \in Seq(ConceptRecords) /\ f.nets \in Seq(NetworkRecords)
        /\ f.log \in Seq([level : STRING, code : STRING])
        /\ None \notin f.bound
        /\ \A i \in DOMAIN f.reports :
              /\ f.reports[i].kind = "instance" => Len(f.reports[i].uris) = 1
              /\ Range(Members(f, f.reports[i])) \subseteq DOMAIN f.docs \cup {None}
        /\ \A u \in DOMAIN f.docs : SourceDocument(f, f.docs[u].seenAs) \in {u, None}

Report == filing.reports[current]
Uris == Members(filing, Report)

\* Arelle: of the contexts, or of the units, with one id it keeps the last.
Loaded(kind) ==
    LET filed == Filed(filing, Uris, kind)
    IN  Selection(filed, LAMBDA x : \A j \in DOMAIN filed :
            filed[j].is.id = x.is.id => filed[j].at = x.at
                \/ \E i \in DOMAIN filed : filed[i] = x /\ j < i)

\* Arelle: the facts of the target, without the ones it left out.
LoadedFacts ==
    Selection(Filed(filing, Uris, "items"),
              LAMBDA x : x.is.target = DefaultTarget /\ x.is.loaded)
Declared == {filing.dts[i].qname : i \in DOMAIN filing.dts} \ {None}
Defined == Selection(LoadedFacts, LAMBDA x : x.is.concept \in Declared)

\* A fold of a pass over what Arelle loaded.
RowsOf(s, Keep(_), Row(_)) ==
    LET kept == Selection(s, Keep) IN [i \in DOMAIN kept |-> Row(kept[i])]
IssuesOf(s, Of(_)) == UNION {Of(s[i]) : i \in DOMAIN s}

---------------------------------------------------------------------------
(* Contexts and their dimensions. *)

\* Forever, an instant, or both ends of a duration, and nothing else.
PeriodIsWhole(c) ==
    /\ c.period \in {{"forever"}, {"instant"}, {"start", "end"}}
    /\ c.period # {"forever"} => c.dated

ContextIsWhole(x) ==
    Located(filing, x) /\ x.is.id # None /\ PeriodIsWhole(x.is) /\ x.is.entity

ContextIssues(x) ==
    IF ~Located(filing, x) THEN Unlocated(filing, x)
    ELSE IF x.is.id = None THEN {Incoherent("INCOHERENT_CONTEXT_IDENTITY")}
    ELSE When(~PeriodIsWhole(x.is), Incoherent("INCOHERENT_CONTEXT_PERIOD"))
         \cup When(~x.is.entity, Incoherent("INCOHERENT_CONTEXT_ENTITY"))
         \cup When(PeriodIsWhole(x.is) /\ x.is.entity /\ x.is.other,
                   Incomplete("UNSUPPORTED_NON_DIMENSIONAL_CONTEXT_CONTENT"))

\* A filed dimension: inside segment or scenario, with a member to keep.
DimensionIsWhole(d) == d.dim # None /\ d.inside /\ d.member # None
DimensionRows(x) ==
    RowsOf(x.is.dims, DimensionIsWhole,
           LAMBDA d : [context |-> Locator(filing, x), dim |-> d.dim, kind |-> d.kind,
                       member |-> d.member])
DimensionIssues(x) ==
    IssuesOf(x.is.dims,
             LAMBDA d : When(~DimensionIsWhole(d), Incoherent("UNREPRESENTABLE_CONTEXT_DIMENSION")))

---------------------------------------------------------------------------
(* Units and their measures. *)

UnitIsWhole(x) == Located(filing, x) /\ x.is.id # None
UnitIssues(x) ==
    IF ~Located(filing, x) THEN Unlocated(filing, x)
    ELSE IF x.is.id = None THEN {Incoherent("INCOHERENT_UNIT_IDENTITY")}
    ELSE When(x.is.resolved # x.is.filed, Incoherent("UNRESOLVED_UNIT_MEASURE"))

\* The measures that resolved: so many numerators, so many denominators.
MeasureRows(x) ==
    [i \in 1..(x.is.resolved[1] + x.is.resolved[2]) |->
        [unit |-> Locator(filing, x),
         side |-> IF i <= x.is.resolved[1] THEN "numerator" ELSE "denominator",
         ordinal |-> IF i <= x.is.resolved[1] THEN i ELSE i - x.is.resolved[1]]]

---------------------------------------------------------------------------
(* Facts: one row for each item, with the ordinal of the iteration. *)

\* The row of the context, or unit, that Arelle resolved a reference to.
RowFor(rows, id) ==
    IF \E i \in DOMAIN rows : rows[i].id = id
    THEN rows[CHOOSE i \in DOMAIN rows : rows[i].id = id].at ELSE None
Resolves(kind, ref) ==
    ref # None /\ \E i \in DOMAIN Loaded(kind) : Loaded(kind)[i].is.id = ref

IsNumeric(item) == item.kind \in {"numeric", "fraction"}
LacksUnit(item) == IsNumeric(item) /\ ~Resolves("units", item.unit)
LosesUnit(item) ==
    IsNumeric(item) /\ Resolves("units", item.unit) /\ RowFor(units, item.unit) = None
FactIsWhole(x) ==
    Located(filing, x) /\ RowFor(contexts, x.is.context) # None /\ ~LosesUnit(x.is)

\* The value: nil, or what the engine made of it.  It may call an item valid and give no value
\* for it ("none"), or give a raw value that is not text ("unread"): neither is an issue.
ValueStatus(item) ==
    CASE item.nil -> "nil"
      [] ~item.nil /\ LacksUnit(item) -> "unresolved"
      [] ~item.nil /\ ~LacksUnit(item) /\ item.value \in {"invalid", "unresolved"} -> item.value
      [] OTHER -> "valid"
ValueIssues(item) ==
    When(~item.nil /\ item.value = "inexact",
         Incomplete(IF IsNumeric(item) THEN "INEXACT_NUMERIC_VALUE"
                                       ELSE "UNSUPPORTED_RESOLVED_VALUE"))

InlineIssues(item) ==
    {Incomplete(code) : code \in item.attributes \cap
        {"UNSUPPORTED_INLINE_SIGN", "INVALID_INLINE_SCALE", "UNRESOLVED_INLINE_FORMAT"}}

FactIssues(x) ==
    LET item == x.is
    IN  CASE ~Located(filing, x) ->
                Unlocated(filing, x) \cup {Incoherent("UNRESOLVED_FACT_CONCEPT")}
          [] Located(filing, x) /\ RowFor(contexts, item.context) = None ->
                {Incoherent("UNRESOLVED_FACT_CONTEXT"), Incoherent("UNRESOLVED_FACT_CONCEPT")}
          [] OTHER ->
                When(item.kind = "fraction", Incomplete("UNSUPPORTED_FRACTION_FACT"))
                \cup When(LosesUnit(item), Incoherent("UNRESOLVED_FACT_UNIT_ROW"))
                \cup (IF LosesUnit(item) THEN {} ELSE
                      When(LacksUnit(item), Incomplete("UNRESOLVED_REQUIRED_UNIT"))
                      \cup When(~IsNumeric(item) /\ item.unit # None,
                                Incomplete("UNEXPECTED_UNIT_REFERENCE"))
                      \cup ValueIssues(item) \cup InlineIssues(item)
                      \cup When(item.lexical = "unavailable",
                              Incomplete("UNAVAILABLE_FACT_LEXICAL_VALUE")))

TupleIssues(x) == When(x.is.inTuple, Incomplete("UNSUPPORTED_TUPLE_FACT"))

FactRow(x, order) ==
    [order |-> order, at |-> Locator(filing, x), concept |-> x.is.concept,
     context |-> RowFor(contexts, x.is.context),
     unit |-> IF IsNumeric(x.is) /\ ~LacksUnit(x.is) THEN RowFor(units, x.is.unit) ELSE None,
     status |-> ValueStatus(x.is),
     value |-> ~x.is.nil /\ x.is.value = "exact", lexical |-> x.is.lexical = "text"]

FactRows ==
    LET rows == [i \in DOMAIN Defined |-> [whole |-> FactIsWhole(Defined[i]),
                                           row |-> FactRow(Defined[i], i - 1)]]
    IN  RowsOf(rows, LAMBDA r : r.whole, LAMBDA r : r.row)

---------------------------------------------------------------------------
(* Relationships, labels and references. *)

Family(net) ==
    CASE net.arcrole = "parent-child" -> "presentation"
      [] net.arcrole = "summation-item" -> "calculation"
      [] net.arcrole = "domain-member" -> "definition"
      [] net.arcrole \in {"concept-label", "concept-reference"} -> "resource"
      [] net.arcrole = "fact-footnote" -> "excluded"
      [] net.arcrole = "deferred" -> "deferred"
      [] OTHER -> IF net.definitionLink THEN "definition" ELSE "unsupported"
ConceptNetworks == {"presentation", "calculation", "definition"}
IsConceptNetwork(net) == Family(net) \in ConceptNetworks
IdentityFamilies == ConceptNetworks \cup {"resource"}

\* A problem of a concept network is incoherence, of a resource incompleteness.
Problem(net, code) == IF IsConceptNetwork(net) THEN Incoherent(code) ELSE Incomplete(code)

ArcAttributes == {"INVALID_ARC_ORDER", "INVALID_ARC_WEIGHT", "INVALID_ARC_ATTRIBUTE"}
TargetIsWhole(net, rel) ==
    IF IsConceptNetwork(net) THEN rel.to \in Declared ELSE rel.to = net.arcrole
ArcIsWhole(rel) == rel.role /\ rel.arc /\ Located(filing, rel)
RelationshipIsWhole(net, rel) ==
    ArcIsWhole(rel) /\ rel.from \in Declared /\ TargetIsWhole(net, rel)

RelationshipIssues(net, rel) ==
    CASE ~rel.role -> {Problem(net, "MISSING_NETWORK_ROLE")}
      [] rel.role /\ ~rel.arc -> {Problem(net, "UNAVAILABLE_ARC_OCCURRENCE")}
      [] rel.role /\ rel.arc /\ ~Located(filing, rel) -> Unlocated(filing, rel)
      [] OTHER ->
            IF RelationshipIsWhole(net, rel)
            THEN {Incomplete(code) : code \in rel.attributes \cap ArcAttributes}
                 \cup When(net.arcrole = "concept-reference" /\ ~rel.parts,
                           Incomplete("UNPRESERVED_REFERENCE_PART"))
            ELSE {Problem(net, IF IsConceptNetwork(net) \/ rel.from \notin Declared
                               THEN "ENDPOINT_FAMILY_MISMATCH" ELSE "UNSUPPORTED_RESOURCE_CLASS")}

\* A base set is read when its QNames identify it and Arelle can resolve it.
IsRead(net) == Family(net) \in IdentityFamilies /\ net.named /\ net.loads
NetworkIssues(net) ==
    CASE Family(net) \in IdentityFamilies /\ ~net.named -> {Incomplete("INVALID_BASE_SET_QNAME")}
      [] (Family(net) \notin IdentityFamilies \/ net.named) /\ ~net.loads ->
            {Problem(net, "RELATIONSHIP_SET_LOAD_FAILED")}
      [] IsRead(net) -> IssuesOf(net.rels, LAMBDA rel : RelationshipIssues(net, rel))
      [] OTHER -> {Incomplete(CASE Family(net) = "excluded" -> "EXCLUDED_ARCROLE"
                                [] Family(net) = "deferred" -> "DEFERRED_ARCROLE"
                                [] OTHER -> "UNSUPPORTED_ARCROLE")}

\* In the order of the base sets, and of the relationships of each.
NetworkRows(families) ==
    FlattenSeq([i \in DOMAIN filing.nets |->
        LET net == filing.nets[i]
        IN  IF ~IsRead(net) \/ Family(net) \notin families THEN <<>>
            ELSE RowsOf(net.rels, LAMBDA rel : RelationshipIsWhole(net, rel),
                        LAMBDA rel : [net |-> i, from |-> rel.from, to |-> rel.to])])

---------------------------------------------------------------------------
(* Concepts: only the ones the report uses, and the issuer's own. *)

\* The slip: the issuer's unused extension concepts are forgotten.
BaseConcepts_Slip ==
    {facts[i].concept : i \in DOMAIN facts}
    \cup (UNION {{networks.concept[i].from, networks.concept[i].to} : i \in DOMAIN networks.concept})
    \cup {dimensions[i].dim : i \in DOMAIN dimensions}
    \cup {dimensions[i].member : i \in {j \in DOMAIN dimensions : dimensions[j].kind = "explicit"}}

BaseConcepts ==
    {filing.dts[i].qname : i \in {j \in DOMAIN filing.dts :
        filing.dts[j].qname # None /\ filing.dts[j].issuer}}
    \cup {facts[i].concept : i \in DOMAIN facts}
    \cup (UNION {{networks.concept[i].from, networks.concept[i].to} : i \in DOMAIN networks.concept})
    \cup {dimensions[i].dim : i \in DOMAIN dimensions}
    \cup {dimensions[i].member : i \in {j \in DOMAIN dimensions : dimensions[j].kind = "explicit"}}

Kept == {i \in DOMAIN filing.dts :
            filing.dts[i].qname \in BaseConcepts /\ filing.dts[i].qname # None}
Redeclared ==
    \E i, j \in Kept : /\ filing.dts[i].qname = filing.dts[j].qname
                       /\ Located(filing, filing.dts[i]) /\ Located(filing, filing.dts[j])
                       /\ Locator(filing, filing.dts[i]) # Locator(filing, filing.dts[j])
ConceptIssues ==
    (UNION {Unlocated(filing, filing.dts[i]) : i \in Kept})
    \cup When(Redeclared, Incomplete("DUPLICATE_CONCEPT_DECLARATION"))
ConceptRows ==
    {filing.dts[i].qname : i \in {j \in Kept : Located(filing, filing.dts[j])}}

---------------------------------------------------------------------------
(* Diagnostics of the engine: what is not known to be harmless blocks. *)

DiagnosticSeverity(level) ==
    CASE level \in {"CRITICAL", "FATAL"} -> "critical"
      [] level = "ERROR" -> "error"
      [] level \in {"DEBUG", "INFO"} -> "info"
      [] OTHER -> "warning"
CompleteCompatible == {"invalidTransformation"}
IsBlocking(record) ==
    DiagnosticSeverity(record.level) # "info" /\ record.code \notin CompleteCompatible

---------------------------------------------------------------------------
(* The passes. *)

NoTables ==
    /\ contexts = <<>> /\ dimensions = <<>> /\ units = <<>> /\ measures = <<>> /\ facts = <<>>
    /\ networks = [concept |-> <<>>, resource |-> <<>>] /\ concepts = {}
ResetTables ==
    /\ contexts' = <<>> /\ dimensions' = <<>> /\ units' = <<>> /\ measures' = <<>> /\ facts' = <<>>
    /\ networks' = [concept |-> <<>>, resource |-> <<>>] /\ concepts' = {}

ExtractionIdle ==
    /\ filing = None /\ stage = "idle" /\ current = 0 /\ issues = {} /\ reports = <<>> /\ NoTables
ExtractionInit ==
    /\ filing \in Filings /\ stage = "inventory" /\ current = 1
    /\ issues = {} /\ reports = <<>> /\ NoTables

TakeInventory ==
    /\ stage = "inventory"
    /\ stage' = IF InventoryFails(filing) THEN "failed" ELSE "scan"
    /\ UNCHANGED <<filing, current, issues, tables, reports>>

ScanConcepts ==
    /\ stage = "scan" /\ stage' = "contexts"
    /\ issues' = issues \cup When(\E i \in DOMAIN filing.dts : filing.dts[i].qname = None,
                                  Incoherent("INCOHERENT_CONCEPT_DECLARATION"))
    /\ UNCHANGED <<filing, current, tables, reports>>

ProjectContexts ==
    /\ stage = "contexts" /\ stage' = "units"
    /\ contexts' = RowsOf(Loaded("contexts"), ContextIsWhole,
                          LAMBDA x : [id |-> x.is.id, at |-> Locator(filing, x)])
    /\ dimensions' = FlattenSeq(RowsOf(Loaded("contexts"), ContextIsWhole, DimensionRows))
    /\ issues' = issues \cup IssuesOf(Loaded("contexts"), ContextIssues)
                        \cup IssuesOf(Selection(Loaded("contexts"), ContextIsWhole), DimensionIssues)
    /\ UNCHANGED <<filing, current, units, measures, facts, networks, concepts, reports>>

ProjectUnits ==
    /\ stage = "units" /\ stage' = "facts"
    /\ units' = RowsOf(Loaded("units"), UnitIsWhole,
                       LAMBDA x : [id |-> x.is.id, at |-> Locator(filing, x)])
    /\ measures' = FlattenSeq(RowsOf(Loaded("units"), UnitIsWhole, MeasureRows))
    /\ issues' = issues \cup IssuesOf(Loaded("units"), UnitIssues)
    /\ UNCHANGED <<filing, current, contexts, dimensions, facts, networks, concepts, reports>>

ProjectFacts ==
    /\ stage = "facts" /\ stage' = "networks"
    /\ facts' = FactRows
    /\ issues' = issues \cup When(Len(Defined) < Len(LoadedFacts),
                                  Incoherent("UNDEFINED_FACT_ELEMENT"))
                        \cup IssuesOf(Defined, TupleIssues) \cup IssuesOf(Defined, FactIssues)
    /\ UNCHANGED <<filing, current, contexts, dimensions, units, measures, networks, concepts, reports>>

ProjectRelationships ==
    /\ stage = "networks" /\ stage' = "concepts"
    /\ networks' = [concept |-> NetworkRows(ConceptNetworks),
                    resource |-> NetworkRows(IdentityFamilies \ ConceptNetworks)]
    /\ issues' = issues \cup IssuesOf(filing.nets, NetworkIssues)
    /\ UNCHANGED <<filing, current, contexts, dimensions, units, measures, facts, concepts, reports>>

\* Declarations of the retained concepts; labels of the others are dropped.
RetainConcepts ==
    /\ stage = "concepts" /\ stage' = "diagnostics"
    /\ concepts' = ConceptRows
    /\ networks' = [networks EXCEPT !.resource =
                        Selection(@, LAMBDA row : row.from \in BaseConcepts)]
    /\ issues' = issues \cup ConceptIssues
    /\ UNCHANGED <<filing, current, contexts, dimensions, units, measures, facts, reports>>

ReadDiagnostics ==
    /\ stage = "diagnostics" /\ stage' = "assemble"
    /\ issues' = issues \cup When(\E i \in DOMAIN filing.log : IsBlocking(filing.log[i]),
                                  Incomplete("BLOCKING_ENGINE_DIAGNOSTIC"))
    /\ UNCHANGED <<filing, current, tables, reports>>

---------------------------------------------------------------------------
(* Assembly, and the parent's checks. *)

Refused == \E issue \in issues : issue.severity = "fatal"

\* Rows get the ids of the rows their locators point at; concepts a namespace.
IdAt(rows, at) ==
    IF at = None \/ ~\E i \in DOMAIN rows : rows[i].at = at THEN None
    ELSE rows[CHOOSE i \in DOMAIN rows : rows[i].at = at].id
BuildFails ==
    \/ Repeated([i \in DOMAIN contexts |-> contexts[i].at])
    \/ Repeated([i \in DOMAIN units |-> units[i].at])
    \/ \E i \in DOMAIN facts : IdAt(contexts, facts[i].context) = None
    \/ \E i \in DOMAIN dimensions : IdAt(contexts, dimensions[i].context) = None
    \/ BaseConcepts \cap NoNamespace # {}
    \/ Len(facts) # Len(Defined)
BuiltFacts ==
    [i \in DOMAIN facts |->
        [facts[i] EXCEPT !.context = IdAt(contexts, @), !.unit = IdAt(units, @)]]
BuiltDimensions ==
    [i \in DOMAIN dimensions |-> [dimensions[i] EXCEPT !.context = IdAt(contexts, @)]]
BuiltMeasures == [i \in DOMAIN measures |-> [measures[i] EXCEPT !.unit = IdAt(units, @)]]

\* Relationships, labels and references are numbered as they were emitted.
InEmitOrder(rows) ==
    [i \in DOMAIN rows |-> [order |-> i - 1, from |-> rows[i].from, to |-> rows[i].to]]
BuiltRelationships == InEmitOrder(networks.concept)
BuiltResources == InEmitOrder(networks.resource)

Built ==
    [arelleItems |-> Len(Defined), concepts |-> concepts, contexts |-> contexts, units |-> units,
     facts |-> BuiltFacts, dimensions |-> BuiltDimensions, measures |-> BuiltMeasures,
     relationships |-> BuiltRelationships, resources |-> BuiltResources, issues |-> issues]

Assemble ==
    /\ stage = "assemble"
    /\ IF Refused \/ BuildFails
       THEN /\ stage' = "failed"
            /\ UNCHANGED <<filing, current, issues, tables, reports>>
       ELSE /\ reports' = Append(reports, Built)
            /\ issues' = {} /\ ResetTables
            /\ IF current < Len(filing.reports)
               THEN current' = current + 1 /\ stage' = "scan"
               ELSE current' = current /\ stage' = "finalize"
            /\ UNCHANGED filing

\* The same-report references of a report resolve.
Integrity(r) ==
    LET ids(rows) == [i \in DOMAIN rows |-> rows[i].id]
    IN  /\ ~Repeated(ids(r.contexts)) /\ ~Repeated(ids(r.units))
        /\ \A i \in DOMAIN r.facts :
              /\ r.facts[i].concept \in r.concepts
              /\ Contains(ids(r.contexts), r.facts[i].context)
              /\ r.facts[i].unit = None \/ Contains(ids(r.units), r.facts[i].unit)
        /\ \A i \in DOMAIN r.resources : r.resources[i].from \in r.concepts
        /\ \A i \in DOMAIN r.relationships :
              {r.relationships[i].from, r.relationships[i].to} \subseteq r.concepts
        /\ \A i \in DOMAIN r.measures : Contains(ids(r.units), r.measures[i].unit)
        /\ \A i \in DOMAIN r.dimensions :
              /\ r.dimensions[i].dim \in r.concepts
              /\ r.dimensions[i].kind = "explicit" => r.dimensions[i].member \in r.concepts

\* The slip: the parent's raw count is not compared with the worker's.
Accepts_Slip(i) == reports[i].arelleItems = Len(reports[i].facts) /\ Integrity(reports[i])

Accepts(i) ==
    /\ reports[i].arelleItems = Len(reports[i].facts)
    /\ InventoryOf(filing, filing.reports[i]).items = reports[i].arelleItems
    /\ Integrity(reports[i])

Finalize ==
    /\ stage = "finalize"
    /\ stage' = IF \A i \in DOMAIN reports : Accepts(i) THEN "accepted" ELSE "failed"
    /\ UNCHANGED <<filing, current, issues, tables, reports>>

ExtractionNext ==
    \/ TakeInventory \/ ScanConcepts \/ ProjectContexts \/ ProjectUnits \/ ProjectFacts
    \/ ProjectRelationships \/ RetainConcepts \/ ReadDiagnostics \/ Assemble \/ Finalize

ExtractionSpec == ExtractionInit /\ [][ExtractionNext]_extractionVars

---------------------------------------------------------------------------
(* Properties. *)

FiledIn(r) == Filed(filing, Members(filing, filing.reports[r]), "items")
FiledOf(r, kind) == Filed(filing, Members(filing, filing.reports[r]), kind)
Accepted == stage = "accepted"

(* Every value is of its kind, and the parent finalises a report of each input. *)
ExtractionTypeOK ==
    /\ stage \in {"idle", "inventory", "scan", "contexts", "units", "facts", "networks",
                  "concepts", "diagnostics", "assemble", "finalize", "accepted", "failed"}
    /\ \A i \in issues : i.severity \in {"fatal", "warning", "info"}
    /\ stage = "finalize" => Len(reports) = Len(filing.reports)

(* An accepted filing has one report for each of its inputs, and each report has the items of
   its target that its documents file, all of them, in document order, each with its own place
   and concept and with the one context and unit of that id: whatever Arelle left out or merged
   (extract.py _fact_records, source_extract.py _finalize_report_outcome, _check_id_collisions). *)
NothingFiledIsLost ==
    Accepted =>
        /\ Len(reports) = Len(filing.reports)
        /\ \A r \in DOMAIN reports :
              LET filed == Selection(FiledIn(r), LAMBDA x : x.is.target = DefaultTarget)
                  only(kind, id) == Cardinality({k \in DOMAIN FiledOf(r, kind) :
                                        FiledOf(r, kind)[k].is.id = id}) = 1
              IN  /\ Len(filed) = Len(reports[r].facts)
                  /\ \A i \in DOMAIN filed :
                        LET fact == reports[r].facts[i] IN
                        /\ fact.order = i - 1 /\ fact.at = filed[i].at
                        /\ fact.concept = filed[i].is.concept
                        /\ fact.context = filed[i].is.context /\ only("contexts", fact.context)
                        /\ fact.unit # None => fact.unit = filed[i].is.unit /\ only("units", fact.unit)
                        /\ (fact.status = "nil") = filed[i].is.nil

\* The rows a context and a unit should have for what they file.
DimensionsOf(x) ==
    [k \in DOMAIN x.is.dims |->
        [context |-> x.is.id, dim |-> x.is.dims[k].dim, kind |-> x.is.dims[k].kind,
         member |-> x.is.dims[k].member]]
MeasuresOf(x) ==
    [k \in 1..(x.is.filed[1] + x.is.filed[2]) |->
        [unit |-> x.is.id,
         side |-> IF k <= x.is.filed[1] THEN "numerator" ELSE "denominator",
         ordinal |-> IF k <= x.is.filed[1] THEN k ELSE k - x.is.filed[1]]]
FiledRows(r, kind, Of(_)) ==
    FlattenSeq([k \in DOMAIN FiledOf(r, kind) |-> Of(FiledOf(r, kind)[k])])

\* What a fact lacks, its status, an issue or the engine's silence accounts for.
IsAccountedFor(fact, item, codes) ==
    /\ fact.value
       \/ fact.status \in {"nil", "invalid", "unresolved"}
       \/ (IF IsNumeric(item) THEN "INEXACT_NUMERIC_VALUE" ELSE "UNSUPPORTED_RESOLVED_VALUE") \in codes
       \/ item.value = "none"
    /\ fact.lexical \/ "UNAVAILABLE_FACT_LEXICAL_VALUE" \in codes \/ item.lexical = "unread"
    /\ fact.status = "unresolved" =>
          item.value = "unresolved" \/ "UNRESOLVED_REQUIRED_UNIT" \in codes
    /\ fact.status = "invalid" => item.value = "invalid"

(* Nothing filed goes without a row: an accepted report has a row for each context, and the
   dimensions, measures and concept relationships that are filed, in their order; and base sets
   that it keeps no rows of are named by an issue.  A fact without a value is nil, invalid or
   unresolved, or an issue says that its value is inexact or not representable; it is unresolved
   only if Arelle or an issue says so; and one without its text has an issue.  Two losses are
   silent in the code and are the only exceptions: an item that Arelle calls valid with no value
   (extract.py:1263, and _resolved_non_numeric of None) and a raw value that is no string
   (extract.py:1237).  No issue of an accepted report is fatal. *)
NothingIsDroppedInSilence ==
    Accepted => \A r \in DOMAIN reports :
        LET report == reports[r]
            codes == {i.code : i \in report.issues}
            filed == Selection(FiledIn(r), LAMBDA x : x.is.target = DefaultTarget)
            rels == FlattenSeq([n \in DOMAIN filing.nets |->
                        IF IsConceptNetwork(filing.nets[n]) THEN filing.nets[n].rels ELSE <<>>])
        IN  /\ Len(report.contexts) = Len(FiledOf(r, "contexts"))
            /\ report.dimensions = FiledRows(r, "contexts", DimensionsOf)
            /\ report.measures = FiledRows(r, "units", MeasuresOf)
            /\ Len(report.relationships) = Len(rels)
            /\ \A i \in DOMAIN rels : /\ report.relationships[i].order = i - 1
                                      /\ report.relationships[i].from = rels[i].from
                                      /\ report.relationships[i].to = rels[i].to
            /\ \A n \in DOMAIN filing.nets :
                  Family(filing.nets[n]) \in IdentityFamilies
                  \/ {"EXCLUDED_ARCROLE", "DEFERRED_ARCROLE", "UNSUPPORTED_ARCROLE"} \cap codes # {}
            /\ \A i \in DOMAIN filed : IsAccountedFor(report.facts[i], filed[i].is, codes)
            /\ \A issue \in report.issues : issue.severity # "fatal"

(* The concepts of an accepted report are closed: what its facts, its dimensions and their
   explicit members, its relationships and its labels name is declared in it, and so is every
   concept of the issuer, used or not (extract.py _compute_base_concepts, integrity.py
   validate_report_extraction). *)
ConceptsAreClosed ==
    Accepted => \A r \in DOMAIN reports :
        LET report == reports[r]
            used == {report.facts[i].concept : i \in DOMAIN report.facts}
                    \cup {report.dimensions[i].dim : i \in DOMAIN report.dimensions}
                    \cup {d.member : d \in {e \in ToSet(report.dimensions) : e.kind = "explicit"}}
                    \cup {rel.from : rel \in ToSet(report.relationships)}
                    \cup {rel.to : rel \in ToSet(report.relationships)}
                    \cup {report.resources[i].from : i \in DOMAIN report.resources}
        IN  /\ used \subseteq report.concepts
            /\ \A i \in DOMAIN filing.dts :
                  filing.dts[i].issuer => filing.dts[i].qname \in report.concepts

(* An inline report gets past the inventory only if the continuations of each of its items are a
   chain that ends, of unique elements, shared with no other item or footnote; and a filing is
   never failed for a chain that is sound (upstream_inventory.py _check_continuation_for_target,
   whose step bound must not cut a chain short). *)
ContinuationsAreChains ==
    stage \notin {"idle", "inventory"} => \A r \in DOMAIN filing.reports :
        LET uris == Members(filing, filing.reports[r])
            roots == Roots(filing, uris)
            mine == {i \in DOMAIN roots : roots[i].target = DefaultTarget}
            sound == \A i \in mine :
                /\ ChainIsSound(filing, uris, roots[i])
                /\ \A j \in DOMAIN roots \ {i} :
                      Following(Conts(filing, uris), roots[i].ref)
                        \cap Following(Conts(filing, uris), roots[j].ref) = {}
        IN  filing.reports[r].kind = "ixds" /\ None \notin Range(uris) =>
                /\ stage # "failed" => sound
                /\ sound <=> ChainFailure(filing, uris) = None

(* An accepted report is coherent: what it names is declared in it, and what was filed in pieces
   was put together from one sound chain. *)
AcceptedIsCoherent == ExtractionTypeOK /\ ConceptsAreClosed /\ ContinuationsAreChains

(* diagnostics.py:55 says of a fact whose transformation failed that the loss of its raw lexical
   content still produces a separate fatal issue, so no accepted report has such a fact. *)
LostLexicalValueIsFatal ==
    Accepted => \A r \in DOMAIN reports : \A i \in DOMAIN reports[r].facts :
        reports[r].facts[i].status = "invalid" => reports[r].facts[i].lexical
=============================================================================
