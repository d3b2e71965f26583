---------------------------- MODULE MCExtraction ----------------------------
(* One whole filing, and every filing that differs from it in one or two    *)
(* ways: what may be filed, how Arelle may load it, what it may log.        *)
EXTENDS Extraction

Context(id) ==
    [id |-> id, period |-> {"instant"}, dated |-> TRUE, entity |-> TRUE, other |-> FALSE,
     dims |-> <<[dim |-> "Axis", kind |-> "explicit", member |-> "Member", inside |-> TRUE]>>]
Unit(id) == [id |-> id, filed |-> <<1, 1>>, resolved |-> <<1, 1>>]
Item(kind, concept, context, unit) ==
    [target |-> DefaultTarget, kind |-> kind, concept |-> concept, context |-> context,
     unit |-> unit, cont |-> None, nil |-> FALSE, value |-> "exact", lexical |-> "text",
     attributes |-> {}, loaded |-> TRUE, inTuple |-> FALSE]
Document(uri, root) ==
    [wellFormed |-> TRUE, root |-> root, seenAs |-> uri, contexts |-> <<Context("c1")>>,
     units |-> <<>>, items |-> <<>>, conts |-> <<>>, notes |-> <<>>]
Concept(qname, issuer) ==
    [qname |-> qname, issuer |-> issuer, uri |-> "xsd", at |-> <<"xsd", "concept", 1>>]
Rel(from, to) ==
    [role |-> TRUE, arc |-> TRUE, uri |-> "xsd", at |-> <<"xsd", "arc", 1>>, from |-> from,
     to |-> to, attributes |-> {}, parts |-> TRUE]
Net(arcrole, rels) ==
    [arcrole |-> arcrole, definitionLink |-> FALSE, named |-> TRUE, loads |-> TRUE, rels |-> rels]

Ixds(uris) == [kind |-> "ixds", uris |-> uris]
Instance(uri) == [kind |-> "instance", uris |-> <<uri>>]

Whole ==
    [bound |-> {"d1", "d2", "d3", "xsd"}, aliases |-> {<<"a1", "d1">>},
     docs |-> [u \in {"d1", "d2", "d3"} |->
        CASE u = "d1" ->
                [Document("d1", "html") EXCEPT
                    !.units = <<Unit("u1")>>,
                    !.items = <<Item("numeric", "Cash", "c1", "u1"),
                                [Item("text", "Policy", "c2", None) EXCEPT !.cont = "k1"]>>,
                    !.conts = <<[id |-> "k1", next |-> "k2"]>>]
          [] u = "d2" ->
                [Document("d2", "html") EXCEPT
                    !.contexts = <<Context("c2")>>,
                    !.items = <<[Item("text", "Policy", "c1", None) EXCEPT !.target = "other"],
                                Item("numeric", "Cash", "c2", "u1")>>,
                    !.conts = <<[id |-> "k2", next |-> None], [id |-> "k3", next |-> None]>>,
                    !.notes = <<"k3">>]
          [] OTHER ->
                [Document("d3", "xbrl") EXCEPT
                    !.items = <<Item("text", "Policy", "c1", None)>>]],
     reports |-> <<Ixds(<<"d1", "d2">>)>>,
     dts |-> <<Concept("Cash", FALSE), Concept("Policy", FALSE), Concept("Axis", FALSE),
               Concept("Member", FALSE), Concept("Spare", FALSE), Concept("Own", TRUE)>>,
     nets |-> <<Net("parent-child", <<Rel("Policy", "Cash")>>),
                Net("concept-label", <<Rel("Cash", "concept-label"), Rel("Spare", "concept-label")>>)>>,
     log |-> <<[level |-> "INFO", code |-> "info"]>>]

TheDim == Context("c1").dims[1]

\* What the first context may file.
ContextEdits(f) ==
    {[f EXCEPT !.docs["d1"].contexts = <<c>>] : c \in
        {[Context("c1") EXCEPT !.period = p] : p \in {{}, {"start"}, {"forever"}, {"instant", "start"}}}
        \cup {[Context("c1") EXCEPT !.period = {"start", "end"}, !.dated = FALSE],
              [Context("c1") EXCEPT !.entity = FALSE], [Context("c1") EXCEPT !.other = TRUE],
              [Context("c1") EXCEPT !.id = None]}
        \cup {[Context("c1") EXCEPT !.dims = <<d>>] : d \in
                {[TheDim EXCEPT !.inside = FALSE], [TheDim EXCEPT !.member = None],
                 [TheDim EXCEPT !.dim = None], [TheDim EXCEPT !.dim = "Undeclared"],
                 [TheDim EXCEPT !.member = "Undeclared"],
                 [TheDim EXCEPT !.kind = "typed", !.member = "xml"]}}}

\* What the first item may be, and what Arelle may make of it.
ItemEdits(f) ==
    {[f EXCEPT !.docs["d1"].items[1] = x] : x \in
        LET item == Item("numeric", "Cash", "c1", "u1") IN
        {[item EXCEPT !.loaded = FALSE], [item EXCEPT !.concept = "Undeclared"],
         [item EXCEPT !.concept = "Bare"], [item EXCEPT !.context = "c9"],
         [item EXCEPT !.unit = "u9"], [item EXCEPT !.kind = "text"], [item EXCEPT !.nil = TRUE],
         [item EXCEPT !.lexical = "unavailable"], [item EXCEPT !.lexical = "unread"],
         [item EXCEPT !.kind = "fraction"],
         [item EXCEPT !.inTuple = TRUE], [item EXCEPT !.target = "other"],
         [item EXCEPT !.value = "invalid", !.lexical = "unavailable"],
         [item EXCEPT !.attributes = {"INVALID_INLINE_SCALE"}],
         [item EXCEPT !.kind = "text", !.unit = None, !.value = "inexact"],
         [item EXCEPT !.kind = "text", !.unit = None, !.value = "none"]}
        \cup {[item EXCEPT !.value = v] : v \in {"inexact", "none", "invalid", "unresolved"}}}

\* The documents, their units and continuations, and the names they go by.
DocumentEdits(f) ==
    {[f EXCEPT !.docs["d1"].seenAs = u] : u \in {"a1", Surrogate}}
    \cup {[f EXCEPT !.docs["d2"].seenAs = "other"], [f EXCEPT !.docs["d2"].wellFormed = FALSE],
          [f EXCEPT !.docs["d2"].contexts = <<Context("c1")>>],
          [f EXCEPT !.docs["d2"].contexts = <<Context("c2"), Context("c2")>>],
          [f EXCEPT !.docs["d2"].units = <<Unit("u1")>>],
          [f EXCEPT !.docs["d2"].units = <<[Unit("u2") EXCEPT !.id = None]>>],
          [f EXCEPT !.docs["d1"].units[1].resolved = <<1, 0>>],
          [f EXCEPT !.docs["d2"].notes = <<"k2">>], [f EXCEPT !.docs["d2"].notes = <<"k1", "k1">>],
          [f EXCEPT !.docs["d2"].items[1].cont = "k2"], [f EXCEPT !.docs["d2"].items[1].cont = "k9"],
          [f EXCEPT !.docs["d2"].items[2].cont = "k3"]}
    \cup {[f EXCEPT !.docs["d1"].conts = c] : c \in
            {<<>>, <<[id |-> "k1", next |-> "k1"]>>, <<[id |-> "k1", next |-> "k3"]>>,
             <<[id |-> "k1", next |-> "k2"], [id |-> "k2", next |-> "k1"]>>}}
    \cup {[f EXCEPT !.docs["d2"].conts[1].next = "k1"], [f EXCEPT !.docs["d2"].conts[1].next = "k3"]}

ReportEdits(f) ==
    {[f EXCEPT !.reports = r] : r \in
        {<<Ixds(<<"a1", "d2">>)>>, <<Ixds(<<"a1", "d1">>)>>, <<Ixds(<<"d1", "d9">>)>>,
         <<Instance("d3")>>, <<Instance("d9")>>, <<Instance("d1")>>,
         <<Ixds(<<"d1", "d2">>), Instance("d3")>>, <<Ixds(<<"d1", "d2">>), Ixds(<<"d1", "d2">>)>>}}
    \cup {[f EXCEPT !.reports = <<Instance("d3")>>, !.docs["d3"].items[1].kind = k,
                    !.docs["d3"].items[1].inTuple = t] : k \in {"text", "fraction"}, t \in BOOLEAN}

TaxonomyEdits(f) ==
    {[f EXCEPT !.dts = Append(@, c)] : c \in
        {[Concept("Cash", FALSE) EXCEPT !.at = <<"xsd", "concept", 2>>], Concept(None, FALSE),
         Concept("Bare", FALSE), [Concept("Far", TRUE) EXCEPT !.uri = "other"]}}
    \cup {[f EXCEPT !.nets = Append(@, n)] : n \in
            {Net(a, <<Rel("Cash", "Own")>>) : a \in
                {"summation-item", "domain-member", "fact-footnote", "deferred", "custom"}}
            \cup {[Net("custom", <<Rel("Cash", "Own")>>) EXCEPT !.definitionLink = TRUE],
                  [Net("custom", <<>>) EXCEPT !.loads = FALSE],
                  Net("concept-reference", <<[Rel("Cash", "concept-reference") EXCEPT !.parts = FALSE]>>)}}
    \cup {[f EXCEPT !.nets[1] = n] : n \in
            LET net == Net("parent-child", <<Rel("Policy", "Cash")>>) IN
            {[net EXCEPT !.named = FALSE], [net EXCEPT !.loads = FALSE],
             [net EXCEPT !.rels[1].role = FALSE], [net EXCEPT !.rels[1].arc = FALSE],
             [net EXCEPT !.rels[1].uri = "other"], [net EXCEPT !.rels[1].to = None],
             [net EXCEPT !.rels[1].attributes = {"INVALID_ARC_ORDER"}]}}
    \cup {[f EXCEPT !.nets[2].rels[1] = r] : r \in
            {[Rel("Cash", "concept-label") EXCEPT !.arc = FALSE], Rel("Cash", "other"),
             Rel("Undeclared", "concept-label")}}
    \cup {[f EXCEPT !.log = <<[level |-> l, code |-> c]>>] : l \in {"ERROR", "INFO"},
              c \in {"invalidTransformation", "UNSTRUCTURED"}}

Edits(f) ==
    ContextEdits(f) \cup ItemEdits(f) \cup DocumentEdits(f) \cup ReportEdits(f) \cup TaxonomyEdits(f)

\* One edit, or one of the filed values and one of what surrounds them.
Surroundings(f) == DocumentEdits(f) \cup ReportEdits(f) \cup TaxonomyEdits(f)
MCFilings ==
    {Whole} \cup Edits(Whole)
    \cup UNION {Surroundings(f) : f \in ContextEdits(Whole) \cup ItemEdits(Whole)}
    \cup UNION {DocumentEdits(f) \cup ReportEdits(f) : f \in DocumentEdits(Whole)}
=============================================================================
