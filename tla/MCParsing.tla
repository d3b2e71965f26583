----------------------------- MODULE MCParsing ------------------------------
(* Sections and Blocks, each on inputs of its own. *)
EXTENDS Sections, Blocks

PlainBlock == [signature |-> FALSE, part |-> 0, items |-> <<>>, tocText |-> FALSE,
          heading |-> FALSE, bold |-> FALSE, anchor |-> FALSE, short |-> TRUE,
          linkHeavy |-> FALSE, manyLinks |-> FALSE, pageSuffix |-> FALSE]

ItemBlock(t) == [PlainBlock EXCEPT !.items = <<t>>]
AsHeading(b) == [b EXCEPT !.heading = TRUE]
Linked(b) == [b EXCEPT !.linkHeavy = TRUE]
Contents == [PlainBlock EXCEPT !.tocText = TRUE]
Signature == [PlainBlock EXCEPT !.signature = TRUE]

BlocksQ ==
    {[PlainBlock EXCEPT !.part = 1], AsHeading([PlainBlock EXCEPT !.part = 2]), ItemBlock("1"),
     AsHeading(ItemBlock("2")), Linked(ItemBlock("1")), AsHeading(Signature)}
BlocksK ==
    {Contents, ItemBlock("1"),
     [ItemBlock("1a") EXCEPT !.heading = TRUE, !.bold = TRUE, !.anchor = TRUE],
     AsHeading(ItemBlock("2")), [PlainBlock EXCEPT !.items = <<"1a", "2">>], AsHeading(Signature)}

Faint == [ItemBlock("2") EXCEPT !.short = FALSE]

\* Three blocks of any kind, or four and the signature after them.
Of(forms, n, kinds) == forms \X [1..n -> kinds]
Signed(documents) == {<<d[1], Append(d[2], AsHeading(Signature))>> : d \in documents}
MCDocuments ==
    Of({"10-Q"}, 3, BlocksQ \cup {Faint}) \cup Of({"10-K", "10-K/A"}, 3, BlocksK)
    \cup Signed(Of({"10-Q"}, 4, BlocksQ) \cup Of({"10-K"}, 4, BlocksK))

\* Trees of the given shape, with the nodes of one of the sets hidden and one
\* of the sets of texts reading like an Item.
Trees(shapes, hidden, boundary) ==
    {[parent |-> t[1], tag |-> t[2], hidden |-> h, boundary |-> b] :
       t \in shapes, h \in hidden, b \in boundary}

\* The trees of n nodes that are numbered in document order.
Parents(n) ==
    {p \in [1..n -> 0..(n - 1)] :
        \A i \in 1..n : p[i] < i /\ \A j \in 1..(i - 1) : p[i] >= j \/ p[i] <= p[j]}

\* What HTML allows, except that a list may have other children than items.
Fits(up, tag) ==
    /\ tag = "li" => up = "ul"
    /\ tag = "td" <=> up = "tr"
    /\ up = "table" => tag \in {"tr", "div", "span"}
    /\ tag = "tr" => up \in {"table", "div"}
    /\ up \in {"p", "h"} => tag = "span"
Shapes(parents, tags) ==
    {t \in parents \X tags : \A i \in DOMAIN t[1] :
        Fits(IF t[1][i] = 0 THEN "div" ELSE t[2][t[1][i]], t[2][i])}

Tags == {"div", "p", "span", "ul", "li", "table", "tr", "td"}
AnyOf(n, tags) == Shapes(Parents(n), [1..n -> tags])

\* A table with a row of two cells, and n more elements anywhere.
TableWith(n, tags) ==
    Shapes({<<0, 1, 2, 2>> \o p : p \in {q \in [1..n -> 0..(n + 3)] : \A i \in 1..n : q[i] < i + 4}},
           {<<"table", "tr", "td", "td">> \o t : t \in [1..n -> tags]})

MCPages ==
    Trees(AnyOf(4, Tags \ {"tr", "td"}), {{}}, {{}}) \cup Trees(AnyOf(3, Tags), {{1}, {2}, {3}}, {{}})
    \cup Trees(TableWith(1, Tags), {{k} : k \in 1..5}, {{}, {<<4, "text">>}, {<<5, "text">>}})
    \cup Trees(TableWith(3, {"table", "tr", "td", "span"}), {{}, {2}, {5}, {6}}, {{}})
NoPage == [parent |-> <<>>, tag |-> <<>>, hidden |-> {}, boundary |-> {}]

ParsingInit ==
    \/ SectionsInit /\ page = NoPage /\ blocks = <<>> /\ parsed = "refused"
    \/ BlocksInit /\ Attachment

ParsingNext ==
    \/ SectionsNext /\ UNCHANGED blocksVars
    \/ ParseHtml /\ UNCHANGED sectionsVars

=============================================================================
