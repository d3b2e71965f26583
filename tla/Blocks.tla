------------------------------- MODULE Blocks -------------------------------
(***************************************************************************)
(* Reading order blocks of an HTML document (parsing/html.py).             *)
(*                                                                         *)
(* A page is a tree over the nodes 0..n; node 0 is the body.  Its texts    *)
(* are <<n, "text">>, before the first child of n, and <<n, "tail">>,      *)
(* after n; they are opaque and never blank.  Line breaks are white space. *)
(* A tag stands for its class: "h" for headings, "p" for p and pre, "ul"   *)
(* for lists, "td" for cells, "div" for the other structural containers,   *)
(* "span" for everything inline, a caption too.                            *)
(*                                                                         *)
(* A definition Op_Slip is Op with a plausible slip; it is not part of the *)
(* model and shows that a property notices the slip.                       *)
(***************************************************************************)
EXTENDS Integers, Sequences, FiniteSets, SequencesExt

CONSTANT Pages      \* the pages considered: [parent, tag, hidden, boundary]

VARIABLES page, blocks, parsed
blocksVars == <<page, blocks, parsed>>

Nodes == {0} \cup DOMAIN page.parent
Tag(n) == IF n = 0 THEN "div" ELSE page.tag[n]
Kids(n) == SelectSeq([k \in DOMAIN page.parent |-> k], LAMBDA k : page.parent[k] = n)

\* _is_hidden: a script, an attribute, a style, an Inline XBRL header.
IsHidden(n) == n \in page.hidden

TextOf(n) == <<<<n, "text">>>>
TailOf(n) == <<<<n, "tail">>>>

Concat(seqs) == FoldLeft(\o, <<>>, seqs)

\* _element_text_content: all visible text below a node.
RECURSIVE TextContent(_)
TextContent(n) ==
    IF IsHidden(n) THEN <<>>
    ELSE TextOf(n) \o Concat([i \in DOMAIN Kids(n) |-> TextContent(Kids(n)[i]) \o TailOf(Kids(n)[i])])

\* All the elements below a node, in document order.
RECURSIVE Below(_)
Below(n) == Concat([i \in DOMAIN Kids(n) |-> <<Kids(n)[i]>> \o Below(Kids(n)[i])])

\* .//tr, also those of tables nested in n, and the cells of a row.
Rows(n)  == SelectSeq(Below(n), LAMBDA k : Tag(k) = "tr")
Cells(r) == SelectSeq(Kids(r), LAMBDA k : Tag(k) = "td")

\* _table_is_layout: a text that reads like an Item, a Part or signatures,
\* at most one column, or blocks inside.
IsLayout(n) ==
    \/ Range(TextContent(n)) \cap page.boundary # {}
    \/ \A r \in Range(Rows(n)) : Len(Cells(r)) <= 1
    \/ \E k \in Range(Below(n)) : Tag(k) \in {"p", "ul", "h"}

\* _table_text: the cells of all rows, row by row.
TableText(n) ==
    Concat([i \in DOMAIN Rows(n) |->
        LET cells == Cells(Rows(n)[i])
        IN  Concat([j \in DOMAIN cells |-> TextContent(cells[j])])])

DescendsAsBlock(n) == Tag(n) \in {"p", "h", "ul", "li", "table", "tr", "td", "div"}

\* The text of a list item without the lists nested directly in it.
ItemText(n) ==
    TextOf(n) \o Concat([i \in DOMAIN Kids(n) |->
        LET k == Kids(n)[i] IN (IF Tag(k) = "ul" THEN <<>> ELSE TextContent(k)) \o TailOf(k)])

Emitted(bs, kind, text, parent) == Append(bs, [kind |-> kind, text |-> text, parent |-> parent])
EmittedIfAny(bs, kind, text, parent) ==
    IF text = <<>> THEN bs ELSE Emitted(bs, kind, text, parent)

\* The uncovered text collected so far becomes a block of its own.
Flush_Slip(acc, parent) == [bs |-> EmittedIfAny(acc.bs, "paragraph", acc.buffer, parent),
                            buffer |-> acc.buffer]
Flush(acc, parent) == [bs |-> EmittedIfAny(acc.bs, "paragraph", acc.buffer, parent),
                       buffer |-> <<>>]

\* walk and _walk_container.  Collect is collect_inline_into_buffer, and
\* Inside what it does with one child; a block inside an inline element
\* interrupts the text around it.
RECURSIVE Walk(_, _, _), Collect(_, _, _), Inside(_, _, _)
Inside(acc, k, parent) ==
    LET after == IF DescendsAsBlock(k)
                 THEN LET flushed == Flush(acc, parent)
                      IN  [flushed EXCEPT !.bs = Walk(k, parent, @)]
                 ELSE Collect(acc, k, parent)
    IN  [after EXCEPT !.buffer = @ \o TailOf(k)]
Collect(acc, n, parent) ==
    IF IsHidden(n) THEN acc
    ELSE FoldLeft(LAMBDA a, k : Inside(a, k, parent),
                  [acc EXCEPT !.buffer = @ \o TextOf(n)], Kids(n))

Container(n, parent, bs) ==
    LET OneChild(a, k) == IF IsHidden(k) THEN [a EXCEPT !.buffer = @ \o TailOf(k)]
                          ELSE Inside(a, k, parent)
    IN  Flush(FoldLeft(OneChild, [bs |-> bs, buffer |-> TextOf(n)], Kids(n)), parent).bs

Each(Op(_, _), bs, nodes) == FoldLeft(LAMBDA b, k : Op(k, b), bs, nodes)

Walk(n, parent, bs) ==
    IF IsHidden(n) THEN bs
    ELSE CASE Tag(n) \in {"h", "p"} ->
                EmittedIfAny(bs, IF Tag(n) = "h" THEN "heading" ELSE "paragraph",
                             TextContent(n), parent)
           [] Tag(n) = "ul" ->
                Each(LAMBDA k, b : Walk(k, Len(bs), b), Emitted(bs, "list", <<>>, parent),
                     SelectSeq(Kids(n), LAMBDA k : Tag(k) = "li"))
           [] Tag(n) = "li" ->
                Each(LAMBDA k, b : Walk(k, Len(bs), b),
                     Emitted(bs, "list_item", ItemText(n), parent),
                     SelectSeq(Kids(n), LAMBDA k : Tag(k) = "ul"))
           [] Tag(n) = "table" ->
                IF IsLayout(n) THEN Each(LAMBDA k, b : Walk(k, parent, b), bs, Kids(n))
                ELSE EmittedIfAny(bs, "table", TableText(n), parent)
           [] OTHER -> Container(n, parent, bs)

Meaningful(bs) == \E i \in DOMAIN bs : bs[i].text # <<>> \/ bs[i].kind = "list"

BlocksInit == page \in Pages /\ blocks = <<>> /\ parsed = "no"

\* parse_html_document; a page without a meaningful block is refused.
ParseHtml ==
    /\ parsed = "no"
    /\ LET bs == Walk(0, -1, <<>>)
       IN  IF Meaningful(bs) THEN blocks' = bs /\ parsed' = "yes"
           ELSE UNCHANGED blocks /\ parsed' = "refused"
    /\ UNCHANGED page

-----------------------------------------------------------------------------

\* Where a text stands in the document.
RECURSIVE Everything(_)
Everything(n) ==
    TextOf(n) \o Concat([i \in DOMAIN Kids(n) |-> Everything(Kids(n)[i]) \o TailOf(Kids(n)[i])])

\* The elements around a node, itself included.
RECURSIVE Around(_)
Around(n) == {n} \cup (IF n = 0 THEN {} ELSE Around(page.parent[n]))

\* The elements that walk and _walk_container get to.  What is below a
\* paragraph, a heading or a data table is taken as a whole, and of a list
\* and a list item only the items and the lists in them are looked at.
RECURSIVE Reached(_)
Reached(n) ==
    \/ n = 0
    \/ LET m == page.parent[n]
       IN  /\ Reached(m) /\ ~IsHidden(m)
           /\ CASE Tag(m) \in {"p", "h"} -> FALSE
                [] Tag(m) = "ul"         -> Tag(n) = "li"
                [] Tag(m) = "li"         -> Tag(n) = "ul"
                [] Tag(m) = "table"      -> IsLayout(m)
                [] OTHER                 -> TRUE

\* The element that a text is in, and the last one around it that is reached.
Host(t) == IF t[2] = "text" THEN t[1] ELSE page.parent[t[1]]
Taker(t) ==
    CHOOSE w \in Around(Host(t)) : /\ Reached(w)
                                   /\ \A k \in Around(Host(t)) : Reached(k) => k \in Around(w)

\* Nothing hides the text from the element n around it.
Shown(t, n) == \A k \in Around(Host(t)) : n \in Around(k) => ~IsHidden(k)

\* How often a text is told: as often as there are cells of the data table
\* around it that show it; not if it is directly in a list or in a layout
\* table, or in a list outside of its items; otherwise once, if it is shown.
TimesTold(t) ==
    LET w == Taker(t)
    IN  CASE IsHidden(w) -> 0
          [] Tag(w) = "ul" -> 0
          [] Tag(w) = "table" ->
               IF IsLayout(w) THEN 0
               ELSE Cardinality({c \in Around(Host(t)) \ {w} :
                      /\ w \in Around(c) /\ Tag(c) = "td" /\ Tag(page.parent[c]) = "tr"
                      /\ Shown(t, c)})
          [] OTHER -> IF Shown(t, w) THEN 1 ELSE 0

\* Every text of the page is in the blocks as often as its place in the page
\* says: walk, _walk_container and the inline collector share the work
\* without a gap or an overlap.  A visible text is there once, with these
\* exceptions, all of them what the code does: the text of a table nested in
\* a data table is repeated for each cell around it; a caption, and whatever
\* is in a table outside of its cells, is left out; the text directly in a
\* list, and in children of a list that are no items, is left out.  A hidden
\* text is left out, except that a data table tells the cells of its hidden
\* rows and of the hidden tables nested in it (_table_text).
TextIsKept ==
    parsed = "yes" =>
        LET texts == Concat([i \in DOMAIN blocks |-> blocks[i].text])
        IN  \A t \in Range(Everything(0)) :
              Cardinality({i \in DOMAIN texts : texts[i] = t}) = TimesTold(t)

\* Blocks come in the order of the document, and a nested block after the
\* list or item it belongs to.
BlocksFollowTheDocument ==
    LET order == Everything(0)
        place(t) == CHOOSE i \in DOMAIN order : order[i] = t
        texts == SelectSeq(blocks, LAMBDA b : b.text # <<>>)
    IN  /\ \A i, j \in DOMAIN texts : i < j => place(texts[i].text[1]) < place(texts[j].text[1])
        /\ \A i \in DOMAIN blocks : blocks[i].parent # -1 =>
             blocks[i].parent < i - 1 /\ blocks[blocks[i].parent + 1].kind \in {"list", "list_item"}

\* The blocks are the text of the page, each piece as often as its place in
\* the page says, and in order.
BlocksAreThePage == TextIsKept /\ BlocksFollowTheDocument
=============================================================================
