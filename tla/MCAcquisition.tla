--------------------------- MODULE MCAcquisition ----------------------------
(* One filing that fits its budget to the byte, and the filings that       *)
(* differ from it in one way, or in one way and the size of a file.        *)
EXTENDS Acquisition, TLC

MCNames == {"acc.txt", "main.htm", "note.htm", "fee.htm", "R1.htm", "data.xml", "main_htm.xml"}
MCKindOf ==
  ("acc.txt" :> "complete" @@ "main.htm" :> "plain" @@ "note.htm" :> "plain" @@ "fee.htm" :> "plain"
    @@ "R1.htm" :> "rendering" @@ "data.xml" :> "plain" @@ "main_htm.xml" :> "sec_xbrl")
MCRank ==
  ("R1.htm" :> 1 @@ "acc.txt" :> 2 @@ "data.xml" :> 3 @@ "fee.htm" :> 4 @@ "main.htm" :> 5
    @@ "main_htm.xml" :> 6 @@ "note.htm" :> 7)

Row(name, type) == [name |-> name, type |-> type, described |-> FALSE]
Doc(name, type) == [name |-> name, type |-> type]
Listed == [form |-> "10-K", primary |-> "main.htm", dated |-> TRUE]

Whole ==
  [blocks |-> <<None, Listed>>, blockSize |-> 3,
   listing |-> <<"acc.txt", "main.htm", "note.htm", "R1.htm">>,
   rows |-> <<Row("main.htm", "10-K"), Row("note.htm", "EX-13")>>,
   sgml |-> <<Doc("main.htm", "10-K"), Doc("note.htm", "EX-13")>>,
   size |-> [p \in MCNames \union {"discovery.json", "index.json", "index.html", "index-headers", "ext"} |->
               IF p = "acc.txt" THEN 3
               ELSE IF p \in {"fee.htm", "data.xml", "main_htm.xml"} THEN 0 ELSE 1],
   content |-> [n \in MCNames |-> IF n \in {"main.htm", "note.htm", "fee.htm"} THEN "inline"
                                  ELSE IF n \in {"data.xml", "main_htm.xml"} THEN "instance"
                                  ELSE "other"],
   externals |-> {"ext"}]

MetadataEdits(f) ==
  {[f EXCEPT !.blocks = b] : b \in {<<Listed>>, <<None, None>>, <<Listed, None>>}}
    \union {[f EXCEPT !.blocks[2] = r] : r \in {[Listed EXCEPT !.form = "8-K"],
              [Listed EXCEPT !.primary = None], [Listed EXCEPT !.dated = FALSE],
              [Listed EXCEPT !.primary = "R1.htm"], [Listed EXCEPT !.primary = "data.xml"]}}

SizeEdits(f) ==
  {[f EXCEPT !.blockSize = 4], [f EXCEPT !.externals = {}]}
    \union {[f EXCEPT !.size[p] = n] : p \in {"discovery.json", "index.html", "note.htm", "ext"}, n \in {0, 2, 4}}
    \union {[f EXCEPT !.size["main.htm"] = 3, !.size["R1.htm"] = 0]}

Adding(f, name) == [f EXCEPT !.listing = Append(@, name)]

DirectoryEdits(f) ==
  {[f EXCEPT !.listing = l] : l \in
      {<<"acc.txt", "main.htm", "R1.htm">>, <<"main.htm", "note.htm">>, <<"acc.txt", "note.htm">>,
       <<"acc.txt", "main.htm", "note.htm", "main.htm">>}}
    \union {Adding(f, n) : n \in {"fee.htm", "data.xml", "main_htm.xml"}}

InventoryEdits(f) ==
  {[f EXCEPT !.rows[2].type = t] : t \in {None, "EX-99", "EX-FILING FEES", "GRAPHIC"}}
    \union {[f EXCEPT !.sgml[2].type = t] : t \in {None, "EX-99", "EX-FILING FEES"}}
    \union {[f EXCEPT !.rows = Append(@, r)] : r \in {Row("note.htm", "EX-13"), Row("main.htm", "EX-1"),
              [Row("R1.htm", None) EXCEPT !.described = TRUE], Row("acc.txt", "10-K"), Row("fee.htm", "EX-2")}}
    \union {[f EXCEPT !.sgml = Append(@, d)] : d \in {Doc("note.htm", "EX-13"), Doc(None, "EX-2"),
              Doc("fee.htm", "EX-2")}}
    \union {[f EXCEPT !.rows = SubSeq(@, 1, 1)], [f EXCEPT !.sgml = SubSeq(@, 1, 1)],
            [f EXCEPT !.rows = SubSeq(@, 1, 1), !.sgml = SubSeq(@, 1, 1)],
            [f EXCEPT !.rows = SubSeq(@, 1, 1), !.sgml[2].type = None]}

Fees(f) == [Adding(f, "fee.htm") EXCEPT !.rows = Append(@, Row("fee.htm", "EX-FILING FEES")),
                                        !.sgml = Append(@, Doc("fee.htm", "EX-FILING FEES"))]

Traditional(f) ==
  LET plain == [f EXCEPT !.content["main.htm"] = "other"]
      with(g, n) == [Adding(g, n) EXCEPT !.rows = Append(@, Row(n, "EX-101.INS")),
                                         !.sgml = Append(@, Doc(n, "EX-101.INS"))]
  IN  {plain, with(plain, "data.xml"), with(plain, "main_htm.xml"),
       with(with(plain, "data.xml"), "main_htm.xml"),
       [with(plain, "data.xml") EXCEPT !.content["note.htm"] = "instance", !.rows[2].type = "EX-101.INS",
                                       !.sgml[2].type = "EX-101.INS"]}

Edits(f) ==
  MetadataEdits(f) \union SizeEdits(f) \union DirectoryEdits(f) \union InventoryEdits(f)
    \union Traditional(f) \union {Fees(f)}

MCSites == {Whole} \union Edits(Whole)
             \union UNION {Edits(Adding(f, "fee.htm")) : f \in {Whole}}
=============================================================================
