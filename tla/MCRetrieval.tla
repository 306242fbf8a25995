----------------------------- MODULE MCRetrieval -----------------------------
EXTENDS Retrieval

CONSTANTS d1, d2, d3

(* The third document is called "v1.2". *)
MCNameOf ==
  [d \in Doc |-> CASE d = d1 -> Segment("report", "")
                   [] d = d2 -> Segment("guide", "")
                   [] d = d3 -> Segment("v1", "2")]

Heading(level) == [id |-> 0, level |-> level, size |-> 1, copy |-> FALSE]
Paragraph(size) == [id |-> 0, level |-> 0, size |-> size, copy |-> FALSE]
Page(converted, paragraphs) == [converted |-> converted, text |-> paragraphs]
OnePage(paragraphs) == <<Page(TRUE, paragraphs)>>

LongHeading == [Heading(1) EXCEPT !.size = 3]

(* Texts with and without headings, sections that are merged, split at their
   subheadings or by length, one whose title takes more than its share of the
   section, and pages that the model failed on. *)
MCPages ==
  [d \in Doc |->
     IF d = d1
     THEN {OnePage(<<Paragraph(2)>>),
           OnePage(<<Heading(1), Paragraph(1), Heading(2), Paragraph(2), Heading(2), Paragraph(3)>>),
           OnePage(<<Heading(2), Paragraph(2), Heading(3), Paragraph(2)>>),
           OnePage(<<Heading(2), Heading(3), Paragraph(1), Heading(3), Paragraph(4)>>),
           OnePage(<<Paragraph(1), LongHeading, Paragraph(3)>>),
           <<Page(TRUE, <<Heading(2), Paragraph(3)>>), Page(FALSE, <<Paragraph(7)>>)>>,
           <<Page(FALSE, <<Paragraph(2)>>)>>}
     ELSE {OnePage(<<Paragraph(2)>>)}]

(* A plain path, one that looks like a second path of the same name, and one of
   which nothing is left; for the second document, one that ends in ".md" and one
   behind its own name that ends in what looks like a file's extension; for the
   third, one that leads out of it. *)
MCLabel ==
  [d \in Doc |->
     IF d = d1
     THEN {<<Segment("a", "")>>, <<Parent>>,
           <<Empty, Segment(".", ""), [Segment("a", "") EXCEPT !.no = <<2>>]>>}
     ELSE IF d = d2 THEN {<<Segment("b", "md")>>, <<MCNameOf[d2], Segment("a", "2")>>}
     ELSE {<<Parent, Segment("b", "")>>}]

(* A title with slashes around a word, and one of which nothing is left. *)
MCTitles ==
  [d \in Doc |-> IF d = d1 THEN {<<Empty, Segment("api", ""), Empty>>} ELSE {<<Empty>>}]

MCRefsOf ==
  [d \in Doc |-> IF d # d3 THEN {} ELSE {<<Segment("..", ""), Segment("other", "pdf")>>}]

MCVersions == [d \in Doc |-> IF d = d2 THEN 2 ELSE 1]
=============================================================================
