------------------------------- MODULE Retrieval -------------------------------
(***************************************************************************)
(* How a question finds the chunks of documents (retrieval.repository.ts,   *)
(* retrieval.service.ts, resource-selection.service.ts,                     *)
(* resource-content.service.ts), while documents are published, hidden and  *)
(* processed again.                                                         *)
(*                                                                         *)
(* A turn lists the catalogue, lets the model choose among its chunks, reads *)
(* the chosen ones by their paths and cites the documents they are from.    *)
(* These are separate calls: the documents may change between any two.      *)
(***************************************************************************)
EXTENDS PdfPipeline

CONSTANTS
  Doc,           \* documents
  NameOf,        \* resource_name, as a segment
  Pages,         \* the page texts that a document may have
  Label,         \* the paths that the model may propose for a section
  Titles,        \* the titles that its sections may have
  RefsOf,        \* the PDFs and images that the chunks of a document refer to
  MaxSelected,   \* how many chunks are selected, and cited, at most
  MaxExtras,     \* how many references are cited, at most
  MaxSections,   \* bound: longer documents are only split
  Versions       \* bound on how often a document is processed

ASSUME RetrievalAssumption ==
  /\ {MaxSelected, MaxExtras, MaxSections} \subseteq Nat /\ Versions \in [Doc -> Nat]
  /\ IsFiniteSet(Doc) /\ NameOf \in [Doc -> Segments]
  /\ \A d, e \in Doc : NameOf[d] = NameOf[e] => d = e
  /\ \A d \in Doc : /\ Pages[d] \subseteq Seq(PageTexts) /\ Label[d] \subseteq Seq(Segments)
                    /\ Titles[d] \subseteq Seq(Words) \ {<<>>}

VARIABLES
  text,       \* the Markdown of a document that was processed
  version,    \* how often it was
  chunks,     \* document_chunks, in the order of sort_order
  visible,    \* documents that are ready, active and not expired
  turn,       \* what the turn is doing
  catalogue,  \* the chunk paths that it has listed, by document
  selected,   \* the paths it reads, in order
  used,       \* the chunks whose contents went to the model
  cited       \* the PDFs named to the reader

docVars == <<text, version, chunks, visible>>
turnVars == <<turn, catalogue, selected, used, cited>>
vars == <<docVars, turnVars>>

NoCatalogue == [d \in Doc |-> <<>>]

Init ==
  /\ text = [d \in Doc |-> <<>>]
  /\ version = [d \in Doc |-> 0]
  /\ chunks = [d \in Doc |-> <<>>]
  /\ visible = {}
  /\ turn = "idle" /\ catalogue = NoCatalogue /\ selected = <<>> /\ used = <<>> /\ cited = {}

-----------------------------------------------------------------------------
(* processPdf and the publication of what it made (DocumentQueue).  Which of the
   document's titles a section has is left open. *)
Process(d) ==
  /\ version[d] < Versions[d]
  /\ \E pages \in Pages[d] :
       /\ WithinFailureLimit(pages)
       /\ Len(SectionsOf(Combined(pages))) \in 1 .. MaxSections
       /\ \E labels \in [DOMAIN SectionsOf(Combined(pages)) -> Label[d]],
             titles \in [DOMAIN SectionsOf(Combined(pages)) -> Titles[d]] :
            chunks' = [chunks EXCEPT ![d] = Assemble(NameOf[d], SectionsOf(Combined(pages)), labels, titles)]
       /\ text' = [text EXCEPT ![d] = Combined(pages)]
  /\ version' = [version EXCEPT ![d] = @ + 1]
  /\ visible' = visible \cup {d}
  /\ UNCHANGED turnVars

(* A document expires, is deactivated or is queued again. *)
Hide(d) ==
  /\ d \in visible
  /\ visible' = visible \ {d}
  /\ UNCHANGED <<text, version, chunks, turnVars>>

(* Its expiry is moved. *)
Show(d) ==
  /\ chunks[d] # <<>> /\ d \notin visible
  /\ visible' = visible \cup {d}
  /\ UNCHANGED <<text, version, chunks, turnVars>>

-----------------------------------------------------------------------------
PathsOf(d) == [n \in DOMAIN chunks[d] |-> chunks[d][n].path]

(* listReadyWithChunks and listCatalog *)
ListCatalog ==
  /\ turn = "idle"
  /\ catalogue' = [d \in Doc |-> IF d \in visible THEN PathsOf(d) ELSE <<>>]
  /\ turn' = "select"
  /\ UNCHANGED <<docVars, selected, used, cited>>

(* buildChunkSelectionCandidates: the chunks below the overview or, if there are
   none, the overview. *)
Root(d) == <<NameOf[d]>>
Details(d) == ToSet(catalogue[d]) \ {Root(d)}
CandidatesOf(d) == IF Details(d) # {} THEN Details(d) ELSE ToSet(catalogue[d])

(* The overviews of the documents chosen from, in the order of the choice, and
   the chosen chunks below them. *)
Overviews(choice) ==
  FoldLeft(LAMBDA roots, p : IF Contains(roots, <<Head(p)>>) THEN roots ELSE Append(roots, <<Head(p)>>),
           <<>>, choice)
Below(choice) == FoldLeft(LAMBDA paths, p : IF Len(p) > 1 THEN Append(paths, p) ELSE paths, <<>>, choice)

(* selectRelevantChunkPaths: the model's choice, with the overviews before it;
   nothing if the call fails or its answer is not a list. *)
Select ==
  /\ turn = "select"
  /\ \E S \in SUBSET UNION {CandidatesOf(d) : d \in Doc} :
       /\ Cardinality(S) <= MaxSelected
       /\ \E choice \in SetToSeqs(S) : selected' = Overviews(choice) \o Below(choice)
  /\ turn' = IF selected' = <<>> THEN "idle" ELSE "fetch"
  /\ catalogue' = IF selected' = <<>> THEN NoCatalogue ELSE catalogue
  /\ UNCHANGED <<docVars, used, cited>>

-----------------------------------------------------------------------------
(* Both functions look at what follows the last dot of a path and take it away:
   stripKnownExtension if it is one of a few extensions, normalizeResourcePath
   if it is up to five letters and digits. *)
KnownSuffix == {"md", "pdf", "png"}
ShortSuffix == KnownSuffix \cup {"2"}

Stripped(path, suffixes) ==
  LET last == path[Len(path)]
  IN IF last.suffix \in suffixes /\ last.no = <<>>
     THEN [path EXCEPT ![Len(path)].suffix = ""]
     ELSE path

(* findChunkContentsByPaths *)
Readable == UNION {ToSet(chunks[d]) : d \in visible}

(* Mutant: visibility is decided when the catalogue is listed. *)
HitsOfCatalogue(path) ==
  {c \in UNION {ToSet(chunks[d]) : d \in Doc} : c.path = path}

(* What getContentsByPaths returns, as the caller looks it up: by the path with
   the suffix taken away once more. *)
Hits(path) ==
  LET wanted == {Stripped(p, KnownSuffix) : p \in ToSet(selected)}
  IN {c \in Readable : c.path \in wanted /\ c.path = Stripped(path, ShortSuffix)}

(* resolveRelativeResourcePath *)
Resolve(ref, path) ==
  FoldLeft(LAMBDA out, s : IF s = Parent THEN (IF out = <<>> THEN out ELSE Front(out))
                           ELSE IF Special(s) THEN out ELSE Append(out, s),
           <<>>, Front(path) \o ref)

(* normalizeTopLevelPdfPathForFe *)
TopLevelPdf(path) == Stripped(<<Head(path)>>, KnownSuffix)[1]

IsFile(path) == path # <<>> /\ path[Len(path)].no = <<>> /\ path[Len(path)].suffix \in {"pdf", "png"}

(* extractPdfPngReferencesFromMarkdown of the contents, and
   collectPdfPngPathsFromChunkCatalog of the same documents. *)
References(candidates) ==
  LET docs == {d \in Doc : \E c \in ToSet(candidates) : Head(c.path) = NameOf[d]}
      linked == UNION {{Resolve(ref, c.path) : ref \in UNION {RefsOf[d] : d \in docs}} : c \in ToSet(candidates)}
  IN {p \in linked \cup UNION {ToSet(catalogue[d]) : d \in docs} : IsFile(p)}

FirstOf(s, n) == SubSeq(s, 1, IF Len(s) < n THEN Len(s) ELSE n)

(* Mutant: one document too few. *)
CitedButLast(candidates) == {TopLevelPdf(c.path) : c \in ToSet(FirstOf(candidates, MaxSelected - 1))}

(* The documents of the first candidates are cited. *)
CitedOf(candidates) == {TopLevelPdf(c.path) : c \in ToSet(FirstOf(candidates, MaxSelected))}

(* The chunks found under the paths, in their order. *)
Found(paths) ==
  FoldLeft(LAMBDA found, p : IF Hits(p) = {} THEN found
                             ELSE Append(found, [path |-> p, hit |-> CHOOSE c \in Hits(p) : TRUE]),
           <<>>, paths)

(* fetchRelevantContentsFromChunks and appendFePdfResourceEntryFromUsed.  Which
   of the references come first is left open. *)
FetchContents ==
  LET candidates == Found(selected)
  IN /\ turn = "fetch"
     /\ used' = candidates
     /\ \E extras \in SUBSET References(candidates) :
          /\ Cardinality(extras) <= MaxExtras
          /\ Cardinality(extras) < MaxExtras => extras = References(candidates)
          /\ cited' = IF candidates = <<>> THEN {}
                      ELSE CitedOf(candidates) \cup {TopLevelPdf(p) : p \in extras}
     /\ turn' = "answer"
     /\ catalogue' = NoCatalogue /\ selected' = <<>>
     /\ UNCHANGED docVars

(* The answer is generated and told to the reader (ChatSession). *)
Answer ==
  /\ turn = "answer"
  /\ turn' = "idle"
  /\ used' = <<>> /\ cited' = {}
  /\ UNCHANGED <<docVars, catalogue, selected>>

Next ==
  \/ \E d \in Doc : Process(d) \/ Hide(d) \/ Show(d)
  \/ ListCatalog \/ Select \/ FetchContents \/ Answer

Spec == Init /\ [][Next]_vars

-----------------------------------------------------------------------------
(* What is published of a document is all of it, in chunks that can be told
   apart: the sections below the overview contain every paragraph of the
   Markdown once and in order; none is longer than CHUNK_MAX_CHARS, unless it is
   only the heading put before it that is; and each has a path of its own below
   the document's name, whatever paths the model proposed
   (splitMarkdownIntoSections, assembleChunkArtifacts).  No path goes up or stands
   still; an empty segment it has only at an end of what is below the name, where
   the title that stood in for a useless proposal had a slash (slugifyTitle). *)
Remaining(body, i) ==
  FoldLeft(LAMBDA n, p : IF p.copy \/ p.id # i THEN n ELSE n + p.size, 0, body)

InOrder(body) ==
  \A m, n \in DOMAIN body : m < n /\ ~ body[m].copy /\ ~ body[n].copy => body[m].id <= body[n].id

Whole(sections, whole) ==
  /\ \A i \in DOMAIN whole : Remaining(FlattenSeq(sections), i) = whole[i].size
  /\ InOrder(FlattenSeq(sections))

Fitting(section) ==
  \/ Size(section) <= MaxChars
  \/ Head(section).copy /\ Size(Tail(section)) <= MinBody

PublishedIsWhole ==
  \A d \in Doc :
    chunks[d] # <<>> =>
      LET sections == [n \in 1 .. Len(chunks[d]) - 1 |-> chunks[d][n + 1].content]
          paths == PathsOf(d)
      IN /\ Whole(sections, text[d])
         /\ \A n \in DOMAIN sections : Fitting(sections[n])
         /\ paths[1] = Root(d) /\ Cardinality(ToSet(paths)) = Len(paths)
         /\ \A n \in 2 .. Len(paths) : /\ Len(paths[n]) > 1 /\ Head(paths[n]) = NameOf[d]
                                        /\ \A i \in 2 .. Len(paths[n]) :
                                             Special(paths[n][i]) => paths[n][i] = Empty /\ i \in {2, Len(paths[n])}

(* A path whose end is not taken for an extension. *)
Clear(path) == path[Len(path)].suffix \notin ShortSuffix \/ path[Len(path)].no # <<>>

(* A chosen chunk reaches the model as long as its document is visible, and
   nothing that is hidden or gone does, however the documents have changed since
   the catalogue was listed.  Chunks whose path ends like a file name are the
   exception: stripKnownExtension spares "3.2", normalizeResourcePath does not
   (getContentsByPaths, fetchRelevantContentsFromChunks). *)
SelectedIsFound ==
  [][turn = "fetch" /\ turn' = "answer" =>
       /\ \A c \in Readable : c.path \in ToSet(selected) /\ Clear(c.path) =>
                              [path |-> c.path, hit |-> c] \in ToSet(used')
       /\ \A u \in ToSet(used') : u.hit \in Readable]_vars

(* The reader is told of every document from which the model got something,
   although only MaxSelected of the chunks are cited: overviews come first, and
   every document has one.  The name of a document that ends like a file name is
   the exception, because its overview is not found
   (fetchRelevantContentsFromChunks, appendFePdfResourceEntryFromUsed). *)
UsedIsCited ==
  \A u \in ToSet(used) :
    Clear(<<Head(u.path)>>) /\ turn = "answer" => TopLevelPdf(u.path) \in cited

=============================================================================
