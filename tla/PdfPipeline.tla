------------------------------ MODULE PdfPipeline ------------------------------
(***************************************************************************)
(* What one run of the PDF pipeline makes of the pages of a document        *)
(* (pdf-pipeline.service.ts, markdown-section-splitter.ts,                  *)
(* pdf-chunk-parser.ts): pages become Markdown, the Markdown is split into  *)
(* sections, and each section becomes a chunk under a path that the model   *)
(* proposed.  A run that fails on the way makes nothing.                    *)
(*                                                                         *)
(* A paragraph is [id, level, size, copy]: its heading level (0 is none),   *)
(* its characters with the blank line behind it, and whether it only repeats *)
(* or makes up a heading for context.  A segment of a path is               *)
(* [stem, suffix, no]: "a.md-2" is [a, md, <<2>>].                           *)
(***************************************************************************)
EXTENDS Integers, Sequences, FiniteSets, SequencesExt

CONSTANTS
  MinChars, TargetChars, MaxChars,  \* CHUNK_MIN_CHARS, CHUNK_TARGET_CHARS, CHUNK_MAX_CHARS
  MinBody,                          \* what splitByLength leaves beside a heading, at least
  PrefixChars,                      \* characters of a heading without a title to take
  MaxFailurePercent                 \* pass1MaxFailureRatio

ASSUME CharsAssumption ==
  /\ {MinChars, TargetChars, MaxChars, MinBody, PrefixChars, MaxFailurePercent} \subseteq Nat
  /\ MinChars <= TargetChars /\ TargetChars <= MaxChars
  /\ 0 < MinBody /\ MinBody <= MaxChars

-----------------------------------------------------------------------------
(* A page, with its paragraphs not numbered yet. *)
PageTexts == [converted : BOOLEAN, text : Seq([id : Nat, level : Nat, size : Nat, copy : {FALSE}])]

Size(text) == FoldLeft(LAMBDA n, p : n + p.size, 0, text)
IsHeading(p) == p.level # 0

MadeUp == [id |-> 0, level |-> 2, size |-> PrefixChars, copy |-> TRUE]

(* The heading made up for text without one in front: the title is that of the
   first heading in it (extractTitle), which may be long, or a word of our own.
   The marks of a heading are counted as its title. *)
MadeUpFor(text) ==
  LET first == SelectInSeq(text, IsHeading)
  IN IF first = 0 THEN MadeUp ELSE [text[first] EXCEPT !.level = 2, !.copy = TRUE]

(* convertPageToMarkdown: what the model wrote or, if the call failed or it
   wrote nothing, the extracted text under a heading with the page number. *)
PageMarkdown(page) ==
  IF page.converted THEN page.text
  ELSE <<[MadeUp EXCEPT !.copy = FALSE]>> \o page.text

(* assertPass1FailureWithinLimit *)
WithinFailureLimit(pages) ==
  LET failed == Cardinality({i \in DOMAIN pages : ~ pages[i].converted})
  IN /\ pages # <<>>
     /\ \/ failed = 0
        \/ failed < Len(pages) /\ failed * 100 <= MaxFailurePercent * Len(pages)

Numbered(text) == [i \in DOMAIN text |-> [text[i] EXCEPT !.id = i]]

Combined(pages) == Numbered(FlattenSeq([i \in DOMAIN pages |-> PageMarkdown(pages[i])]))

-----------------------------------------------------------------------------
(* collectLevelBlocks: what stands before the first heading of the level, and
   each such heading with what follows it. *)
Blocks(text, level) ==
  FoldLeft(LAMBDA blocks, p :
             IF blocks = <<>> \/ p.level = level THEN Append(blocks, <<p>>)
             ELSE Append(Front(blocks), Append(Last(blocks), p)),
           <<>>, text)

(* splitOversizedByH3: each part repeats the heading of the block. *)
SplitByH3(block) ==
  LET headed == IsHeading(Head(block))
      parent == IF headed THEN [Head(block) EXCEPT !.copy = TRUE] ELSE MadeUpFor(block)
      parts == Blocks(IF headed THEN Tail(block) ELSE block, 3)
  IN IF Len(parts) <= 1 THEN <<block>>
     ELSE [n \in DOMAIN parts |-> <<IF n = 1 /\ headed THEN Head(block) ELSE parent>> \o parts[n]]

(* The last resort for a paragraph that is longer than a section may be. *)
HardSplit(p, width) ==
  [n \in 1 .. (p.size + width - 1) \div width |->
     <<[p EXCEPT !.size = IF n * width <= p.size THEN width ELSE p.size % width,
                 !.level = IF n = 1 THEN p.level ELSE 0]>>]

(* splitByLength: paragraphs are collected as long as they fit; the parts after
   the first get a heading if they have none, and MinBody besides it however
   long it is. *)
Flush(s) == IF s.current = <<>> THEN s.parts ELSE Append(s.parts, s.current)

Collect(s, p, width) ==
  IF Size(s.current) + p.size <= width
  THEN [s EXCEPT !.current = Append(@, p)]
  ELSE IF p.size <= width
  THEN [parts |-> Flush(s), current |-> <<p>>]
  ELSE [parts |-> Flush(s) \o HardSplit(p, width), current |-> <<>>]

Collected(text, width) ==
  Flush(FoldLeft(LAMBDA s, p : Collect(s, p, width), [parts |-> <<>>, current |-> <<>>], text))

SplitByLength(text) ==
  LET prefix == IF IsHeading(Head(text)) THEN <<>> ELSE <<MadeUpFor(text)>>
      width == IF Size(prefix) + MinBody <= MaxChars THEN MaxChars - Size(prefix) ELSE MinBody
      parts == Collected(text, width)
  IN IF Size(text) <= MaxChars THEN <<text>>
     ELSE [n \in DOMAIN parts |->
             IF n = 1 \/ IsHeading(Head(parts[n])) THEN parts[n] ELSE prefix \o parts[n]]

SplitOversized(block) ==
  IF Size(block) <= MaxChars THEN <<block>>
  ELSE FlattenSeq([n \in DOMAIN SplitByH3(block) |-> SplitByLength(SplitByH3(block)[n])])

(* Mutant: what two sections come to is only held against the target. *)
JoinsSmall(current, next) ==
  \/ Size(current) < MinChars
  \/ Size(current) + Size(next) <= TargetChars /\ Size(current) < TargetChars

(* Whether mergeSmallSections puts the next section to the one it is at. *)
Joins(current, next) ==
  LET both == Size(current) + Size(next)
  IN /\ Size(current) < MinChars \/ (both <= TargetChars /\ Size(current) < TargetChars)
     /\ both <= MaxChars

MergeSmallSections(sections) ==
  FoldLeft(LAMBDA merged, next :
             IF merged # <<>> /\ Joins(Last(merged), next)
             THEN Append(Front(merged), Last(merged) \o next)
             ELSE Append(merged, next),
           <<>>, sections)

(* splitMarkdownIntoSections *)
SectionsOf(text) ==
  LET blocks == Blocks(text, 2)
  IN MergeSmallSections(FlattenSeq([n \in DOMAIN blocks |-> SplitOversized(blocks[n])]))

-----------------------------------------------------------------------------
Segments == [stem : STRING, suffix : STRING, no : Seq(Nat)]
Segment(stem, suffix) == [stem |-> stem, suffix |-> suffix, no |-> <<>>]
Empty == Segment("", "")
Parent == Segment("..", "")
Special(segment) == segment \in {Empty, Segment(".", ""), Parent}

WithoutSpecial(path) ==
  FoldLeft(LAMBDA kept, s : IF Special(s) THEN kept ELSE Append(kept, s), <<>>, path)

(* toRelativeChunkPath: slashes at the ends and the document's own name in
   front are taken away. *)
ToRelativeChunkPath(raw, base) ==
  LET first == {i \in DOMAIN raw : raw[i] # Empty}
      start == IF first = {} THEN Len(raw) + 1 ELSE CHOOSE i \in first : \A j \in first : i <= j
      other == {i \in start .. Len(raw) : raw[i] # base}
  IN IF other = {} THEN <<>>
     ELSE SubSeq(raw, CHOOSE i \in other : \A j \in other : i <= j, Len(raw))

(* normalizeRelativeChunkPath *)
NormalizeRelativeChunkPath(path) ==
  IF \E i \in DOMAIN path : path[i] = Parent THEN <<>> ELSE WithoutSpecial(path)

(* slugifyTitle.  A title is what its letters, digits, "-" and "_" leave between
   its slashes, so it has no dots; slashes in a row become one, but one at either
   end stays, and is an empty segment. *)
Words == {s \in Segments : s.suffix = "" /\ s.stem \notin {".", ".."}}

SlugifyTitle(title) ==
  IF title = <<Empty>> THEN <<>>
  ELSE IF Len(title) = 1 THEN title
  ELSE <<Head(title)>> \o WithoutSpecial(SubSeq(title, 2, Len(title) - 1)) \o <<Last(title)>>

(* ensureUniquePath *)
WithNumber(path, n) == [path EXCEPT ![Len(path)].no = Append(@, n)]

(* Mutant: "-2" is appended without a look at whether that is free. *)
AppendTwo(path, used) == IF path \in used THEN WithNumber(path, 2) ELSE path

EnsureUniquePath(path, used) ==
  IF path \notin used THEN path
  ELSE LET free == {n \in 2 .. Cardinality(used) + 2 : WithNumber(path, n) \notin used}
       IN WithNumber(path, CHOOSE n \in free : \A k \in free : n <= k)

(* The path of a section: what the model proposed or, if nothing is left of it,
   the slug of the title or, if that leaves nothing either, the section's number. *)
ChunkPath(label, title, n, base, used) ==
  LET proposed == NormalizeRelativeChunkPath(ToRelativeChunkPath(label, base))
      slug == SlugifyTitle(title)
      relative == IF proposed # <<>> THEN proposed
                  ELSE IF slug # <<>> THEN slug
                  ELSE <<[Segment("section", "") EXCEPT !.no = <<n>>]>>
  IN EnsureUniquePath(relative, used)

(* assembleChunkArtifacts: the overview and, below it, the sections. *)
Assemble(base, sections, labels, titles) ==
  FoldLeft(LAMBDA chunks, n :
             Append(chunks, [path |-> <<base>> \o ChunkPath(labels[n], titles[n], n, base,
                                                           {Tail(c.path) : c \in ToSet(chunks)}),
                             content |-> sections[n]]),
           <<[path |-> <<base>>, content |-> <<>>]>>,
           [n \in DOMAIN sections |-> n])
=============================================================================
