------------------------------ MODULE Chunking ------------------------------
(***************************************************************************)
(* pipeline/chunking.py: from the sections that the header splitter makes  *)
(* of a book's markdown to its chunks.  A section's body is a sequence of  *)
(* atoms, words and page markers, each of length one.  The extraction      *)
(* artefacts that clean_extracted strips are taken as stripped.            *)
(***************************************************************************)
EXTENDS Naturals, Sequences, SequencesExt, FiniteSets, FiniteSetsExt

CONSTANTS
  MinChunk,    \* MIN_CHUNK_CHARS
  ChunkSize,   \* CHUNK_SIZE_CHARS
  Overlap,     \* CHUNK_OVERLAP_CHARS
  JunkHeadings \* JUNK_HEADINGS

ASSUME ChunkAssumption ==
  /\ MinChunk \in Nat
  /\ ChunkSize \in Nat
  /\ Overlap \in 0..(ChunkSize - 1)

Word(id)     == [type |-> "word", of |-> id]
Page(n)      == [type |-> "page", of |-> n]
Heading(own) == [type |-> "heading", of |-> own]

Only(type, body) == { body[i].of : i \in { j \in DOMAIN body : body[j].type = type } }
Markers(body) == Only("page", body)

Parent(trail) == IF trail = <<>> THEN <<>> ELSE Front(trail)
Own(trail)    == <<Heading(Last(trail))>>

(* Judged by its own heading, so that what is nested under a junk heading  *)
(* is kept.                                                                *)
IsJunk(trail) == trail # <<>> /\ Last(trail) \in JunkHeadings

-----------------------------------------------------------------------------
(* _merge_small_sections: runs of undersized siblings become one section   *)
(* under their parent's trail, each with its own heading as a line.        *)

NoRun == [parts |-> <<>>, trail |-> <<>>, len |-> 0]

Opened(section) ==
  [parts |-> <<section>>, trail |-> section.trail, len |-> Len(section.body)]

Grown(run, section) ==
  [parts |-> Append(run.parts, section), trail |-> run.trail,
   len   |-> run.len + Len(section.body)]

AbsorbsLarge(run, section) ==
  /\ run.parts # <<>>
  /\ run.len < MinChunk
  /\ Parent(section.trail) # <<>>
  /\ Parent(section.trail) = Parent(run.trail)

Absorbs(run, section) ==
  /\ run.parts # <<>>
  /\ run.len < MinChunk
  /\ Len(section.body) < MinChunk
  /\ Parent(section.trail) # <<>>
  /\ Parent(section.trail) = Parent(run.trail)

Flushed(merged, run) ==
  CASE Len(run.parts) = 0 -> merged
    [] Len(run.parts) = 1 -> Append(merged, run.parts[1])
    [] OTHER -> Append(merged,
         [trail |-> Parent(run.trail), junk |-> FALSE,
          body  |-> FlattenSeq([i \in DOMAIN run.parts |->
                      Own(run.parts[i].trail) \o run.parts[i].body])])

MergeStep(acc, section) ==
  CASE section.junk ->
         [merged |-> Append(Flushed(acc.merged, acc.run), section), run |-> NoRun]
    [] ~ section.junk /\ Absorbs(acc.run, section) ->
         [merged |-> acc.merged, run |-> Grown(acc.run, section)]
    [] OTHER ->
         [merged |-> Flushed(acc.merged, acc.run), run |-> Opened(section)]

(* What the loop over the sections has merged, and still holds, after n. *)
Merging(sections) ==
  LET acc[n \in 0..Len(sections)] ==
        IF n = 0 THEN [merged |-> <<>>, run |-> NoRun]
        ELSE MergeStep(acc[n - 1], sections[n])
  IN  acc

MergeWithoutLastRun(sections) == Merging(sections)[Len(sections)].merged

MergeSmallSections(sections) ==
  LET end == Merging(sections)[Len(sections)]
  IN  Flushed(end.merged, end.run)

-----------------------------------------------------------------------------
(* RecursiveCharacterTextSplitter: pieces of at most ChunkSize atoms, each *)
(* beginning with the last Overlap atoms of the one before it.             *)
Pieces(body) ==
  LET stride == ChunkSize - Overlap
      rest   == IF Len(body) <= ChunkSize THEN 0 ELSE Len(body) - ChunkSize
      count  == IF body = <<>> THEN 0 ELSE 1 + ((rest + stride - 1) \div stride)
  IN  [i \in 1..count |->
         SubSeq(body, (i - 1) * stride + 1,
                      Min({Len(body), (i - 1) * stride + ChunkSize}))]

(* A section as the walk meets it: junk whole, the others in pieces. *)
Walked(section) ==
  IF section.junk THEN <<section>>
  ELSE LET ps == Pieces(section.body)
       IN  [i \in DOMAIN ps |-> [section EXCEPT !.body = ps[i]]]

(* A piece without words advances the page and stores nothing.  The        *)
(* headings that a merge put back are words to the code: they no longer    *)
(* have the mark that _is_heading_only looks for.                          *)
Blank(piece) == \A i \in DOMAIN piece.body : piece.body[i].type = "page"

Advanced(last, body) == IF Markers(body) = {} THEN last ELSE Max(Markers(body))

WalkStepStoring(acc, piece) ==
  IF piece.junk \/ Blank(piece) THEN acc
  ELSE LET end == Advanced(acc.last, piece.body)
       IN  [last |-> end,
            chunks |-> Append(acc.chunks,
              [trail |-> piece.trail, page_start |-> IF acc.last = 0 THEN end ELSE acc.last,
               page_end |-> end, content |-> piece.body])]

(* last is last_page, 0 for None. *)
WalkStep(acc, piece) ==
  LET marks == Markers(piece.body)
      end   == Advanced(acc.last, piece.body)
      start == IF marks # {} /\ acc.last = 0 THEN Min(marks) ELSE acc.last
  IN  [last   |-> end,
       chunks |-> IF piece.junk \/ Blank(piece) THEN acc.chunks
                  ELSE Append(acc.chunks,
                         [trail |-> piece.trail, page_start |-> start, page_end |-> end,
                          content |-> piece.body])]

(* The page reached and the chunks stored after the first n pieces. *)
Walking(walk) ==
  LET acc[n \in 0..Len(walk)] ==
        IF n = 0 THEN [last |-> 0, chunks |-> <<>>]
        ELSE WalkStep(acc[n - 1], walk[n])
  IN  acc

Judged(sections) ==
  [i \in DOMAIN sections |->
     [trail |-> sections[i].trail, body |-> sections[i].body,
      junk  |-> IsJunk(sections[i].trail)]]

Walk(merged) == FlattenSeq([i \in DOMAIN merged |-> Walked(merged[i])])

ChunkMarkdown(sections) ==
  LET walk == Walk(MergeSmallSections(Judged(sections)))
  IN  Walking(walk)[Len(walk)].chunks
=============================================================================
