--------------------------- MODULE DocumentBuilder ---------------------------
(***************************************************************************)
(* DocumentBuilder.build (src/app/services/docx_builder.py): the entries   *)
(* of the table of contents and their page numbers, which are worked out   *)
(* from the sections before anything is rendered, and the rendering of the *)
(* sections and of the Markdown in their bodies.                           *)
(*                                                                         *)
(* A document is the sequence of its blocks.  A block keeps which lines of *)
(* which body it shows; text, runs, styles and the XML of fields are left  *)
(* out.  build awaits nothing; an action is one turn of one of its loops.  *)
(***************************************************************************)
EXTENDS Integers, Sequences, SequencesExt

CONSTANT Inputs  \* the values of the parameter sections

(***************************************************************************)
(* What a line of a body is to the renderer, once stripped.  row, rule and *)
(* bar start and end with "|": rule has nothing but dashes between, bar is *)
(* the single "|", which has no cells.                                     *)
(***************************************************************************)
LineKinds == {"blank", "text", "heading 2", "heading 3", "bullet", "number",
              "row", "rule", "bar"}

\* chars: the length of heading, body and bullets together.
Section == [level : Nat, body : Seq(LineKinds), bullets : Nat,
            headers : Nat, rows : Nat, chars : Nat]

ASSUME InputsAssumption == Inputs \subseteq Seq(Section)

CharsPerPage == 3600
HeadingCharOverhead == 60
TableRowChars == 90
SectionCharOverhead == 40
SynthesizedBulletsChars == 150

VARIABLES sections,     \* the sections to render
          toc,          \* the entries of the table of contents
          pages,        \* the page number cached for each entry so far
          cumulative,   \* the characters estimated before the next entry
          blocks,       \* the document so far
          section,      \* the index of the section being rendered
          index,        \* the index of the next line of its body
          has_bullets,  \* a section rendered its bullets
          pc

vars == <<sections, toc, pages, cumulative, blocks, section, index, has_bullets, pc>>

\* The section of an entry and of a heading that build itself adds.
KeyConsiderations == 0

NoMark == -1

\* A heading that a PAGEREF field can refer to has the mark i of _Toc_i.
Block(kind, level, mark, s, from, to) ==
  [kind |-> kind, level |-> level, mark |-> mark, section |-> s, from |-> from, to |-> to]

Init == /\ sections \in Inputs
        /\ toc = <<>> /\ pages = <<>> /\ cumulative = 0
        /\ blocks = <<>> /\ section = 1 /\ index = 1
        /\ has_bullets = FALSE
        /\ pc = "entries"

normal_level(s) == IF sections[s].level \in {1, 2} THEN sections[s].level ELSE 1

-------------------------------------------------------------------------------
\* _compute_toc_entries: what build is going to render.
ComputeEntries ==
  /\ pc = "entries"
  /\ toc' = [s \in DOMAIN sections |-> [section |-> s, level |-> normal_level(s)]]
              \o IF \E s \in DOMAIN sections : sections[s].bullets > 0 THEN <<>>
                 ELSE <<[section |-> KeyConsiderations, level |-> 2]>>
  /\ pc' = "pages"
  /\ UNCHANGED <<sections, pages, cumulative, blocks, section, index, has_bullets>>

\* _estimate_section_chars.  The heading "Key Considerations" has 18 characters.
section_chars(entry) ==
  HeadingCharOverhead + SectionCharOverhead +
    IF entry.section = KeyConsiderations THEN 18 + SynthesizedBulletsChars
    ELSE sections[entry.section].chars + sections[entry.section].rows * TableRowChars

sizes == [i \in DOMAIN toc |-> section_chars(toc[i])]

add(sum, size) == sum + size

sum_of(numbers) == FoldLeft(add, 0, numbers)

total_chars == sum_of(sizes)

\* The pages that the contents take, rounded up; they begin on page 2.
total_pages == (total_chars + CharsPerPage - 1) \div CharsPerPage

\* MUTANT of max_page: the cover page is forgotten.
max_page_without_cover == total_pages

max_page == 2 + (total_pages - 1)

\* One entry is given its page.
EstimatePage ==
  /\ pc = "pages"
  /\ Len(pages) < Len(toc)
  /\ LET page == 2 + cumulative \div CharsPerPage
     IN  pages' = Append(pages, IF page > max_page THEN max_page ELSE page)
  /\ cumulative' = cumulative + sizes[Len(pages) + 1]
  /\ UNCHANGED <<sections, toc, blocks, section, index, has_bullets, pc>>

\* Cover page and table of contents.
AddTableOfContents ==
  /\ pc = "pages"
  /\ Len(pages) = Len(toc)
  /\ blocks' = <<Block("heading", 1, NoMark, 0, 0, 0)>>
  /\ pc' = "sections"
  /\ UNCHANGED <<sections, toc, pages, cumulative, section, index, has_bullets>>

-------------------------------------------------------------------------------
rendering == <<sections, toc, pages, cumulative>>

\* The heading of the next section, with its bookmark.
AddSection ==
  /\ pc = "sections"
  /\ section <= Len(sections)
  /\ blocks' = Append(blocks, Block("heading", normal_level(section), section - 1,
                                    section, 0, 0))
  /\ index' = 1
  /\ pc' = "body"
  /\ UNCHANGED <<rendering, section, has_bullets>>

lines == sections[section].body

InBody == pc = "body" /\ index <= Len(lines)

Render(kind, level, to) ==
  /\ blocks' = Append(blocks, Block(kind, level, NoMark, section, index, to))
  /\ index' = to + 1

PipeKinds == {"row", "rule", "bar"}

is_pipe(i) == i <= Len(lines) /\ lines[i] \in PipeKinds

\* The last line of the run of pipe-delimited lines that starts at index.
block_end == CHOOSE to \in index .. Len(lines) :
               /\ \A i \in index .. to : is_pipe(i)
               /\ ~is_pipe(to + 1)

\* _try_add_markdown_table: a header with cells above a separator row.
is_table == /\ is_pipe(index)
            /\ block_end > index
            /\ lines[index] # "bar"
            /\ lines[index + 1] = "rule"

SkipBlank == /\ lines[index] = "blank"
             /\ index' = index + 1
             /\ UNCHANGED blocks

\* MUTANT of AddMarkdownTable: its rows are read again.
AddMarkdownTableOnly ==
  /\ is_table
  /\ blocks' = Append(blocks, Block("table", 0, NoMark, section, index, block_end))
  /\ index' = index + 1

AddMarkdownTable == is_table /\ Render("table", 0, block_end)

AddHeading == \/ lines[index] = "heading 2" /\ Render("heading", 2, index)
              \/ lines[index] = "heading 3" /\ Render("heading", 3, index)

AddListItem == /\ lines[index] \in {"bullet", "number"}
               /\ Render(lines[index], 0, index)

\* Pipe-delimited lines that make no table are paragraphs, one at a time.
AddParagraph == /\ lines[index] = "text" \/ (is_pipe(index) /\ ~is_table)
                /\ Render("paragraph", 0, index)

\* One turn of the loop of _add_rich_body.
BodyLine == /\ InBody
            /\ \/ SkipBlank \/ AddMarkdownTable \/ AddHeading
               \/ AddListItem \/ AddParagraph
            /\ UNCHANGED <<rendering, section, has_bullets, pc>>

\* MUTANT of EndSection: bullets in a body count, which the contents ignore.
EndSectionCountsBody ==
  /\ pc = "body"
  /\ index > Len(lines)
  /\ LET s == sections[section]
     IN  /\ blocks' = blocks
              \o [i \in 1 .. s.bullets |-> Block("bullet", 0, NoMark, section, 0, 0)]
         /\ has_bullets' = (has_bullets \/ s.bullets > 0 \/ \E i \in DOMAIN lines :
                                                             lines[i] = "bullet")
  /\ section' = section + 1
  /\ pc' = "sections"
  /\ UNCHANGED <<rendering, index>>

\* The bullets and the table of the section's own, behind its body.
EndSection ==
  /\ pc = "body"
  /\ index > Len(lines)
  /\ LET s == sections[section]
     IN  /\ blocks' = blocks
              \o [i \in 1 .. s.bullets |-> Block("bullet", 0, NoMark, section, 0, 0)]
              \o IF s.headers > 0 /\ s.rows > 0
                 THEN <<Block("table", 0, NoMark, section, 0, 0)>> ELSE <<>>
         /\ has_bullets' = (has_bullets \/ s.bullets > 0)
  /\ section' = section + 1
  /\ pc' = "sections"
  /\ UNCHANGED <<rendering, index>>

\* _add_default_bullets, when no section brought any.
AddDefaultBullets ==
  blocks \o <<Block("heading", 2, Len(sections), KeyConsiderations, 0, 0)>>
         \o [i \in 1 .. 3 |-> Block("bullet", 0, NoMark, KeyConsiderations, 0, 0)]

\* The end of the document; it is saved.
Save == /\ pc = "sections"
        /\ section > Len(sections)
        /\ blocks' = IF has_bullets THEN blocks ELSE AddDefaultBullets
        /\ pc' = "saved"
        /\ UNCHANGED <<rendering, section, index, has_bullets>>

Next == \/ ComputeEntries \/ EstimatePage \/ AddTableOfContents
        \/ AddSection \/ BodyLine \/ EndSection \/ Save

Spec == Init /\ [][Next]_vars

-------------------------------------------------------------------------------
\* The positions of the headings with a bookmark.
Marked == {k \in DOMAIN blocks : blocks[k].mark # NoMark}

(***************************************************************************)
(* EntriesMatchHeadings: the table of contents is written before the       *)
(* sections, from a computation of its own, and yet its i-th entry is the  *)
(* heading with bookmark _Toc_i, in order, with the same level, and none   *)
(* is missing (Req 10.1): every PAGEREF has a target, and the list of key  *)
(* considerations is there exactly when it is announced.                   *)
(***************************************************************************)
EntriesMatchHeadings ==
  /\ \A k \in Marked :
       LET i == blocks[k].mark + 1
       IN  /\ i \in DOMAIN toc
           /\ blocks[k].section = toc[i].section
           /\ blocks[k].level = toc[i].level
  /\ \A j, k \in Marked : j < k => blocks[j].mark < blocks[k].mark
  /\ pc = "saved" => \A i \in DOMAIN toc : \E k \in Marked : blocks[k].mark = i - 1

(***************************************************************************)
(* PagesHonest: the cached page of an entry is the page on which its text  *)
(* begins by the estimate; so the numbers start at 2, never decrease and   *)
(* never pass the last page with contents, and the cap changes none.       *)
(***************************************************************************)
chars_before(i) == sum_of(SubSeq(sizes, 1, i - 1))

PagesHonest ==
  /\ \A i \in DOMAIN pages :
       /\ pages[i] = 2 + chars_before(i) \div CharsPerPage
       /\ pages[i] <= 2 + (total_chars - 1) \div CharsPerPage
       /\ i > 1 => pages[i - 1] <= pages[i]
  /\ pc \notin {"entries", "pages"} => Len(pages) = Len(toc)

\* The blocks that show lines of the body of section s, and how many of its
\* lines the renderer has passed.
Shown(s) == {n \in DOMAIN blocks : blocks[n].section = s /\ blocks[n].from > 0}

LinesRead(s) == IF s < section THEN Len(sections[s].body)
                ELSE IF s = section /\ pc = "body" THEN index - 1 ELSE 0

Pipes(s) == {i \in DOMAIN sections[s].body : sections[s].body[i] \in PipeKinds}

\* A header with cells above a separator row.
Headers(s) == {i \in Pipes(s) : /\ sections[s].body[i] # "bar"
                                /\ i + 1 \in DOMAIN sections[s].body
                                /\ sections[s].body[i + 1] = "rule"}

(***************************************************************************)
(* LinesOnce: every line of a body that is not blank is in exactly one     *)
(* block, in order, for however many pipe-delimited lines are looked at    *)
(* again because they make no table; a table is a header with cells, a     *)
(* separator row and all that follows with pipes, and no such header is    *)
(* left as a paragraph.                                                    *)
(***************************************************************************)
LinesOnce ==
  \A s \in DOMAIN sections :
    /\ \A i \in 1 .. LinesRead(s) :
         sections[s].body[i] # "blank" =>
           \E n \in Shown(s) : i \in blocks[n].from .. blocks[n].to
    /\ \A n \in Shown(s) :
         LET b == blocks[n]
         IN  /\ \A i \in b.from .. b.to : /\ i \in 1 .. LinesRead(s)
                                          /\ sections[s].body[i] # "blank"
             /\ IF b.kind = "table"
                THEN /\ b.from \in Headers(s) /\ b.from .. b.to \subseteq Pipes(s)
                     /\ b.from < b.to /\ b.to + 1 \notin Pipes(s)
                ELSE b.from = b.to /\ b.from \notin Headers(s)
    /\ \A m, n \in Shown(s) : m < n => blocks[m].to < blocks[n].from

===============================================================================
