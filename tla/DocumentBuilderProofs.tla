------------------------ MODULE DocumentBuilderProofs ------------------------
(***************************************************************************)
(* Proofs about DocumentBuilder, for any sections: the contents match the  *)
(* headings, the page numbers are the estimate, and every line of a body   *)
(* is rendered once.                                                       *)
(***************************************************************************)
EXTENDS DocumentBuilder, SequenceTheorems, TLAPS

Adding == INSTANCE FoldTheorems WITH Op <- add, Base <- 0

-------------------------------------------------------------------------------
(***************************************************************************)
(* Sums of sizes.                                                          *)
(***************************************************************************)

LEMMA SumNothing == sum_of(<<>>) = 0
  BY Adding!FoldNothing
  DEF sum_of, FoldLeft, Adding!FoldLeft, MapThenFoldSet, Adding!MapThenFoldSet,
      Max, Adding!Max

\* The sum of one size more.
LEMMA SumOneMore ==
    ASSUME NEW z \in Seq(Nat), NEW n \in Nat, n < Len(z)
    PROVE  sum_of(SubSeq(z, 1, n + 1)) = sum_of(SubSeq(z, 1, n)) + z[n + 1]
  <1> DEFINE s == SubSeq(z, 1, n)
             t == SubSeq(z, 1, n + 1)
  <1>1. /\ DOMAIN s = 1 .. n /\ DOMAIN t = 1 .. n + 1
        /\ \A i \in 1 .. n : t[i] = s[i]
        /\ t[n + 1] = z[n + 1]
    OBVIOUS
  <1> HIDE DEF s, t
  <1>2. Adding!FoldLeft(add, 0, t) = add(Adding!FoldLeft(add, 0, s), t[n + 1])
    BY <1>1, Adding!FoldOneMore
  <1>3. FoldLeft(add, 0, t) = add(FoldLeft(add, 0, s), t[n + 1])
    BY <1>2
    DEF FoldLeft, Adding!FoldLeft, MapThenFoldSet, Adding!MapThenFoldSet, Max, Adding!Max
  <1>4. sum_of(t) = sum_of(s) + z[n + 1]
    BY <1>1, <1>3 DEF sum_of, add
  <1> QED
    BY <1>4 DEF s, t

\* Sums of prefixes are numbers that grow with the prefix.
LEMMA SumsGrow ==
    ASSUME NEW z \in Seq(Nat), NEW n \in Nat, n <= Len(z)
    PROVE  /\ sum_of(SubSeq(z, 1, n)) \in Nat
           /\ \A j \in 0 .. n : /\ sum_of(SubSeq(z, 1, j)) \in Nat
                               /\ sum_of(SubSeq(z, 1, j)) <= sum_of(SubSeq(z, 1, n))
  <1> DEFINE S(k) == sum_of(SubSeq(z, 1, k))
             Grow(k) == S(k) \in Nat /\ \A j \in 0 .. k : S(j) \in Nat /\ S(j) <= S(k)
             I == {k \in Nat : k <= Len(z) => Grow(k)}
  <1>1. 0 \in I
    <2>1. SubSeq(z, 1, 0) = <<>>
      OBVIOUS
    <2>2. S(0) = 0
      BY <2>1, SumNothing
    <2> HIDE DEF S
    <2> QED
      BY <2>2
  <1>2. ASSUME NEW k \in I PROVE k + 1 \in I
    <2>1. SUFFICES ASSUME k + 1 <= Len(z) PROVE Grow(k + 1)
      OBVIOUS
    <2>2. k \in Nat /\ k <= Len(z) /\ k < Len(z) /\ k + 1 \in 1 .. Len(z)
      BY <2>1
    <2>3. S(k + 1) = S(k) + z[k + 1] /\ z[k + 1] \in Nat
      BY <2>2, SumOneMore
    <2> HIDE DEF S
    <2>4. Grow(k)
      BY <2>2
    <2>5. S(k) <= S(k + 1) /\ S(k + 1) \in Nat
      BY <2>3, <2>4
    <2>6. ASSUME NEW j \in 0 .. k + 1 PROVE S(j) \in Nat /\ S(j) <= S(k + 1)
      <3>1. CASE j = k + 1
        BY <2>5, <3>1
      <3>2. CASE j # k + 1
        <4>1. j \in 0 .. k
          BY <2>2, <3>2
        <4> QED
          BY <2>4, <2>5, <4>1
      <3> QED
        BY <3>1, <3>2
    <2> QED
      BY <2>5, <2>6
  <1> HIDE DEF I
  <1>3. I = Nat
    <2>1. I \in SUBSET Nat
      BY DEF I
    <2> QED
      BY <1>1, <1>2, <2>1, Adding!SetInduction
  <1> QED
    BY <1>3 DEF I

\* The page of the last character, and that of one before it.
LEMMA LastPage ==
    ASSUME NEW c \in Nat, NEW t \in Nat, c < t
    PROVE  /\ c \div CharsPerPage <= (t - 1) \div CharsPerPage
           /\ (t + CharsPerPage - 1) \div CharsPerPage - 1 = (t - 1) \div CharsPerPage
           /\ c \div CharsPerPage \in Nat
  BY DEF CharsPerPage

LEMMA PagesGrow ==
    ASSUME NEW c \in Nat, NEW d \in Nat, c <= d
    PROVE  c \div CharsPerPage <= d \div CharsPerPage
  BY DEF CharsPerPage
-------------------------------------------------------------------------------
(***************************************************************************)
(* Types, and what each phase of build leaves to the next.                 *)
(***************************************************************************)
Stages == {"entries", "pages", "sections", "body", "saved"}

BlockKinds == {"heading", "paragraph", "bullet", "number", "table"}

BlockType == [kind : BlockKinds, level : Nat, mark : Nat \cup {NoMark}, section : Nat,
              from : Nat, to : Nat]

Types == /\ sections \in Seq(Section)
         /\ pc \in Stages
         /\ blocks \in Seq(BlockType)
         /\ section \in 1 .. Len(sections) + 1
         /\ index \in Nat \ {0}
         /\ has_bullets \in BOOLEAN

\* What the table of contents is computed to be.
Announced == \E s \in DOMAIN sections : sections[s].bullets > 0

EntryOf(s) == [section |-> s, level |-> normal_level(s)]

Entries == [s \in DOMAIN sections |-> EntryOf(s)]
             \o IF Announced THEN <<>> ELSE <<[section |-> KeyConsiderations, level |-> 2]>>

Phases ==
    /\ pc = "entries" => toc = <<>> /\ pages = <<>> /\ cumulative = 0
    /\ pc # "entries" => toc = Entries
    /\ pc \in {"entries", "pages"} => blocks = <<>> /\ section = 1
    /\ pc = "body" => section <= Len(sections) /\ index <= Len(lines) + 1
    /\ pc = "saved" => section = Len(sections) + 1
    /\ has_bullets <=> \E s \in 1 .. section - 1 : sections[s].bullets > 0

Entry == [section : Nat, level : {1, 2}]

LEMMA EntriesFacts ==
    ASSUME sections \in Seq(Section)
    PROVE  /\ Entries \in Seq(Entry)
           /\ Len(Entries) = Len(sections) + (IF Announced THEN 0 ELSE 1)
           /\ \A s \in DOMAIN sections : Entries[s] = EntryOf(s)
           /\ ~Announced => Entries[Len(sections) + 1]
                              = [section |-> KeyConsiderations, level |-> 2]
  <1> DEFINE n == Len(sections)
             own == [s \in DOMAIN sections |-> EntryOf(s)]
             key == [section |-> KeyConsiderations, level |-> 2]
  <1>1. n \in Nat /\ DOMAIN sections = 1 .. n
    OBVIOUS
  <1>2. \A s \in 1 .. n : EntryOf(s) \in Entry
    BY <1>1 DEF EntryOf, Entry, normal_level
  <1>3. own \in Seq(Entry) /\ Len(own) = n /\ \A s \in 1 .. n : own[s] = EntryOf(s)
    <2> HIDE DEF n
    <2>1. own \in [1 .. n -> Entry]
      BY <1>1, <1>2
    <2> QED
      BY <1>1, <2>1
  <1>4. key \in Entry /\ <<key>> \in Seq(Entry)
    BY DEF Entry, KeyConsiderations
  <1> HIDE DEF n, own, key
  <1>5. CASE Announced
    <2>1. Entries = own \o <<>>
      BY <1>5 DEF Entries, own
    <2>2. Entries = own
      BY <1>3, <2>1
    <2> QED
      BY <1>1, <1>3, <1>5, <2>2 DEF n
  <1>6. CASE ~Announced
    <2>1. Entries = own \o <<key>>
      BY <1>6 DEF Entries, own, key
    <2>2. /\ Entries \in Seq(Entry) /\ Len(Entries) = n + 1
          /\ \A s \in 1 .. n : Entries[s] = own[s]
          /\ Entries[n + 1] = key
      BY <1>1, <1>3, <1>4, <2>1
    <2> QED
      BY <1>1, <1>3, <1>6, <2>2 DEF n, key
  <1> QED
    BY <1>5, <1>6

\* What is added behind the blocks of the document leaves those as they are.
LEMMA MoreBlocks ==
    ASSUME blocks \in Seq(BlockType), NEW more \in Seq(BlockType), blocks' = blocks \o more
    PROVE  /\ blocks' \in Seq(BlockType) /\ Len(blocks) \in Nat /\ Len(more) \in Nat
           /\ DOMAIN blocks = 1 .. Len(blocks)
           /\ DOMAIN blocks' = 1 .. Len(blocks) + Len(more)
           /\ \A k \in 1 .. Len(blocks) : blocks'[k] = blocks[k]
           /\ \A k \in 1 .. Len(more) : blocks'[Len(blocks) + k] = more[k]
           /\ \A k \in DOMAIN blocks' : k \in 1 .. Len(blocks) \/
                \E i \in 1 .. Len(more) : k = Len(blocks) + i /\ blocks'[k] = more[i]
  <1>1. /\ blocks' \in Seq(BlockType) /\ Len(blocks) \in Nat /\ Len(more) \in Nat
        /\ DOMAIN blocks = 1 .. Len(blocks)
        /\ DOMAIN blocks' = 1 .. Len(blocks) + Len(more)
        /\ \A k \in 1 .. Len(blocks) : blocks'[k] = blocks[k]
    OBVIOUS
  <1>2. ASSUME NEW k \in 1 .. Len(more) PROVE blocks'[Len(blocks) + k] = more[k]
    BY <1>1
  <1>3. ASSUME NEW k \in DOMAIN blocks', k \notin 1 .. Len(blocks)
        PROVE  \E i \in 1 .. Len(more) : k = Len(blocks) + i /\ blocks'[k] = more[i]
    <2>1. k - Len(blocks) \in 1 .. Len(more) /\ k = Len(blocks) + (k - Len(blocks))
      BY <1>1, <1>3
    <2> QED
      BY <1>2, <2>1
  <1> QED
    BY <1>1, <1>2, <1>3

LEMMA OneMoreBlock ==
    ASSUME blocks \in Seq(BlockType), NEW b \in BlockType, blocks' = Append(blocks, b)
    PROVE  /\ blocks' \in Seq(BlockType) /\ Len(blocks) \in Nat
           /\ DOMAIN blocks = 1 .. Len(blocks) /\ DOMAIN blocks' = 1 .. Len(blocks) + 1
           /\ \A k \in 1 .. Len(blocks) : blocks'[k] = blocks[k]
           /\ blocks'[Len(blocks) + 1] = b
           /\ \A k \in DOMAIN blocks' : k \in 1 .. Len(blocks) \/ k = Len(blocks) + 1
  <1>1. /\ blocks' \in Seq(BlockType) /\ Len(blocks) \in Nat
        /\ DOMAIN blocks = 1 .. Len(blocks) /\ DOMAIN blocks' = 1 .. Len(blocks) + 1
        /\ \A k \in 1 .. Len(blocks) : blocks'[k] = blocks[k]
        /\ blocks'[Len(blocks) + 1] = b
    OBVIOUS
  <1>2. \A k \in 1 .. Len(blocks) + 1 : k \in 1 .. Len(blocks) \/ k = Len(blocks) + 1
    BY <1>1
  <1> QED
    BY <1>1, <1>2

\* The blocks that the steps add are blocks.
LEMMA BlockTyped ==
    ASSUME NEW kind \in BlockKinds, NEW level \in Nat, NEW mark \in Nat \cup {NoMark},
           NEW s \in Nat, NEW from \in Nat, NEW to \in Nat
    PROVE  Block(kind, level, mark, s, from, to) \in BlockType
  BY DEF Block, BlockType

\* The decoration behind a section's body: its bullets and its table.
Ornaments(n, table) ==
    [i \in 1 .. n |-> Block("bullet", 0, NoMark, section, 0, 0)]
      \o IF table THEN <<Block("table", 0, NoMark, section, 0, 0)>> ELSE <<>>

\* The list of key considerations.
Considerations ==
    <<Block("heading", 2, Len(sections), KeyConsiderations, 0, 0)>>
      \o [i \in 1 .. 3 |-> Block("bullet", 0, NoMark, KeyConsiderations, 0, 0)]

LEMMA OrnamentsFacts ==
    ASSUME section \in Nat, NEW n \in Nat, NEW table \in BOOLEAN
    PROVE  /\ Ornaments(n, table) \in Seq(BlockType)
           /\ \A i \in 1 .. Len(Ornaments(n, table)) :
                /\ Ornaments(n, table)[i].mark = NoMark
                /\ Ornaments(n, table)[i].from = 0
  <1> DEFINE T == {b \in BlockType : b.mark = NoMark /\ b.from = 0}
             bullet == Block("bullet", 0, NoMark, section, 0, 0)
             last == Block("table", 0, NoMark, section, 0, 0)
             bullets == [i \in 1 .. n |-> bullet]
             tables == IF table THEN <<last>> ELSE <<>>
  <1>1. bullet \in T /\ last \in T
    BY DEF Block, BlockType, BlockKinds
  <1> HIDE DEF T, bullet, last
  <1>2. bullets \in Seq(T)
    <2>1. bullets \in [1 .. n -> T]
      BY <1>1
    <2> QED
      BY <2>1
  <1>3. tables \in Seq(T)
    BY <1>1
  <1>4. Ornaments(n, table) = bullets \o tables
    BY DEF Ornaments, bullet, last
  <1> HIDE DEF bullets, tables
  <1>5. Ornaments(n, table) \in Seq(T)
    BY <1>2, <1>3, <1>4
  <1>6. Seq(T) \subseteq Seq(BlockType) /\ \A b \in T : b.mark = NoMark /\ b.from = 0
    <2>1. T \subseteq BlockType
      BY DEF T
    <2> QED
      BY <2>1, SeqMonotonic DEF T
  <1> QED
    BY <1>5, <1>6

LEMMA ConsiderationsFacts ==
    ASSUME Len(sections) \in Nat
    PROVE  /\ Considerations \in Seq(BlockType) /\ Len(Considerations) = 4
           /\ Considerations[1] = Block("heading", 2, Len(sections), KeyConsiderations, 0, 0)
           /\ \A i \in 1 .. 4 : /\ i # 1 => Considerations[i].mark = NoMark
                                /\ Considerations[i].from = 0
  <1> DEFINE head == Block("heading", 2, Len(sections), KeyConsiderations, 0, 0)
             bullet == Block("bullet", 0, NoMark, KeyConsiderations, 0, 0)
             bullets == [i \in 1 .. 3 |-> bullet]
  <1>1. /\ head \in BlockType /\ head.from = 0
        /\ bullet \in BlockType /\ bullet.from = 0 /\ bullet.mark = NoMark
    BY DEF Block, BlockType, BlockKinds, KeyConsiderations
  <1>2. Considerations = <<head>> \o bullets
    BY DEF Considerations
  <1> HIDE DEF head, bullet
  <1>3. bullets \in Seq(BlockType) /\ Len(bullets) = 3 /\ \A i \in 1 .. 3 : bullets[i] = bullet
    <2>1. bullets \in [1 .. 3 -> BlockType]
      BY <1>1
    <2> QED
      BY <2>1
  <1> HIDE DEF bullets
  <1>4. /\ Considerations \in Seq(BlockType) /\ Len(Considerations) = 4
        /\ Considerations[1] = head
    <2>1. <<head>> \in Seq(BlockType) /\ Len(<<head>>) = 1 /\ <<head>>[1] = head
      BY <1>1
    <2> DEFINE first == <<head>>
    <2> HIDE DEF first
    <2>2. first \in Seq(BlockType) /\ Len(first) = 1 /\ first[1] = head
      BY <2>1 DEF first
    <2>3. /\ first \o bullets \in Seq(BlockType)
          /\ Len(first \o bullets) = Len(first) + Len(bullets)
          /\ \A i \in 1 .. Len(first) + Len(bullets) :
               (first \o bullets)[i] = IF i <= Len(first) THEN first[i]
                                                         ELSE bullets[i - Len(first)]
      BY <1>3, <2>2, ConcatProperties
    <2> QED
      BY <1>2, <1>3, <2>2, <2>3 DEF first
  <1>5. ASSUME NEW i \in 1 .. 4, i # 1 PROVE Considerations[i] = bullet
    <2>1. i - 1 \in 1 .. 3 /\ Len(<<head>>) = 1 /\ <<head>> \in Seq(BlockType)
      BY <1>1, <1>5
    <2>2. Considerations[i] = bullets[i - 1]
      BY <1>2, <1>3, <1>5, <2>1
    <2> QED
      BY <1>3, <2>1, <2>2
  <1> QED
    BY <1>1, <1>4, <1>5 DEF head

-------------------------------------------------------------------------------
(***************************************************************************)
(* One line of a body.                                                     *)
(***************************************************************************)

LEMMA BodyTyped ==
    ASSUME sections \in Seq(Section), NEW s \in DOMAIN sections
    PROVE  /\ sections[s].body \in Seq(LineKinds) /\ Len(sections[s].body) \in Nat
           /\ DOMAIN sections[s].body = 1 .. Len(sections[s].body)
  <1>1. sections[s] \in Section
    OBVIOUS
  <1>2. sections[s].body \in Seq(LineKinds)
    BY <1>1 DEF Section
  <1> QED
    BY <1>2

\* A run of pipe-delimited lines has an end, at the latest that of the body.
LEMMA BlockEnd ==
    ASSUME sections \in Seq(Section), section \in DOMAIN sections, index \in Nat \ {0},
           is_pipe(index)
    PROVE  /\ block_end \in index .. Len(lines)
           /\ \A i \in index .. block_end : is_pipe(i)
           /\ ~is_pipe(block_end + 1)
  <1> DEFINE n == Len(lines)
             E == {to \in index .. n : ~is_pipe(to + 1)}
  <1>1. n \in Nat /\ index <= n
    BY BodyTyped DEF is_pipe, lines
  <1>2. n \in E
    BY <1>1 DEF is_pipe
  <1>3. PICK e \in E : \A to \in E : e <= to
    <2>1. E \in SUBSET Nat /\ E # {}
      BY <1>1, <1>2
    <2> HIDE DEF E
    <2> QED
      BY <2>1, Adding!LeastMember
  <1> DEFINE gaps == {i \in index .. e : ~is_pipe(i)}
  <1>4. gaps = {}
    <2> SUFFICES ASSUME gaps # {} PROVE FALSE
      OBVIOUS
    <2>1. PICK i \in gaps : \A j \in gaps : i <= j
      <3>1. gaps \in SUBSET Nat
        BY <1>1
      <3> HIDE DEF gaps
      <3> QED
        BY <3>1, Adding!LeastMember
    <2>2. i # index /\ i \in Nat /\ index < i /\ i <= e /\ e <= n /\ e \in Nat
      BY <1>1
    <2>3. i - 1 \in index .. n /\ (i - 1) + 1 = i
      BY <1>1, <2>2
    <2>4. i - 1 \in E
      BY <2>3
    <2> HIDE DEF E
    <2>5. e <= i - 1
      BY <1>3, <2>4
    <2> QED
      BY <2>2, <2>5
  <1>5. /\ e \in index .. n
        /\ \A i \in index .. e : is_pipe(i)
        /\ ~is_pipe(e + 1)
    BY <1>4
  <1> HIDE DEF E, gaps
  <1> QED
    BY <1>5 DEF block_end

\* What a turn of the loop of _add_rich_body makes of the lines from index to
\* `to`: a table of them, or something else of the first alone.
Turned(kind, to) ==
    /\ to \in index .. Len(lines)
    /\ \A i \in index .. to : lines[i] # "blank"
    /\ IF kind = "table"
       THEN /\ index \in Headers(section) /\ index .. to \subseteq Pipes(section)
            /\ index < to /\ to + 1 \notin Pipes(section)
       ELSE to = index /\ index \notin Headers(section)

\* Each line is skipped or rendered, and exactly the headers make tables.
LEMMA BodyLineTurns ==
    ASSUME Types, Phases, BodyLine
    PROVE  /\ pc = "body" /\ section \in DOMAIN sections /\ index <= Len(lines)
           /\ UNCHANGED <<rendering, section, has_bullets, pc>>
           /\ \/ SkipBlank
              \/ \E kind \in BlockKinds, level \in Nat, to \in Nat :
                    Turned(kind, to) /\ Render(kind, level, to)
  <1>1. /\ pc = "body" /\ index <= Len(lines) /\ index \in Nat \ {0}
        /\ section \in DOMAIN sections /\ sections \in Seq(Section)
        /\ UNCHANGED <<rendering, section, has_bullets, pc>>
    <2>1. pc = "body" /\ index <= Len(lines)
      BY DEF BodyLine, InBody
    <2>2. section <= Len(sections) /\ section \in Nat /\ section >= 1
      BY <2>1 DEF Phases, Types
    <2> QED
      BY <2>1, <2>2 DEF BodyLine, Types
  <1>2. lines \in Seq(LineKinds) /\ Len(lines) \in Nat /\ DOMAIN lines = 1 .. Len(lines)
    BY <1>1, BodyTyped DEF lines
  <1>3. ASSUME NEW i \in Nat \ {0} PROVE i \in Pipes(section) <=> is_pipe(i)
    BY <1>2 DEF Pipes, is_pipe, lines
  <1>4. ASSUME NEW i \in Nat \ {0}, is_pipe(i) PROVE lines[i] # "blank"
    BY <1>4 DEF is_pipe, PipeKinds
  <1>5. is_table <=> index \in Headers(section)
    <2>1. CASE is_table
      <3>1. is_pipe(index) /\ block_end > index /\ lines[index] # "bar"
            /\ lines[index + 1] = "rule"
        BY <2>1 DEF is_table
      <3>2. block_end \in index .. Len(lines)
        BY <1>1, <3>1, BlockEnd
      <3>3. index + 1 \in 1 .. Len(lines)
        BY <1>1, <1>2, <3>1, <3>2
      <3> QED
        BY <1>1, <1>2, <1>3, <2>1, <3>1, <3>3 DEF Headers, lines
    <2>2. CASE index \in Headers(section)
      <3>1. /\ is_pipe(index) /\ lines[index] # "bar"
            /\ index + 1 \in DOMAIN lines /\ lines[index + 1] = "rule"
        BY <1>1, <1>3, <2>2 DEF Headers, lines
      <3>2. is_pipe(index + 1)
        BY <1>2, <3>1 DEF is_pipe, PipeKinds
      <3>3. block_end \in index .. Len(lines) /\ ~is_pipe(block_end + 1)
        BY <1>1, <3>1, BlockEnd
      <3>4. block_end # index
        BY <3>2, <3>3
      <3>5. block_end > index
        BY <1>1, <1>2, <3>3, <3>4
      <3> QED
        BY <2>2, <3>1, <3>5 DEF is_table
    <2> QED
      BY <2>1, <2>2
  <1>6. CASE SkipBlank
    BY <1>1, <1>6
  <1>7. CASE AddMarkdownTable
    <2>1. is_table /\ Render("table", 0, block_end)
      BY <1>7 DEF AddMarkdownTable
    <2>2. is_pipe(index) /\ block_end > index
      BY <2>1 DEF is_table
    <2>3. /\ block_end \in index .. Len(lines)
          /\ \A i \in index .. block_end : is_pipe(i)
          /\ ~is_pipe(block_end + 1)
      BY <1>1, <2>2, BlockEnd
    <2>4. block_end \in Nat \ {0} /\ block_end + 1 \in Nat \ {0}
          /\ \A i \in index .. block_end : i \in Nat \ {0}
      BY <1>1, <1>2, <2>3
    <2>5. Turned("table", block_end)
      <3>1. index < block_end
        BY <1>1, <2>2, <2>4
      <3> QED
        BY <1>3, <1>4, <1>5, <2>1, <2>3, <2>4, <3>1 DEF Turned
    <2> QED
      BY <1>1, <2>1, <2>4, <2>5 DEF BlockKinds
  <1>8. ASSUME NEW kind \in BlockKinds, kind # "table", NEW level \in Nat,
               Render(kind, level, index), lines[index] # "blank", index \notin Headers(section)
        PROVE  \E k \in BlockKinds, l \in Nat, to \in Nat : Turned(k, to) /\ Render(k, l, to)
    <2>1. Turned(kind, index)
      <3>1. index \in index .. Len(lines) /\ \A i \in index .. index : i = index
        BY <1>1, <1>2
      <3> QED
        BY <1>8, <3>1 DEF Turned
    <2> QED
      BY <1>1, <1>8, <2>1
  <1>9. lines[index] \notin PipeKinds => index \notin Headers(section)
    BY DEF Headers, Pipes, lines
  <1>10. CASE AddHeading
    <2>1. /\ lines[index] \in {"heading 2", "heading 3"}
          /\ \E level \in {2, 3} : Render("heading", level, index)
      BY <1>10 DEF AddHeading
    <2>2. lines[index] \notin PipeKinds /\ lines[index] # "blank"
      BY <2>1 DEF PipeKinds
    <2>3. PICK level \in Nat : Render("heading", level, index)
      BY <2>1
    <2> QED
      BY <1>1, <1>8, <1>9, <2>2, <2>3 DEF BlockKinds
  <1>11. CASE AddListItem
    <2>1. lines[index] \in {"bullet", "number"} /\ Render(lines[index], 0, index)
      BY <1>11 DEF AddListItem
    <2>2. lines[index] \notin PipeKinds /\ lines[index] # "blank" /\ lines[index] # "table"
          /\ lines[index] \in BlockKinds
      BY <2>1 DEF PipeKinds, BlockKinds
    <2> QED
      BY <1>1, <1>8, <1>9, <2>1, <2>2
  <1>12. CASE AddParagraph
    <2>1. /\ lines[index] = "text" \/ (is_pipe(index) /\ ~is_table)
          /\ Render("paragraph", 0, index)
      BY <1>12 DEF AddParagraph
    <2>2. lines[index] # "blank"
      BY <1>1, <1>4, <2>1
    <2>3. index \notin Headers(section)
      BY <1>5, <1>9, <2>1 DEF PipeKinds
    <2> QED
      BY <1>1, <1>8, <2>1, <2>2, <2>3 DEF BlockKinds
  <1> QED
    BY <1>6, <1>7, <1>10, <1>11, <1>12 DEF BodyLine

-------------------------------------------------------------------------------
(***************************************************************************)
(* Every step keeps the types and the phases.                              *)
(***************************************************************************)

\* What the end of a section adds.
LEMMA EndSectionAdds ==
    ASSUME Types, Phases, EndSection
    PROVE  \E n \in Nat, table \in BOOLEAN : blocks' = blocks \o Ornaments(n, table)
  <1> DEFINE n == sections[section].bullets
             table == sections[section].headers > 0 /\ sections[section].rows > 0
             bullet == Block("bullet", 0, NoMark, section, 0, 0)
             last == Block("table", 0, NoMark, section, 0, 0)
             bullets == [i \in 1 .. n |-> bullet]
             tables == IF table THEN <<last>> ELSE <<>>
  <1>1. section \in DOMAIN sections /\ sections[section] \in Section
    BY DEF EndSection, Phases, Types
  <1>2. n \in Nat
    BY <1>1 DEF Section
  <1>3. bullet \in BlockType /\ last \in BlockType
    BY <1>1 DEF Types, Block, BlockType, BlockKinds
  <1>4. blocks' = (blocks \o bullets) \o tables
    BY DEF EndSection
  <1>5. Ornaments(n, table) = bullets \o tables
    BY DEF Ornaments
  <1> HIDE DEF n, bullet, last
  <1>6. bullets \in Seq(BlockType)
    <2>1. bullets \in [1 .. n -> BlockType]
      BY <1>3
    <2> QED
      BY <1>2, <2>1
  <1>7. tables \in Seq(BlockType) /\ table \in BOOLEAN
    BY <1>3
  <1> HIDE DEF bullets, tables, table
  <1>8. blocks' = blocks \o Ornaments(n, table)
    BY <1>4, <1>5, <1>6, <1>7, ConcatAssociative DEF Types
  <1> QED
    BY <1>2, <1>7, <1>8

\* What the end of the document adds when no section had bullets.
LEMMA SaveAdds ==
    ASSUME Types, Phases, Save, ~has_bullets PROVE blocks' = blocks \o Considerations
  <1> DEFINE head == Block("heading", 2, Len(sections), KeyConsiderations, 0, 0)
             bullet == Block("bullet", 0, NoMark, KeyConsiderations, 0, 0)
             bullets == [i \in 1 .. 3 |-> bullet]
  <1>1. head \in BlockType /\ bullet \in BlockType
    BY DEF Types, Block, BlockType, BlockKinds, KeyConsiderations
  <1>2. blocks' = (blocks \o <<head>>) \o bullets /\ Considerations = <<head>> \o bullets
    BY DEF Save, AddDefaultBullets, Considerations
  <1> HIDE DEF head, bullet
  <1>3. bullets \in Seq(BlockType) /\ <<head>> \in Seq(BlockType)
    <2>1. bullets \in [1 .. 3 -> BlockType]
      BY <1>1
    <2> QED
      BY <1>1, <2>1
  <1> HIDE DEF bullets
  <1> QED
    BY <1>2, <1>3, ConcatAssociative DEF Types

LEMMA EntriesConstant == sections' = sections => Entries' = Entries /\ Announced' = Announced
  BY DEF Entries, EntryOf, Announced, normal_level

LEMMA LevelsNormal == \A s : normal_level(s) \in {1, 2}
  BY DEF normal_level

LEMMA InitTyped == Init => Types /\ Phases
  <1> SUFFICES ASSUME Init PROVE Types /\ Phases
    OBVIOUS
  <1>1. sections \in Seq(Section) /\ Len(sections) \in Nat
    BY InputsAssumption DEF Init
  <1>2. section \in 1 .. Len(sections) + 1
    BY <1>1 DEF Init
  <1>3. 1 .. section - 1 = {} /\ ~has_bullets /\ has_bullets \in BOOLEAN
    <2>1. has_bullets = FALSE /\ section = 1
      BY DEF Init
    <2>2. 1 .. section - 1 = {}
      BY <2>1
    <2> QED
      BY <2>1, <2>2
  <1>4. Types
    BY <1>1, <1>2, <1>3 DEF Init, Types, Stages
  <1>5. Phases
    BY <1>3 DEF Init, Phases
  <1> QED
    BY <1>4, <1>5

LEMMA TypesKept == Types /\ Phases /\ [Next]_vars => Types' /\ Phases'
  <1> SUFFICES ASSUME Types, Phases, [Next]_vars PROVE Types' /\ Phases'
    OBVIOUS
  <1>t. Len(sections) \in Nat /\ DOMAIN sections = 1 .. Len(sections) /\ section \in Nat \ {0}
    BY DEF Types
  <1>1. CASE ComputeEntries
    <2>1. toc' = Entries'
      BY <1>1 DEF ComputeEntries, Entries, EntryOf, Announced, normal_level
    <2> QED
      BY <1>1, <2>1 DEF ComputeEntries, Types, Phases, Stages, lines
  <1>2. CASE EstimatePage
    BY <1>2, EntriesConstant DEF EstimatePage, Types, Phases, Stages, lines
  <1>3. CASE AddTableOfContents
    <2>1. Block("heading", 1, NoMark, 0, 0, 0) \in BlockType
      BY BlockTyped DEF BlockKinds
    <2>2. blocks' \in Seq(BlockType)
      BY <1>3, <2>1 DEF AddTableOfContents
    <2> QED
      BY <1>3, <2>2, EntriesConstant DEF AddTableOfContents, Types, Phases, Stages, lines
  <1>4. CASE AddSection
    <2>1. Block("heading", normal_level(section), section - 1, section, 0, 0) \in BlockType
      <3>1. normal_level(section) \in Nat /\ section - 1 \in Nat
        BY <1>t, LevelsNormal
      <3> QED
        BY <3>1, <1>t, BlockTyped DEF BlockKinds
    <2>2. blocks' \in Seq(BlockType)
      BY <1>4, <2>1, OneMoreBlock DEF AddSection, Types
    <2>3. section' = section /\ section \in DOMAIN sections /\ sections' = sections
      BY <1>4, <1>t DEF AddSection, rendering
    <2>4. lines' = lines /\ Len(lines) \in Nat
      BY <2>3, BodyTyped DEF lines, Types
    <2> QED
      BY <1>4, <2>2, <2>3, <2>4, EntriesConstant
      DEF AddSection, rendering, Types, Phases, Stages
  <1>5. CASE BodyLine
    <2>1. /\ pc = "body" /\ section \in DOMAIN sections /\ index <= Len(lines)
          /\ UNCHANGED <<rendering, section, has_bullets, pc>>
          /\ \/ SkipBlank
             \/ \E kind \in BlockKinds, level \in Nat, to \in Nat :
                   Turned(kind, to) /\ Render(kind, level, to)
      BY <1>5, BodyLineTurns
    <2>2. lines' = lines /\ Len(lines) \in Nat
      BY <2>1, BodyTyped DEF lines, Types, rendering
    <2>3. blocks' \in Seq(BlockType) /\ index' \in Nat \ {0} /\ index' <= Len(lines) + 1
      <3>1. CASE SkipBlank
        BY <2>1, <2>2, <3>1 DEF SkipBlank, Types
      <3>2. ASSUME NEW kind \in BlockKinds, NEW level \in Nat, NEW to \in Nat,
                   Turned(kind, to), Render(kind, level, to)
            PROVE  blocks' \in Seq(BlockType) /\ index' \in Nat \ {0} /\ index' <= Len(lines) + 1
        <4>1. Block(kind, level, NoMark, section, index, to) \in BlockType
          BY BlockTyped, <1>t DEF Types
        <4>2. blocks' \in Seq(BlockType)
          BY <3>2, <4>1, OneMoreBlock DEF Render, Types
        <4>3. index' = to + 1 /\ to <= Len(lines)
          BY <3>2, <2>2 DEF Render, Turned, Types
        <4> QED
          BY <2>2, <4>2, <4>3
      <3> QED
        BY <2>1, <3>1, <3>2
    <2> QED
      BY <2>1, <2>2, <2>3, EntriesConstant DEF rendering, Types, Phases
  <1>6. CASE EndSection
    <2>1. blocks' \in Seq(BlockType)
      <3>1. PICK n \in Nat, table \in BOOLEAN : blocks' = blocks \o Ornaments(n, table)
        BY <1>6, EndSectionAdds
      <3> QED
        BY <1>t, <3>1, OrnamentsFacts, MoreBlocks DEF Types
    <2>2. section \in DOMAIN sections /\ sections' = sections /\ section' = section + 1
      BY <1>6, <1>t DEF EndSection, Phases, rendering
    <2>3. has_bullets' \in BOOLEAN
          /\ (has_bullets' <=> (has_bullets \/ sections[section].bullets > 0))
      BY <1>6 DEF EndSection, Types
    <2>4. has_bullets' <=> \E s \in 1 .. section' - 1 : sections[s].bullets > 0
      <3>1. 1 .. section' - 1 = (1 .. section - 1) \cup {section}
        BY <1>t, <2>2
      <3> QED
        BY <2>3, <3>1 DEF Phases
    <2> QED
      BY <1>6, <1>t, <2>1, <2>2, <2>3, <2>4, EntriesConstant
      DEF EndSection, rendering, Types, Phases, Stages
  <1>7. CASE Save
    <2>1. blocks' \in Seq(BlockType)
      <3>1. CASE has_bullets
        BY <1>7, <3>1 DEF Save, Types
      <3>2. CASE ~has_bullets
        BY <1>7, <1>t, <3>2, SaveAdds, ConsiderationsFacts, MoreBlocks DEF Types
      <3> QED
        BY <3>1, <3>2 DEF Types
    <2> QED
      BY <1>7, <1>t, <2>1, EntriesConstant DEF Save, rendering, Types, Phases, Stages
  <1>8. CASE UNCHANGED vars
    BY <1>8, EntriesConstant DEF vars, Types, Phases, lines
  <1> QED
    BY <1>1, <1>2, <1>3, <1>4, <1>5, <1>6, <1>7, <1>8 DEF Next

-------------------------------------------------------------------------------
(***************************************************************************)
(* The headings with a bookmark: one for each section begun, in order, and *)
(* behind them that of the key considerations, when the document has it.   *)
(***************************************************************************)
Heads == IF pc = "body" THEN section ELSE section - 1

MarkedRight(k) ==
    IF blocks[k].mark < Heads
    THEN /\ blocks[k].section = blocks[k].mark + 1
         /\ blocks[k].level = normal_level(blocks[k].mark + 1)
    ELSE /\ pc = "saved" /\ ~has_bullets
         /\ blocks[k].mark = Len(sections)
         /\ blocks[k].section = KeyConsiderations
         /\ blocks[k].level = 2

MarksInv ==
    /\ \A k \in Marked : MarkedRight(k)
    /\ \A j, k \in Marked : j < k => blocks[j].mark < blocks[k].mark
    /\ \A m \in 0 .. Heads - 1 : \E k \in Marked : blocks[k].mark = m
    /\ pc = "saved" /\ ~has_bullets => \E k \in Marked : blocks[k].mark = Len(sections)

\* Blocks without a bookmark change nothing.
LEMMA UnmarkedAdded ==
    ASSUME MarksInv, Heads' = Heads, sections' = sections, pc # "saved",
           pc' # "saved" \/ has_bullets', Marked' = Marked,
           \A k \in Marked : blocks'[k] = blocks[k]
    PROVE  MarksInv'
  <1>1. ASSUME NEW k \in Marked PROVE MarkedRight(k)'
    <2>1. MarkedRight(k) /\ blocks'[k] = blocks[k]
      BY <1>1 DEF MarksInv
    <2> QED
      BY <2>1 DEF MarkedRight, normal_level
  <1> QED
    BY <1>1 DEF MarksInv

LEMMA UnmarkedBehind ==
    ASSUME Types, NEW more \in Seq(BlockType), blocks' = blocks \o more,
           \A i \in 1 .. Len(more) : more[i].mark = NoMark
    PROVE  Marked' = Marked /\ \A k \in Marked : blocks'[k] = blocks[k]
  <1>1. /\ DOMAIN blocks = 1 .. Len(blocks) /\ DOMAIN blocks' = 1 .. Len(blocks) + Len(more)
        /\ Len(blocks) \in Nat /\ Len(more) \in Nat
        /\ \A k \in 1 .. Len(blocks) : blocks'[k] = blocks[k]
        /\ \A k \in DOMAIN blocks' : k \in 1 .. Len(blocks) \/
             \E i \in 1 .. Len(more) : k = Len(blocks) + i /\ blocks'[k] = more[i]
    BY MoreBlocks DEF Types
  <1>2. DOMAIN blocks \subseteq DOMAIN blocks'
    BY <1>1
  <1>3. Marked \subseteq Marked' /\ \A k \in Marked : blocks'[k] = blocks[k]
    BY <1>1, <1>2 DEF Marked
  <1>4. Marked' \subseteq Marked
    BY <1>1 DEF Marked
  <1> QED
    BY <1>3, <1>4

\* A block with a bookmark behind the others, and what follows it.
LEMMA MarkedBehind ==
    ASSUME Types, NEW more \in Seq(BlockType), blocks' = blocks \o more, Len(more) > 0,
           more[1].mark # NoMark,
           \A i \in 1 .. Len(more) : i # 1 => more[i].mark = NoMark
    PROVE  /\ Marked' = Marked \cup {Len(blocks) + 1}
           /\ blocks'[Len(blocks) + 1] = more[1]
           /\ \A k \in Marked : blocks'[k] = blocks[k] /\ k < Len(blocks) + 1
           /\ Marked \subseteq Nat /\ Len(blocks) \in Nat
  <1>1. /\ DOMAIN blocks = 1 .. Len(blocks) /\ DOMAIN blocks' = 1 .. Len(blocks) + Len(more)
        /\ Len(blocks) \in Nat /\ Len(more) \in Nat
        /\ \A k \in 1 .. Len(blocks) : blocks'[k] = blocks[k]
        /\ \A k \in 1 .. Len(more) : blocks'[Len(blocks) + k] = more[k]
        /\ \A k \in DOMAIN blocks' : k \in 1 .. Len(blocks) \/
             \E i \in 1 .. Len(more) : k = Len(blocks) + i /\ blocks'[k] = more[i]
    BY MoreBlocks DEF Types
  <1>2. DOMAIN blocks \subseteq DOMAIN blocks' /\ Len(blocks) + 1 \in DOMAIN blocks'
        /\ 1 \in 1 .. Len(more)
    BY <1>1
  <1>3. blocks'[Len(blocks) + 1] = more[1]
    BY <1>1, <1>2
  <1>4. \A k \in Marked : blocks'[k] = blocks[k] /\ k < Len(blocks) + 1 /\ k \in Nat
    BY <1>1 DEF Marked
  <1>5. Marked \cup {Len(blocks) + 1} \subseteq Marked'
    BY <1>1, <1>2, <1>3, <1>4 DEF Marked
  <1>6. ASSUME NEW k \in Marked' PROVE k \in Marked \cup {Len(blocks) + 1}
    <2>1. k \in DOMAIN blocks' /\ blocks'[k].mark # NoMark
      BY DEF Marked
    <2>2. CASE k \in 1 .. Len(blocks)
      BY <1>1, <2>1, <2>2 DEF Marked
    <2>3. ASSUME NEW i \in 1 .. Len(more), k = Len(blocks) + i, blocks'[k] = more[i]
          PROVE  k = Len(blocks) + 1
      <3>1. i = 1
        BY <2>1, <2>3
      <3> QED
        BY <2>3, <3>1
    <2> QED
      BY <1>1, <2>1, <2>2, <2>3
  <1> QED
    BY <1>1, <1>3, <1>4, <1>5, <1>6

LEMMA MarkTyped == Types => \A k \in Marked : blocks[k].mark \in Nat /\ k \in Nat
  <1> SUFFICES ASSUME Types, NEW k \in Marked PROVE blocks[k].mark \in Nat /\ k \in Nat
    OBVIOUS
  <1>1. blocks[k] \in BlockType /\ blocks[k].mark # NoMark /\ k \in Nat
    BY DEF Types, Marked
  <1> QED
    BY <1>1 DEF BlockType

\* A mark behind smaller ones keeps the order.
LEMMA OrderExtends ==
    ASSUME NEW S, S \subseteq Nat, NEW top \in Nat, NEW old, NEW new,
           \A k \in S : new[k] = old[k] /\ k < top /\ old[k].mark < new[top].mark,
           \A j, k \in S : j < k => old[j].mark < old[k].mark
    PROVE  \A j, k \in S \cup {top} : j < k => new[j].mark < new[k].mark
  <1> SUFFICES ASSUME NEW j \in S \cup {top}, NEW k \in S \cup {top}, j < k
               PROVE  new[j].mark < new[k].mark
    OBVIOUS
  <1>1. j \in S
    <2>1. CASE j = top /\ k = top
      BY <2>1
    <2>2. CASE j = top /\ k \in S
      <3>1. k < top /\ k \in Nat
        BY <2>2
      <3> QED
        BY <2>2, <3>1
    <2> QED
      BY <2>1, <2>2
  <1> QED
    BY <1>1

LEMMA InitMarks == Init => MarksInv
  <1> SUFFICES ASSUME Init PROVE MarksInv
    OBVIOUS
  <1>1. blocks = <<>> /\ section = 1 /\ pc = "entries"
    BY DEF Init
  <1>2. Marked = {} /\ Heads - 1 = -1 /\ 0 .. -1 = {}
    BY <1>1 DEF Marked, Heads
  <1> QED
    BY <1>1, <1>2 DEF MarksInv

LEMMA MarksKept == Types /\ Phases /\ MarksInv /\ [Next]_vars => MarksInv'
  <1> SUFFICES ASSUME Types, Phases, MarksInv, [Next]_vars PROVE MarksInv'
    OBVIOUS
  <1>t. Len(sections) \in Nat /\ DOMAIN sections = 1 .. Len(sections) /\ section \in Nat \ {0}
        /\ blocks \in Seq(BlockType)
    BY DEF Types
  <1>1. CASE ComputeEntries
    BY <1>1, UnmarkedAdded DEF ComputeEntries, Heads, Marked
  <1>2. CASE EstimatePage
    BY <1>2, UnmarkedAdded DEF EstimatePage, Heads, Marked
  <1>3. CASE AddTableOfContents
    <2>1. blocks = <<>> /\ pc = "pages" /\ pc' = "sections" /\ sections' = sections
          /\ section' = section
      BY <1>3 DEF AddTableOfContents, Phases
    <2>2. Marked = {}
      BY <2>1 DEF Marked
    <2>3. Marked' = {}
      BY <1>3 DEF Marked, AddTableOfContents, Block
    <2>4. Heads' = Heads
      BY <2>1 DEF Heads
    <2> QED
      BY <2>1, <2>2, <2>3, <2>4, UnmarkedAdded
  <1>4. CASE AddSection
    <2> DEFINE b == Block("heading", normal_level(section), section - 1, section, 0, 0)
    <2>1. /\ pc = "sections" /\ pc' = "body" /\ sections' = sections /\ section' = section
          /\ blocks' = Append(blocks, b) /\ section <= Len(sections)
      BY <1>4 DEF AddSection, rendering
    <2>2. /\ b \in BlockType /\ b.mark = section - 1 /\ b.section = section
          /\ b.level = normal_level(section)
      BY <1>t, LevelsNormal DEF Block, BlockType, BlockKinds
    <2> HIDE DEF b
    <2>3. blocks' = blocks \o <<b>> /\ <<b>> \in Seq(BlockType) /\ Len(<<b>>) = 1 /\ <<b>>[1] = b
          /\ \A i \in 1 .. Len(<<b>>) : i # 1 => <<b>>[i].mark = NoMark
      BY <1>t, <2>1, <2>2, AppendIsConcat
    <2>4. section - 1 # NoMark
      BY <1>t DEF NoMark
    <2> DEFINE top == Len(blocks) + 1
    <2>5. /\ Marked' = Marked \cup {top}
          /\ blocks'[top] = b
          /\ \A k \in Marked : blocks'[k] = blocks[k] /\ k < top
          /\ Marked \subseteq Nat /\ top \in Nat
      <3>1. Len(<<b>>) > 0 /\ <<b>>[1].mark # NoMark
        BY <2>2, <2>3, <2>4
      <3> DEFINE more == <<b>>
      <3>2. /\ more \in Seq(BlockType) /\ blocks' = blocks \o more /\ Len(more) > 0
            /\ more[1].mark # NoMark /\ more[1] = b
            /\ \A i \in 1 .. Len(more) : i # 1 => more[i].mark = NoMark
        BY <2>3, <3>1
      <3> HIDE DEF more
      <3>3. /\ Marked' = Marked \cup {Len(blocks) + 1}
            /\ blocks'[Len(blocks) + 1] = more[1]
            /\ \A k \in Marked : blocks'[k] = blocks[k] /\ k < Len(blocks) + 1
            /\ Marked \subseteq Nat /\ Len(blocks) \in Nat
        BY <3>2, MarkedBehind
      <3>4. top \in Nat /\ top = Len(blocks) + 1
        BY <3>3
      <3> HIDE DEF top
      <3> QED
        BY <3>2, <3>3, <3>4
    <2> HIDE DEF top
    <2>6. Heads = section - 1 /\ Heads' = section
      BY <2>1 DEF Heads
    <2>7. ASSUME NEW k \in Marked
          PROVE  blocks'[k] = blocks[k] /\ blocks[k].mark < section - 1 /\ MarkedRight(k)'
      <3>1. MarkedRight(k) /\ blocks'[k] = blocks[k] /\ blocks[k].mark \in Int
        BY <2>5, MarkTyped DEF MarksInv
      <3>2. blocks[k].mark < section - 1
        BY <2>1, <2>6, <3>1 DEF MarkedRight
      <3>3. blocks'[k].mark < Heads'
        BY <1>t, <2>6, <3>1, <3>2
      <3> QED
        BY <2>1, <2>6, <3>1, <3>2, <3>3 DEF MarkedRight, normal_level
    <2>8. ASSUME NEW k, k = top PROVE MarkedRight(k)'
      <3>1. section - 1 < Heads' /\ (section - 1) + 1 = section
        BY <1>t, <2>6
      <3>2. normal_level(section)' = normal_level(section)
        BY <2>1 DEF normal_level
      <3> QED
        BY <2>1, <2>2, <2>5, <2>8, <3>1, <3>2 DEF MarkedRight, normal_level
    <2>9. \A j, k \in Marked' : j < k => blocks'[j].mark < blocks'[k].mark
      BY <2>2, <2>5, <2>7, OrderExtends DEF MarksInv
    <2>10. ASSUME NEW m \in 0 .. Heads' - 1 PROVE \E k \in Marked' : blocks'[k].mark = m
      <3>1. m \in 0 .. Heads - 1 \/ m = section - 1
        BY <1>t, <2>6
      <3> QED
        BY <2>2, <2>5, <3>1 DEF MarksInv
    <2> QED
      BY <2>1, <2>5, <2>7, <2>8, <2>9, <2>10 DEF MarksInv
  <1>5. CASE BodyLine
    <2>1. /\ pc = "body" /\ pc' = pc /\ sections' = sections /\ section' = section
          /\ \/ SkipBlank
             \/ \E kind \in BlockKinds, level \in Nat, to \in Nat :
                   Turned(kind, to) /\ Render(kind, level, to)
      BY <1>5, BodyLineTurns DEF rendering
    <2>2. Heads' = Heads
      BY <2>1 DEF Heads
    <2>3. CASE SkipBlank
      BY <2>1, <2>2, <2>3, UnmarkedAdded DEF SkipBlank, Marked
    <2>4. ASSUME NEW kind \in BlockKinds, NEW level \in Nat, NEW to \in Nat,
                 Render(kind, level, to)
          PROVE  MarksInv'
      <3> DEFINE b == Block(kind, level, NoMark, section, index, to)
      <3>1. b \in BlockType /\ b.mark = NoMark /\ blocks' = Append(blocks, b)
        BY <2>4 DEF Types, Block, BlockType, Render
      <3> HIDE DEF b
      <3>2. blocks' = blocks \o <<b>> /\ <<b>> \in Seq(BlockType)
            /\ \A i \in 1 .. Len(<<b>>) : <<b>>[i].mark = NoMark
        BY <1>t, <3>1, AppendIsConcat
      <3> QED
        BY <2>1, <2>2, <3>2, UnmarkedBehind, UnmarkedAdded
    <2> QED
      BY <2>1, <2>3, <2>4
  <1>6. CASE EndSection
    <2>1. /\ pc = "body" /\ pc' = "sections" /\ sections' = sections /\ section' = section + 1
      BY <1>6 DEF EndSection, rendering
    <2>2. Heads' = Heads
      BY <1>t, <2>1 DEF Heads
    <2>3. PICK n \in Nat, table \in BOOLEAN : blocks' = blocks \o Ornaments(n, table)
      BY <1>6, EndSectionAdds
    <2>4. Marked' = Marked /\ \A k \in Marked : blocks'[k] = blocks[k]
      BY <1>t, <2>3, OrnamentsFacts, UnmarkedBehind
    <2> QED
      BY <2>1, <2>2, <2>4, UnmarkedAdded
  <1>7. CASE Save
    <2>1. /\ pc = "sections" /\ pc' = "saved" /\ sections' = sections /\ section' = section
          /\ has_bullets' = has_bullets /\ has_bullets \in BOOLEAN
          /\ section = Len(sections) + 1
      BY <1>7, <1>t DEF Save, rendering, Types
    <2>2. Heads' = Heads /\ Heads = Len(sections)
      BY <1>t, <2>1 DEF Heads
    <2>3. CASE has_bullets
      <3>1. blocks' = blocks
        BY <1>7, <2>3 DEF Save
      <3> QED
        BY <2>1, <2>2, <2>3, <3>1, UnmarkedAdded DEF Marked
    <2>4. CASE ~has_bullets
      <3>1. blocks' = blocks \o Considerations
        BY <1>7, <2>4, SaveAdds
      <3> DEFINE b == Block("heading", 2, Len(sections), KeyConsiderations, 0, 0)
      <3>2. b.mark = Len(sections) /\ b.section = KeyConsiderations /\ b.level = 2
        BY DEF Block
      <3>3. /\ Considerations \in Seq(BlockType) /\ Len(Considerations) = 4
            /\ Considerations[1] = b
            /\ \A i \in 1 .. Len(Considerations) : i # 1 => Considerations[i].mark = NoMark
      <4>1. \A i \in 1 .. 4 : i # 1 => Considerations[i].mark = NoMark
        BY <1>t, ConsiderationsFacts
      <4> QED
        BY <1>t, <4>1, ConsiderationsFacts
      <3>4. Len(sections) # NoMark
        BY <1>t DEF NoMark
      <3> HIDE DEF b
      <3> DEFINE top == Len(blocks) + 1
      <3>5. /\ Marked' = Marked \cup {top}
            /\ blocks'[top] = b
            /\ \A k \in Marked : blocks'[k] = blocks[k] /\ k < top
            /\ Marked \subseteq Nat /\ top \in Nat
        <4>1. Len(Considerations) > 0 /\ Considerations[1].mark # NoMark
          BY <3>2, <3>3, <3>4
        <4>2. /\ Marked' = Marked \cup {Len(blocks) + 1}
              /\ blocks'[Len(blocks) + 1] = Considerations[1]
              /\ \A k \in Marked : blocks'[k] = blocks[k] /\ k < Len(blocks) + 1
              /\ Marked \subseteq Nat /\ Len(blocks) \in Nat
          BY <3>1, <3>3, <4>1, MarkedBehind
        <4> QED
          BY <3>3, <4>2
      <3> HIDE DEF top
      <3>6. ASSUME NEW k \in Marked
            PROVE  blocks'[k] = blocks[k] /\ blocks[k].mark < Len(sections) /\ MarkedRight(k)'
        <4>1. MarkedRight(k) /\ blocks'[k] = blocks[k]
          BY <3>5 DEF MarksInv
        <4>2. blocks[k].mark < Len(sections)
          BY <2>1, <2>2, <4>1 DEF MarkedRight
        <4> QED
          BY <2>1, <2>2, <4>1, <4>2 DEF MarkedRight, normal_level
      <3>7. ASSUME NEW k, k = top PROVE MarkedRight(k)'
        <4>1. ~(Len(sections) < Heads')
          BY <1>t, <2>2
        <4> QED
          BY <2>1, <2>4, <3>2, <3>5, <3>7, <4>1 DEF MarkedRight
      <3>8. \A j, k \in Marked' : j < k => blocks'[j].mark < blocks'[k].mark
        BY <3>2, <3>5, <3>6, OrderExtends DEF MarksInv
      <3>9. \A m \in 0 .. Heads' - 1 : \E k \in Marked' : blocks'[k].mark = m
        BY <2>2, <3>5 DEF MarksInv
      <3>10. \E k \in Marked' : blocks'[k].mark = Len(sections')
        BY <2>1, <3>2, <3>5
      <3> QED
        BY <3>5, <3>6, <3>7, <3>8, <3>9, <3>10 DEF MarksInv
    <2> QED
      BY <2>1, <2>3, <2>4
  <1>8. CASE UNCHANGED vars
    <2>1. UNCHANGED <<Marked, Heads>> /\ \A k : MarkedRight(k)' <=> MarkedRight(k)
      BY <1>8 DEF vars, Marked, Heads, MarkedRight, normal_level
    <2> QED
      BY <1>8, <2>1 DEF vars, MarksInv
  <1> QED
    BY <1>1, <1>2, <1>3, <1>4, <1>5, <1>6, <1>7, <1>8 DEF Next

LEMMA MarksMatch == Types /\ Phases /\ MarksInv => EntriesMatchHeadings
  <1> SUFFICES ASSUME Types, Phases, MarksInv PROVE EntriesMatchHeadings
    OBVIOUS
  <1> DEFINE n == Len(sections)
  <1>1. /\ n \in Nat /\ DOMAIN sections = 1 .. n /\ section \in 1 .. n + 1
        /\ blocks \in Seq(BlockType) /\ sections \in Seq(Section)
    BY DEF Types
  <1>2. Heads <= n /\ Heads \in Nat
    BY <1>1 DEF Heads, Phases
  <1>3. /\ Entries \in Seq(Entry) /\ Len(Entries) = n + (IF Announced THEN 0 ELSE 1)
        /\ \A s \in 1 .. n : Entries[s] = EntryOf(s)
        /\ ~Announced => Entries[n + 1] = [section |-> KeyConsiderations, level |-> 2]
    BY <1>1, EntriesFacts
  <1>4. pc = "saved" => Heads = n /\ (has_bullets <=> Announced)
    <2>1. pc = "saved" => section - 1 = n
      BY <1>1 DEF Phases
    <2> QED
      BY <1>1, <2>1 DEF Phases, Heads, Announced
  <1> HIDE DEF n
  <1>5. ASSUME NEW k \in Marked
        PROVE  LET i == blocks[k].mark + 1
               IN  /\ i \in DOMAIN toc
                   /\ blocks[k].section = toc[i].section
                   /\ blocks[k].level = toc[i].level
    <2>1. MarkedRight(k) /\ blocks[k].mark \in Nat
      BY MarkTyped DEF MarksInv
    <2>2. toc = Entries
      <3>1. pc # "entries"
        BY DEF Phases, Marked
      <3> QED
        BY <3>1 DEF Phases
    <2>3. CASE blocks[k].mark < Heads
      <3>1. blocks[k].mark + 1 \in 1 .. n
        BY <1>1, <1>2, <2>1, <2>3
      <3>2. blocks[k].mark + 1 \in DOMAIN Entries
        BY <1>1, <1>3, <3>1
      <3> QED
        <4>1. toc[blocks[k].mark + 1] = EntryOf(blocks[k].mark + 1)
          BY <1>3, <2>2, <3>1
        <4> QED
          BY <2>1, <2>2, <2>3, <3>2, <4>1 DEF MarkedRight, EntryOf
    <2>4. CASE ~(blocks[k].mark < Heads)
      <3>1. pc = "saved" /\ ~has_bullets /\ blocks[k].mark = n
        BY <2>1, <2>4 DEF MarkedRight, n
      <3>2. ~Announced
        BY <1>4, <3>1
      <3>3. n + 1 \in DOMAIN Entries
        BY <1>1, <1>3, <3>2
      <3> QED
        BY <1>3, <2>1, <2>2, <2>4, <3>1, <3>2, <3>3 DEF MarkedRight
    <2> QED
      BY <2>3, <2>4
  <1>6. ASSUME pc = "saved", NEW i \in DOMAIN toc PROVE \E k \in Marked : blocks[k].mark = i - 1
    <2>1. toc = Entries
      BY <1>6 DEF Phases
    <2>2. i \in Nat /\ 1 <= i /\ i <= n + (IF Announced THEN 0 ELSE 1)
      BY <1>1, <1>3, <2>1
    <2>3. CASE i <= n
      <3>1. i - 1 \in 0 .. Heads - 1
        BY <1>1, <1>4, <1>6, <2>2, <2>3
      <3> QED
        BY <3>1 DEF MarksInv
    <2>4. CASE ~(i <= n)
      <3>1. ~Announced /\ i - 1 = n
        BY <1>1, <2>2, <2>4
      <3> QED
        BY <1>4, <1>6, <3>1 DEF MarksInv, n
    <2> QED
      BY <2>3, <2>4
  <1> QED
    BY <1>5, <1>6 DEF EntriesMatchHeadings, MarksInv

\* The table of contents, which _compute_toc_entries works out beforehand
\* (services/docx_builder.py:346-386), matches the headings that build renders.
THEOREM EntriesHold == Spec => []EntriesMatchHeadings
  <1>1. Init => Types /\ Phases /\ MarksInv
    BY InitTyped, InitMarks
  <1>2. Types /\ Phases /\ MarksInv /\ [Next]_vars => (Types /\ Phases /\ MarksInv)'
    BY TypesKept, MarksKept
  <1>3. Types /\ Phases /\ MarksInv => EntriesMatchHeadings
    BY MarksMatch
  <1> QED
    BY <1>1, <1>2, <1>3, PTL DEF Spec

-------------------------------------------------------------------------------
(***************************************************************************)
(* The pages.                                                              *)
(***************************************************************************)
PagesInv ==
    /\ pages \in Seq(Nat) /\ Len(pages) <= Len(toc)
    /\ pc # "entries" => cumulative = sum_of(SubSeq(sizes, 1, Len(pages)))
    /\ \A i \in DOMAIN pages : pages[i] = 2 + chars_before(i) \div CharsPerPage
    /\ pc \notin {"entries", "pages"} => Len(pages) = Len(toc)

\* No entry is without characters: a heading alone is counted.
LEMMA SizesTyped ==
    ASSUME Types, Phases, pc # "entries"
    PROVE  /\ toc \in Seq(Entry) /\ Len(toc) \in Nat
           /\ sizes \in Seq(Nat) /\ Len(sizes) = Len(toc) /\ DOMAIN sizes = 1 .. Len(toc)
           /\ \A i \in DOMAIN sizes : sizes[i] > 0
  <1> DEFINE n == Len(sections)
  <1>1. n \in Nat /\ DOMAIN sections = 1 .. n /\ sections \in Seq(Section) /\ toc = Entries
    BY DEF Types, Phases
  <1>2. /\ Entries \in Seq(Entry) /\ Len(Entries) = n + (IF Announced THEN 0 ELSE 1)
        /\ \A s \in 1 .. n : Entries[s] = EntryOf(s)
        /\ ~Announced => Entries[n + 1] = [section |-> KeyConsiderations, level |-> 2]
    BY <1>1, EntriesFacts
  <1> HIDE DEF n
  <1>3. toc \in Seq(Entry) /\ DOMAIN toc = 1 .. Len(toc) /\ Len(toc) \in Nat
    BY <1>1, <1>2
  <1>4. ASSUME NEW i \in 1 .. Len(toc) PROVE section_chars(toc[i]) \in Nat \ {0}
    <2>1. CASE i <= n
      <3>1. i \in 1 .. n /\ toc[i].section = i
        <4>1. i \in 1 .. n
          BY <1>3, <2>1
        <4>2. toc[i] = EntryOf(i)
          BY <1>1, <1>2, <4>1
        <4> QED
          BY <4>1, <4>2 DEF EntryOf
      <3> DEFINE c == sections[i].chars
                 w == sections[i].rows
      <3>2. c \in Nat /\ w \in Nat
        <4>1. sections[i] \in Section
          BY <1>1, <3>1
        <4> QED
          BY <4>1 DEF Section
      <3>3. section_chars(toc[i]) = 60 + 40 + (c + w * 90)
        BY <3>1
        DEF section_chars, KeyConsiderations, HeadingCharOverhead, SectionCharOverhead,
            TableRowChars
      <3> HIDE DEF c, w
      <3> QED
        BY <3>2, <3>3
    <2>2. CASE ~(i <= n)
      <3>1. toc[i].section = KeyConsiderations
        <4>1. ~Announced /\ i = n + 1
          BY <1>1, <1>2, <2>2
        <4> QED
          BY <1>1, <1>2, <4>1
      <3> QED
        BY <3>1
        DEF section_chars, HeadingCharOverhead, SectionCharOverhead, SynthesizedBulletsChars
    <2> QED
      BY <2>1, <2>2
  <1>5. sizes \in [1 .. Len(toc) -> Nat \ {0}]
    BY <1>3, <1>4 DEF sizes
  <1> QED
    BY <1>3, <1>5

\* What stands before an entry is less than the whole, and grows.
LEMMA CharsBefore ==
    ASSUME Types, Phases, pc # "entries", NEW i \in 1 .. Len(toc)
    PROVE  /\ chars_before(i) \in Nat /\ total_chars \in Nat /\ chars_before(i) < total_chars
           /\ i > 1 => /\ i - 1 \in 1 .. Len(toc)
                       /\ chars_before(i - 1) \in Nat
                       /\ chars_before(i - 1) <= chars_before(i)
  <1> DEFINE S(k) == sum_of(SubSeq(sizes, 1, k))
  <1>1. /\ sizes \in Seq(Nat) /\ Len(sizes) = Len(toc) /\ Len(toc) \in Nat
        /\ sizes[i] \in Nat /\ sizes[i] > 0 /\ i \in Nat /\ i >= 1 /\ i <= Len(toc)
    BY SizesTyped
  <1>2. S(Len(sizes)) = total_chars
    BY <1>1, SubSeqFull DEF total_chars
  <1>3. \A j \in 0 .. Len(sizes) : S(j) \in Nat /\ S(j) <= S(Len(sizes))
    BY <1>1, SumsGrow
  <1>4. S(i) = S(i - 1) + sizes[i]
    <2>1. i - 1 \in Nat /\ i - 1 < Len(sizes) /\ (i - 1) + 1 = i
      BY <1>1
    <2>2. S((i - 1) + 1) = S(i - 1) + sizes[(i - 1) + 1]
      BY <1>1, <2>1, SumOneMore
    <2> QED
      BY <2>1, <2>2
  <1>5. i > 1 => S((i - 1) - 1) <= S(i - 1)
    <2>1. SUFFICES ASSUME i > 1 PROVE S((i - 1) - 1) <= S(i - 1)
      OBVIOUS
    <2>2. i - 1 \in Nat /\ i - 1 <= Len(sizes) /\ (i - 1) - 1 \in 0 .. i - 1
      BY <1>1, <2>1
    <2> QED
      BY <1>1, <2>2, SumsGrow
  <1>6. \A k : chars_before(k) = S(k - 1)
    BY DEF chars_before
  <1> HIDE DEF S
  <1>7. i \in 0 .. Len(sizes) /\ i - 1 \in 0 .. Len(sizes)
        /\ (i > 1 => i - 1 \in 1 .. Len(toc) /\ (i - 1) - 1 \in 0 .. Len(sizes))
    BY <1>1
  <1>8. S(i) \in Nat /\ S(i - 1) \in Nat /\ total_chars \in Nat /\ S(i) <= total_chars
    <2>1. Len(sizes) \in 0 .. Len(sizes)
      BY <1>1
    <2> QED
      BY <1>2, <1>3, <1>7, <2>1
  <1>9. S(i - 1) < total_chars
    BY <1>1, <1>4, <1>8
  <1>10. i > 1 => S((i - 1) - 1) \in Nat
    BY <1>3, <1>7
  <1> QED
    BY <1>5, <1>6, <1>7, <1>8, <1>9, <1>10

\* The cap changes no page.
LEMMA PageEstimated ==
    ASSUME Types, Phases, PagesInv, EstimatePage
    PROVE  /\ Len(pages) + 1 \in 1 .. Len(toc)
           /\ pages' = Append(pages, 2 + chars_before(Len(pages) + 1) \div CharsPerPage)
           /\ 2 + chars_before(Len(pages) + 1) \div CharsPerPage \in Nat
           /\ cumulative' = sum_of(SubSeq(sizes, 1, Len(pages) + 1))
  <1> DEFINE k == Len(pages)
             c == chars_before(k + 1)
  <1>1. pc = "pages" /\ k < Len(toc) /\ cumulative' = cumulative + sizes[k + 1]
    BY DEF EstimatePage
  <1>2. k \in Nat /\ Len(toc) \in Nat /\ sizes \in Seq(Nat) /\ Len(sizes) = Len(toc)
    BY <1>1, SizesTyped DEF PagesInv
  <1>3. k + 1 \in 1 .. Len(toc) /\ (k + 1) - 1 = k
    BY <1>1, <1>2
  <1>4. c = cumulative
    BY <1>1, <1>3 DEF PagesInv, chars_before
  <1>5. c \in Nat /\ total_chars \in Nat /\ c < total_chars
    BY <1>1, <1>3, CharsBefore
  <1>6. cumulative' = sum_of(SubSeq(sizes, 1, k + 1))
    <2>1. sum_of(SubSeq(sizes, 1, k + 1)) = sum_of(SubSeq(sizes, 1, k)) + sizes[k + 1]
      BY <1>1, <1>2, SumOneMore
    <2> QED
      BY <1>1, <2>1 DEF PagesInv
  <1> HIDE DEF c, k
  <1>7. /\ c \div CharsPerPage \in Nat
        /\ 2 + c \div CharsPerPage <= max_page
    <2>1. /\ c \div CharsPerPage <= (total_chars - 1) \div CharsPerPage
          /\ (total_chars + CharsPerPage - 1) \div CharsPerPage - 1
                = (total_chars - 1) \div CharsPerPage
          /\ c \div CharsPerPage \in Nat
      BY <1>5, LastPage
    <2>2. max_page = 2 + (total_chars - 1) \div CharsPerPage
      BY <2>1 DEF max_page, total_pages
    <2>3. (total_chars - 1) \div CharsPerPage \in Int
      BY <1>5 DEF CharsPerPage
    <2> QED
      BY <2>1, <2>2, <2>3
  <1>8. max_page \in Int
    BY <1>5 DEF max_page, total_pages, CharsPerPage
  <1>9. pages' = Append(pages, 2 + c \div CharsPerPage)
    <2>1. ~(2 + c \div CharsPerPage > max_page)
      BY <1>7, <1>8
    <2> QED
      BY <1>4, <2>1 DEF EstimatePage
  <1>10. 2 + c \div CharsPerPage \in Nat
    BY <1>7
  <1> QED
    BY <1>3, <1>6, <1>9, <1>10 DEF c, k

LEMMA InitPages == Init => PagesInv
  BY DEF Init, PagesInv

LEMMA PagesKept == Types /\ Phases /\ PagesInv /\ [Next]_vars => PagesInv'
  <1> SUFFICES ASSUME Types, Phases, PagesInv, [Next]_vars PROVE PagesInv'
    OBVIOUS
  <1>u. ASSUME UNCHANGED <<sections, toc>> PROVE sizes' = sizes
    BY <1>u DEF sizes, section_chars
  <1>1. CASE ComputeEntries
    <2>1. pages = <<>> /\ pages' = <<>> /\ cumulative' = 0 /\ pc' = "pages"
      BY <1>1 DEF ComputeEntries, Phases
    <2>2. Len(toc') \in Nat /\ sizes' \in Seq(Nat)
      <3>1. Types' /\ Phases' /\ pc' # "entries"
        BY <2>1, TypesKept
      <3>2. (Types /\ Phases /\ pc # "entries" => Len(toc) \in Nat /\ sizes \in Seq(Nat))'
        BY SizesTyped, PTL
      <3> QED
        BY <3>1, <3>2
    <2>3. sum_of(SubSeq(sizes', 1, Len(pages'))) = 0
      <3>1. SubSeq(sizes', 1, Len(pages')) = <<>>
        BY <2>1, <2>2
      <3> QED
        BY <3>1, SumNothing
    <2> QED
      BY <2>1, <2>2, <2>3 DEF PagesInv
  <1>2. CASE EstimatePage
    <2> DEFINE k == Len(pages)
               page == 2 + chars_before(k + 1) \div CharsPerPage
    <2>1. /\ k + 1 \in 1 .. Len(toc) /\ pages' = Append(pages, page) /\ page \in Nat
          /\ cumulative' = sum_of(SubSeq(sizes, 1, k + 1))
          /\ pages \in Seq(Nat) /\ k \in Nat
      BY <1>2, PageEstimated DEF PagesInv
    <2>2. /\ UNCHANGED <<sections, toc, pc>> /\ pc = "pages" /\ sizes' = sizes
      BY <1>2, <1>u DEF EstimatePage
    <2>3. chars_before(k + 1)' = chars_before(k + 1)'
      OBVIOUS
    <2>4. \A i \in 1 .. k : pages[i] = 2 + chars_before(i) \div CharsPerPage
      BY <2>1 DEF PagesInv
    <2> HIDE DEF page
    <2>5. /\ pages' \in Seq(Nat) /\ Len(pages') = k + 1 /\ DOMAIN pages' = 1 .. k + 1
          /\ pages'[k + 1] = page /\ \A i \in 1 .. k : pages'[i] = pages[i]
      BY <2>1
    <2>6. ASSUME NEW i \in 1 .. k + 1
          PROVE  pages'[i] = 2 + sum_of(SubSeq(sizes, 1, i - 1)) \div CharsPerPage
      <3>1. CASE i = k + 1
        BY <2>5, <3>1 DEF page, chars_before
      <3>2. CASE i # k + 1
        <4>1. i \in 1 .. k
          BY <2>1, <3>2
        <4> QED
          BY <2>4, <2>5, <4>1 DEF chars_before
      <3> QED
        BY <3>1, <3>2
    <2> HIDE DEF k
    <2> QED
      BY <2>1, <2>2, <2>5, <2>6 DEF PagesInv, chars_before
  <1>3. CASE AddTableOfContents
    BY <1>3, <1>u DEF AddTableOfContents, PagesInv, chars_before
  <1>4. ASSUME UNCHANGED rendering, pc \notin {"entries", "pages"},
               pc' \notin {"entries", "pages"}
        PROVE  PagesInv'
    BY <1>4, <1>u DEF rendering, PagesInv, chars_before
  <1>5. CASE AddSection
    BY <1>4, <1>5 DEF AddSection
  <1>6. CASE BodyLine
    BY <1>4, <1>6 DEF BodyLine, InBody
  <1>7. CASE EndSection
    BY <1>4, <1>7 DEF EndSection
  <1>8. CASE Save
    BY <1>4, <1>8 DEF Save
  <1>9. CASE UNCHANGED vars
    BY <1>9, <1>u DEF vars, PagesInv, chars_before
  <1> QED
    BY <1>1, <1>2, <1>3, <1>5, <1>6, <1>7, <1>8, <1>9 DEF Next

LEMMA PagesEstimated == Types /\ Phases /\ PagesInv => PagesHonest
  <1> SUFFICES ASSUME Types, Phases, PagesInv PROVE PagesHonest
    OBVIOUS
  <1>1. ASSUME NEW i \in DOMAIN pages
        PROVE  /\ pages[i] = 2 + chars_before(i) \div CharsPerPage
               /\ pages[i] <= 2 + (total_chars - 1) \div CharsPerPage
               /\ i > 1 => pages[i - 1] <= pages[i]
    <2>1. pc # "entries"
      BY DEF Phases
    <2>2. DOMAIN pages = 1 .. Len(pages) /\ Len(pages) \in Nat /\ Len(toc) \in Nat
          /\ Len(pages) <= Len(toc)
      BY <2>1, SizesTyped DEF PagesInv
    <2>3. i \in 1 .. Len(toc) /\ (i > 1 => i - 1 \in DOMAIN pages)
      BY <2>2
    <2>4. pages[i] = 2 + chars_before(i) \div CharsPerPage
      BY DEF PagesInv
    <2>5. /\ chars_before(i) \in Nat /\ total_chars \in Nat /\ chars_before(i) < total_chars
          /\ i > 1 => chars_before(i - 1) \in Nat /\ chars_before(i - 1) <= chars_before(i)
      BY <2>1, <2>3, CharsBefore
    <2>6. /\ chars_before(i) \div CharsPerPage <= (total_chars - 1) \div CharsPerPage
          /\ chars_before(i) \div CharsPerPage \in Nat
      BY <2>5, LastPage
    <2>7. (total_chars - 1) \div CharsPerPage \in Int
      BY <2>5 DEF CharsPerPage
    <2>8. ASSUME i > 1 PROVE pages[i - 1] <= pages[i]
      <3>1. chars_before(i - 1) \div CharsPerPage <= chars_before(i) \div CharsPerPage
        BY <2>5, <2>8, PagesGrow
      <3>2. pages[i - 1] = 2 + chars_before(i - 1) \div CharsPerPage
        BY <2>3, <2>8 DEF PagesInv
      <3>3. chars_before(i - 1) \div CharsPerPage \in Int
        BY <2>5, <2>8 DEF CharsPerPage
      <3> QED
        BY <2>4, <2>6, <3>1, <3>2, <3>3
    <2> QED
      BY <2>4, <2>6, <2>7, <2>8
  <1> QED
    BY <1>1 DEF PagesHonest, PagesInv

\* The page numbers cached in the table of contents
\* (services/docx_builder.py:388-452) are those of the estimate, in order, and
\* none is past the end.
THEOREM PagesHold == Spec => []PagesHonest
  <1>1. Init => Types /\ Phases /\ PagesInv
    BY InitTyped, InitPages
  <1>2. Types /\ Phases /\ PagesInv /\ [Next]_vars => (Types /\ Phases /\ PagesInv)'
    BY TypesKept, PagesKept
  <1>3. Types /\ Phases /\ PagesInv => PagesHonest
    BY PagesEstimated
  <1> QED
    BY <1>1, <1>2, <1>3, PTL DEF Spec

-------------------------------------------------------------------------------
(***************************************************************************)
(* The lines of the bodies.                                                *)
(***************************************************************************)

\* Every line read that is not blank is shown.
Covered(s) ==
    \A i \in 1 .. LinesRead(s) :
      sections[s].body[i] # "blank" => \E n \in Shown(s) : i \in blocks[n].from .. blocks[n].to

\* A block shows lines that were read, and is a table exactly for a header.
RightOne(s, b) ==
    /\ \A i \in b.from .. b.to : i \in 1 .. LinesRead(s) /\ sections[s].body[i] # "blank"
    /\ IF b.kind = "table"
       THEN /\ b.from \in Headers(s) /\ b.from .. b.to \subseteq Pipes(s)
            /\ b.from < b.to /\ b.to + 1 \notin Pipes(s)
       ELSE b.from = b.to /\ b.from \notin Headers(s)

InOrder(s) == \A m, n \in Shown(s) : m < n => blocks[m].to < blocks[n].from

LinesOf(s) == Covered(s) /\ (\A n \in Shown(s) : RightOne(s, blocks[n])) /\ InOrder(s)

LEMMA LinesByParts == LinesOnce <=> \A s \in DOMAIN sections : LinesOf(s)
  BY DEF LinesOnce, LinesOf, Covered, RightOne, InOrder

LEMMA BodiesConstant ==
    ASSUME sections' = sections, NEW s
    PROVE  Pipes(s)' = Pipes(s) /\ Headers(s)' = Headers(s)
  BY DEF Pipes, Headers

LEMMA ShownTyped ==
    ASSUME Types, NEW s, NEW n \in Shown(s)
    PROVE  /\ n \in 1 .. Len(blocks) /\ Len(blocks) \in Nat
           /\ blocks[n].from \in Nat /\ blocks[n].to \in Nat
  <1>1. n \in 1 .. Len(blocks) /\ Len(blocks) \in Nat /\ blocks[n] \in BlockType
    BY DEF Types, Shown
  <1> QED
    BY <1>1 DEF BlockType

\* Nothing changes for a section of which nothing new is read or shown.
LEMMA LinesUntouched ==
    ASSUME NEW s, LinesOf(s), sections' = sections, LinesRead(s)' = LinesRead(s),
           Shown(s)' = Shown(s), \A n \in Shown(s) : blocks'[n] = blocks[n]
    PROVE  LinesOf(s)'
  <1>1. Pipes(s)' = Pipes(s) /\ Headers(s)' = Headers(s)
    BY BodiesConstant
  <1>2. Covered(s)'
    BY DEF LinesOf, Covered
  <1>3. InOrder(s)'
    BY DEF LinesOf, InOrder
  <1>4. ASSUME NEW n \in Shown(s) PROVE RightOne(s, blocks[n])'
    BY <1>1 DEF LinesOf, RightOne
  <1> QED
    BY <1>2, <1>3, <1>4 DEF LinesOf

\* Blocks that show no line of a body.
LEMMA UnshownBehind ==
    ASSUME Types, NEW s, NEW more \in Seq(BlockType), blocks' = blocks \o more,
           \A i \in 1 .. Len(more) : more[i].from = 0
    PROVE  Shown(s)' = Shown(s) /\ \A n \in Shown(s) : blocks'[n] = blocks[n]
  <1>1. /\ DOMAIN blocks = 1 .. Len(blocks) /\ DOMAIN blocks' = 1 .. Len(blocks) + Len(more)
        /\ Len(blocks) \in Nat /\ Len(more) \in Nat
        /\ \A k \in 1 .. Len(blocks) : blocks'[k] = blocks[k]
        /\ \A k \in DOMAIN blocks' : k \in 1 .. Len(blocks) \/
             \E i \in 1 .. Len(more) : k = Len(blocks) + i /\ blocks'[k] = more[i]
    BY MoreBlocks DEF Types
  <1>2. DOMAIN blocks \subseteq DOMAIN blocks'
    BY <1>1
  <1>3. Shown(s) \subseteq Shown(s)' /\ \A n \in Shown(s) : blocks'[n] = blocks[n]
    BY <1>1, <1>2 DEF Shown
  <1>4. Shown(s)' \subseteq Shown(s)
    BY <1>1 DEF Shown
  <1> QED
    BY <1>3, <1>4

\* A block that shows lines of the section being rendered.
LEMMA ShownBehind ==
    ASSUME Types, NEW b \in BlockType, blocks' = Append(blocks, b),
           b.section = section, b.from > 0, NEW s
    PROVE  /\ Shown(s)' = Shown(s) \cup (IF s = section THEN {Len(blocks) + 1} ELSE {})
           /\ blocks'[Len(blocks) + 1] = b
           /\ \A n \in Shown(s) : blocks'[n] = blocks[n]
  <1>1. /\ Len(blocks) \in Nat
        /\ DOMAIN blocks = 1 .. Len(blocks) /\ DOMAIN blocks' = 1 .. Len(blocks) + 1
        /\ \A k \in 1 .. Len(blocks) : blocks'[k] = blocks[k]
        /\ blocks'[Len(blocks) + 1] = b
        /\ \A k \in DOMAIN blocks' : k \in 1 .. Len(blocks) \/ k = Len(blocks) + 1
    BY OneMoreBlock DEF Types
  <1>2. DOMAIN blocks \subseteq DOMAIN blocks' /\ Len(blocks) + 1 \in DOMAIN blocks'
    BY <1>1
  <1>3. Shown(s) \subseteq Shown(s)' /\ \A n \in Shown(s) : blocks'[n] = blocks[n]
    BY <1>1, <1>2 DEF Shown
  <1>4. s = section => Len(blocks) + 1 \in Shown(s)'
    BY <1>1, <1>2 DEF Shown
  <1>5. ASSUME NEW k \in Shown(s)' PROVE k \in Shown(s) \/ (s = section /\ k = Len(blocks) + 1)
    BY <1>1 DEF Shown
  <1> QED
    BY <1>1, <1>3, <1>4, <1>5

LEMMA InitLines == Init => LinesOnce
  <1> SUFFICES ASSUME Init, NEW s \in DOMAIN sections PROVE LinesOf(s)
    BY LinesByParts
  <1>1. sections \in Seq(Section) /\ s \in Nat /\ s >= 1
    BY InputsAssumption DEF Init
  <1>2. Shown(s) = {} /\ LinesRead(s) = 0
    BY <1>1 DEF Init, Shown, LinesRead
  <1>3. 1 .. 0 = {}
    OBVIOUS
  <1> QED
    BY <1>2, <1>3 DEF LinesOf, Covered, InOrder

\* One more line, which is blank.
LEMMA BlankSkipped ==
    ASSUME Types, Phases, LinesOnce, pc = "body", section \in DOMAIN sections,
           index <= Len(lines), UNCHANGED <<rendering, section, has_bullets, pc>>, SkipBlank
    PROVE  LinesOf(section)'
  <1> DEFINE s == section
  <1>1. LinesOf(s)
    BY LinesByParts
  <1>2. /\ sections' = sections /\ section' = section /\ blocks' = blocks
        /\ LinesRead(s) = index - 1 /\ LinesRead(s)' = index /\ index \in Nat \ {0}
        /\ sections[s].body[index] = "blank"
    <2>1. index' = index + 1 /\ index \in Nat \ {0} /\ pc' = "body" /\ section \in Nat
      BY DEF SkipBlank, Types
    <2> QED
      BY <2>1 DEF SkipBlank, rendering, LinesRead, lines
  <1>3. Shown(s)' = Shown(s) /\ Pipes(s)' = Pipes(s) /\ Headers(s)' = Headers(s)
    BY <1>2 DEF Shown, Pipes, Headers
  <1> HIDE DEF s
  <1>4. \A i \in 1 .. index : i \in 1 .. index - 1 \/ i = index
    BY <1>2
  <1>5. 1 .. index - 1 \subseteq 1 .. index
    BY <1>2
  <1>6. Covered(s)'
    BY <1>1, <1>2, <1>3, <1>4 DEF LinesOf, Covered, s
  <1>7. InOrder(s)'
    BY <1>1, <1>2, <1>3 DEF LinesOf, InOrder, s
  <1>8. ASSUME NEW n \in Shown(s) PROVE RightOne(s, blocks[n])'
    BY <1>1, <1>2, <1>3, <1>5 DEF LinesOf, RightOne, s
  <1> QED
    BY <1>2, <1>3, <1>6, <1>7, <1>8 DEF LinesOf, s

\* The lines from index to `to` are rendered in one block.
LEMMA LineRendered ==
    ASSUME Types, Phases, LinesOnce, pc = "body", section \in DOMAIN sections,
           UNCHANGED <<rendering, section, has_bullets, pc>>,
           NEW kind \in BlockKinds, NEW level \in Nat, NEW to \in Nat,
           Turned(kind, to), Render(kind, level, to),
           NEW s \in DOMAIN sections, s = section
    PROVE  LinesOf(s)'
  <1> DEFINE b == Block(kind, level, NoMark, section, index, to)
             top == Len(blocks) + 1
  <1>1. /\ LinesOf(s) /\ sections' = sections /\ section' = section
        /\ blocks' = Append(blocks, b) /\ index' = to + 1
        /\ index \in Nat \ {0} /\ index <= to
    <2>1. Len(lines) \in Nat
      BY BodyTyped DEF Types, lines
    <2> QED
      BY <2>1, LinesByParts DEF rendering, Render, Turned, Types
  <1>2. LinesRead(s) = index - 1 /\ LinesRead(s)' = to
    BY <1>1 DEF LinesRead, Types
  <1>3. /\ b \in BlockType /\ b.section = section /\ b.kind = kind /\ b.from = index
        /\ b.to = to
    BY <1>1 DEF Block, BlockType, Types
  <1> HIDE DEF b
  <1>4. /\ Shown(s)' = Shown(s) \cup {top} /\ blocks'[top] = b
        /\ \A n \in Shown(s) : blocks'[n] = blocks[n]
    <2>1. b.from > 0
      BY <1>1, <1>3
    <2>2. /\ Shown(s)' = Shown(s) \cup {Len(blocks) + 1}
          /\ blocks'[Len(blocks) + 1] = b
          /\ \A n \in Shown(s) : blocks'[n] = blocks[n]
      BY <1>1, <1>3, <2>1, ShownBehind
    <2> QED
      BY <2>2
  <1>5. top \in Nat /\ top \notin Shown(s) /\ \A n \in Shown(s) : n \in Nat /\ n < top
    BY ShownTyped DEF Types
  <1> HIDE DEF top
  <1>6. Pipes(s)' = Pipes(s) /\ Headers(s)' = Headers(s)
    BY <1>1, BodiesConstant
  <1>7. ASSUME NEW i \in 1 .. to, sections[s].body[i] # "blank"
        PROVE  \E n \in Shown(s)' : i \in blocks'[n].from .. blocks'[n].to
    <2>1. CASE i <= index - 1
      <3>1. PICK n \in Shown(s) : i \in blocks[n].from .. blocks[n].to
        <4>1. i \in 1 .. index - 1
          BY <1>1, <2>1
        <4> QED
          BY <1>1, <1>2, <1>7, <4>1 DEF LinesOf, Covered
      <3> QED
        BY <1>4, <3>1
    <2>2. CASE ~(i <= index - 1)
      <3>1. i \in index .. to
        BY <1>1, <2>2
      <3> QED
        BY <1>3, <1>4, <3>1
    <2> QED
      BY <2>1, <2>2
  <1>8. ASSUME NEW n \in Shown(s) PROVE RightOne(s, blocks[n])'
    <2>1. RightOne(s, blocks[n])
      BY <1>1 DEF LinesOf
    <2>2. 1 .. index - 1 \subseteq 1 .. to
      BY <1>1
    <2> QED
      BY <1>1, <1>2, <1>4, <1>6, <2>1, <2>2 DEF RightOne
  <1>9. ASSUME NEW n, n = top PROVE RightOne(s, blocks[n])'
    <2>1. blocks'[n] = b
      BY <1>4, <1>9
    <2>2. ASSUME NEW i \in index .. to
          PROVE  i \in 1 .. to /\ sections[s].body[i] # "blank"
      BY <1>1 DEF Turned, lines
    <2> QED
      BY <1>1, <1>2, <1>3, <1>6, <2>1, <2>2 DEF RightOne, Turned
  <1>10. ASSUME NEW m \in Shown(s)', NEW n \in Shown(s)', m < n
         PROVE  blocks'[m].to < blocks'[n].from
    <2>1. m \in Shown(s)
      BY <1>4, <1>5, <1>10
    <2>2. CASE n \in Shown(s)
      BY <1>1, <1>4, <1>10, <2>1, <2>2 DEF LinesOf, InOrder
    <2>3. CASE n = top
      <3>1. RightOne(s, blocks[m]) /\ blocks[m].from \in Nat /\ blocks[m].to \in Nat
        BY <1>1, <2>1, ShownTyped DEF LinesOf
      <3>2. blocks[m].to \in blocks[m].from .. blocks[m].to
        <4>1. blocks[m].from <= blocks[m].to
          BY <3>1 DEF RightOne
        <4> QED
          BY <3>1, <4>1
      <3>3. blocks[m].to \in 1 .. index - 1
        BY <1>2, <3>1, <3>2 DEF RightOne
      <3>4. blocks[m].to < index
        BY <1>1, <3>3
      <3> QED
        BY <1>3, <1>4, <2>1, <2>3, <3>4
    <2> QED
      BY <1>4, <2>2, <2>3
  <1>11. Covered(s)'
    BY <1>1, <1>2, <1>7 DEF Covered
  <1>12. InOrder(s)'
    BY <1>10 DEF InOrder
  <1>13. \A n \in Shown(s)' : RightOne(s, blocks[n])'
    BY <1>4, <1>8, <1>9
  <1> QED
    BY <1>11, <1>12, <1>13 DEF LinesOf

LEMMA LinesKept == Types /\ Phases /\ LinesOnce /\ [Next]_vars => LinesOnce'
  <1> SUFFICES ASSUME Types, Phases, LinesOnce, [Next]_vars,
                      NEW s \in DOMAIN sections'
               PROVE  LinesOf(s)'
    <2>1. (LinesOnce <=> \A s \in DOMAIN sections : LinesOf(s))'
      BY LinesByParts, PTL
    <2> QED
      BY <2>1
  <1>t. /\ Len(sections) \in Nat /\ DOMAIN sections = 1 .. Len(sections)
        /\ section \in Nat \ {0} /\ blocks \in Seq(BlockType)
        /\ index \in Nat \ {0}
    BY DEF Types
  <1>s. sections' = sections /\ s \in DOMAIN sections /\ s \in Nat
    BY <1>t
    DEF Next, ComputeEntries, EstimatePage, AddTableOfContents, AddSection, BodyLine,
        EndSection, Save, vars, rendering
  <1>l. LinesOf(s)
    BY <1>s, LinesByParts
  <1>1. CASE ComputeEntries
    BY <1>1, <1>s, <1>l, LinesUntouched DEF ComputeEntries, LinesRead, Shown
  <1>2. CASE EstimatePage
    BY <1>2, <1>s, <1>l, LinesUntouched DEF EstimatePage, LinesRead, Shown
  <1>3. CASE AddTableOfContents
    <2>1. blocks = <<>> /\ Shown(s) = {}
      BY <1>3 DEF AddTableOfContents, Phases, Shown
    <2>2. Shown(s)' = {}
      BY <1>3, <1>s DEF AddTableOfContents, Shown, Block
    <2>3. LinesRead(s)' = LinesRead(s)
      BY <1>3 DEF AddTableOfContents, LinesRead
    <2> QED
      BY <1>s, <1>l, <2>1, <2>2, <2>3, LinesUntouched
  <1>4. CASE AddSection
    <2> DEFINE b == Block("heading", normal_level(section), section - 1, section, 0, 0)
    <2>1. b \in BlockType /\ b.from = 0 /\ blocks' = Append(blocks, b)
      <3>1. normal_level(section) \in Nat /\ section - 1 \in Nat
        BY <1>t, LevelsNormal
      <3>2. blocks' = Append(blocks, b)
        BY <1>4 DEF AddSection
      <3> QED
        BY <1>t, <3>1, <3>2 DEF Block, BlockType, BlockKinds
    <2>2. LinesRead(s)' = LinesRead(s)
      BY <1>4, <1>s, <1>t DEF AddSection, LinesRead
    <2> HIDE DEF b
    <2> DEFINE more == <<b>>
    <2>3. /\ blocks' = blocks \o more /\ more \in Seq(BlockType)
          /\ \A i \in 1 .. Len(more) : more[i].from = 0
      BY <1>t, <2>1, AppendIsConcat
    <2> HIDE DEF more
    <2> QED
      BY <1>s, <1>l, <2>2, <2>3, UnshownBehind, LinesUntouched
  <1>5. CASE BodyLine
    <2>1. /\ pc = "body" /\ section \in DOMAIN sections /\ index <= Len(lines)
          /\ UNCHANGED <<rendering, section, has_bullets, pc>>
          /\ \/ SkipBlank
             \/ \E kind \in BlockKinds, level \in Nat, to \in Nat :
                   Turned(kind, to) /\ Render(kind, level, to)
      BY <1>5, BodyLineTurns
    <2>2. CASE SkipBlank
      <3>1. CASE s = section
        BY <2>1, <2>2, <3>1, BlankSkipped, <1>s
      <3>2. CASE s # section
        BY <1>s, <1>l, <2>1, <2>2, <3>2, LinesUntouched DEF SkipBlank, LinesRead, Shown
      <3> QED
        BY <3>1, <3>2
    <2>3. ASSUME NEW kind \in BlockKinds, NEW level \in Nat, NEW to \in Nat,
                 Turned(kind, to), Render(kind, level, to)
          PROVE  LinesOf(s)'
      <3>1. CASE s = section
        BY <1>s, <2>1, <2>3, <3>1, LineRendered
      <3>2. CASE s # section
        <4> DEFINE b == Block(kind, level, NoMark, section, index, to)
        <4>1. b \in BlockType /\ b.section = section /\ b.from > 0
              /\ blocks' = Append(blocks, b)
          BY <1>t, <2>3 DEF Block, BlockType, Render
        <4> HIDE DEF b
        <4>2. Shown(s)' = Shown(s) /\ \A n \in Shown(s) : blocks'[n] = blocks[n]
          BY <3>2, <4>1, ShownBehind
        <4>3. LinesRead(s)' = LinesRead(s)
          BY <1>s, <2>1, <3>2 DEF LinesRead
        <4> QED
          BY <1>s, <1>l, <4>2, <4>3, LinesUntouched
      <3> QED
        BY <3>1, <3>2
    <2> QED
      BY <2>1, <2>2, <2>3
  <1>6. CASE EndSection
    <2>1. PICK n \in Nat, table \in BOOLEAN : blocks' = blocks \o Ornaments(n, table)
      BY <1>6, EndSectionAdds
    <2>2. Shown(s)' = Shown(s) /\ \A k \in Shown(s) : blocks'[k] = blocks[k]
      BY <1>t, <2>1, OrnamentsFacts, UnshownBehind
    <2>3. /\ pc = "body" /\ pc' = "sections" /\ section' = section + 1
          /\ index > Len(lines) /\ index <= Len(lines) + 1
      BY <1>6 DEF EndSection, Phases
    <2>4. LinesRead(s)' = LinesRead(s)
      <3>1. CASE s = section
        <4>1. Len(lines) \in Nat
          BY <1>s, <3>1, BodyTyped DEF lines, Types
        <4>2. index - 1 = Len(lines)
          BY <1>t, <2>3, <4>1
        <4>3. LinesRead(s) = Len(lines)
          BY <1>t, <2>3, <3>1, <4>2 DEF LinesRead
        <4>4. LinesRead(s)' = Len(lines)
          BY <1>s, <1>t, <2>3, <3>1 DEF LinesRead, lines
        <4> QED
          BY <4>3, <4>4
      <3>2. CASE s # section
        <4>1. s < section + 1 <=> s < section
          BY <1>s, <1>t, <3>2
        <4> QED
          BY <1>s, <2>3, <3>2, <4>1 DEF LinesRead
      <3> QED
        BY <3>1, <3>2
    <2> QED
      BY <1>s, <1>l, <2>2, <2>4, LinesUntouched
  <1>7. CASE Save
    <2>1. LinesRead(s)' = LinesRead(s)
      BY <1>7, <1>s DEF Save, LinesRead
    <2>2. CASE has_bullets
      BY <1>7, <1>s, <1>l, <2>1, <2>2, LinesUntouched DEF Save, Shown
    <2>3. CASE ~has_bullets
      <3>1. blocks' = blocks \o Considerations
        BY <1>7, <2>3, SaveAdds
      <3>2. \A i \in 1 .. Len(Considerations) : Considerations[i].from = 0
        BY <1>t, ConsiderationsFacts
      <3>3. Shown(s)' = Shown(s) /\ \A n \in Shown(s) : blocks'[n] = blocks[n]
        BY <1>t, <3>1, <3>2, ConsiderationsFacts, UnshownBehind
      <3> QED
        BY <1>s, <1>l, <2>1, <3>3, LinesUntouched
    <2> QED
      BY <2>2, <2>3
  <1>8. CASE UNCHANGED vars
    BY <1>8, <1>s, <1>l, LinesUntouched DEF vars, LinesRead, Shown
  <1> QED
    BY <1>1, <1>2, <1>3, <1>4, <1>5, <1>6, <1>7, <1>8 DEF Next

\* Every line of a body is rendered once, in order
\* (_add_rich_body, services/docx_builder.py:658-742).
THEOREM LinesHold == Spec => []LinesOnce
  <1>1. Init => Types /\ Phases /\ LinesOnce
    BY InitTyped, InitLines
  <1>2. Types /\ Phases /\ LinesOnce /\ [Next]_vars => (Types /\ Phases /\ LinesOnce)'
    BY TypesKept, LinesKept
  <1> QED
    BY <1>1, <1>2, PTL DEF Spec

===============================================================================
