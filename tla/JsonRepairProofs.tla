--------------------------- MODULE JsonRepairProofs ---------------------------
(***************************************************************************)
(* Proofs about JsonRepair, for any documents and whatever is written      *)
(* around them.                                                            *)
(*                                                                         *)
(* The scanner of _extract_balanced keeps up with a parser.  That the two  *)
(* agree is not inductive alone.  It also rests on the parser having the   *)
(* delimiter at which the scan began as its outermost bracket, so that it  *)
(* is never done before the scan is (Together).                            *)
(*                                                                         *)
(* What _parse_json accepts is the document that the model sent, and it    *)
(* rejects a reply only if it breaks off.  The invariant (Story) says what *)
(* has become of the document at each step: it lies somewhere in the text, *)
(* with no bracket in front of it (Held), the scan has not passed its last *)
(* brace and is one level deep there (Scanned), and after the scan nothing *)
(* but the document is left.                                               *)
(***************************************************************************)
EXTENDS Integers, JsonRepair, FiniteSetTheorems, SequenceTheorems, TLAPS

Parsing == INSTANCE FoldTheorems WITH Op <- Read, Base <- Fresh

-------------------------------------------------------------------------------
(***************************************************************************)
(* The parser.                                                             *)
(***************************************************************************)
Expectations == {"value", "first", "more", "string", "escape", "nothing", "error"}

Parser == {r \in [open : Seq(Openers), next : Expectations] :
             r.next \in {"first", "more"} => r.open # <<>>}

LEMMA ReadingNothing == Reading(<<>>) = Fresh
  BY Parsing!FoldNothing
  DEF Reading, FoldLeft, Parsing!FoldLeft, MapThenFoldSet, Parsing!MapThenFoldSet,
      Max, Parsing!Max

\* Reading one token more.
LEMMA ReadingOneMore ==
    ASSUME NEW s, NEW t, NEW n \in Nat, DOMAIN s = 1 .. n, DOMAIN t = 1 .. n + 1,
           \A i \in 1 .. n : t[i] = s[i]
    PROVE  Reading(t) = Read(Reading(s), t[n + 1])
  <1>1. Parsing!FoldLeft(Read, Fresh, t) = Read(Parsing!FoldLeft(Read, Fresh, s), t[n + 1])
    BY Parsing!FoldOneMore
  <1>2. \A x : FoldLeft(Read, Fresh, x) = Parsing!FoldLeft(Read, Fresh, x)
    BY DEF FoldLeft, Parsing!FoldLeft, MapThenFoldSet, Parsing!MapThenFoldSet,
           Max, Parsing!Max
  <1> QED
    BY <1>1, <1>2 DEF Reading

LEMMA CutText ==
    ASSUME NEW S, NEW t \in Seq(S), NEW i \in Nat \ {0}, NEW j \in Nat, j <= Len(t)
    PROVE  SubSeq(t, i, j) \in Seq(S)
  OBVIOUS

\* The first and the last position with a property.
LEMMA FirstPosition ==
    ASSUME NEW n \in Nat, NEW I \in SUBSET (1 .. n)
    PROVE  I # {} => Min(I) \in I /\ \A k \in I : Min(I) <= k
  <1> SUFFICES ASSUME I # {} PROVE Min(I) \in I /\ \A k \in I : Min(I) <= k
    OBVIOUS
  <1>1. I \in SUBSET Nat
    OBVIOUS
  <1>2. \E m \in I : \A k \in I : m <= k
    BY <1>1, Parsing!LeastMember
  <1> QED
    BY <1>2 DEF Min

LEMMA LastPosition ==
    ASSUME NEW n \in Nat, NEW I \in SUBSET (1 .. n), I # {}
    PROVE  Max(I) \in I /\ \A k \in I : k <= Max(I)
  BY Parsing!MaxIsMember DEF Max, Parsing!Max

LEMMA FreshParser == Fresh \in Parser /\ Fresh.next = "value" /\ Fresh.open = <<>>
  BY DEF Fresh, Parser, Expectations

LEMMA ClosedParser ==
    ASSUME NEW r, NEW open \in Seq(Openers)
    PROVE  /\ Closed(r, open) \in Parser
           /\ Closed(r, open).open = open
           /\ Closed(r, open).next = IF open = <<>> THEN "nothing" ELSE "more"
  BY DEF Closed, Parser, Expectations

LEMMA ParserFields ==
    ASSUME NEW r \in Parser
    PROVE  /\ r.open \in Seq(Openers) /\ r.next \in Expectations
           /\ r.next \in {"first", "more"} => r.open # <<>>
           /\ \A e \in Expectations \ {"first", "more"} :
                /\ [r EXCEPT !.next = e] \in Parser
                /\ [r EXCEPT !.next = e].open = r.open
                /\ [r EXCEPT !.next = e].next = e
           /\ r.open # <<>> =>
                \A e \in Expectations :
                /\ [r EXCEPT !.next = e] \in Parser
                /\ [r EXCEPT !.next = e].open = r.open
                /\ [r EXCEPT !.next = e].next = e
  BY DEF Parser

\* What one token makes of a parser, case by case.
LEMMA InsideOfStrings ==
    ASSUME NEW r \in Parser, r.next \in {"string", "escape"}, NEW ch
    PROVE  /\ Read(r, ch) \in Parser
           /\ Read(r, ch).open = r.open
           /\ r.next = "escape" => Read(r, ch).next \in {"string", "error"}
           /\ r.next = "string" => Read(r, ch).next =
                IF ch = quote THEN IF r.open = <<>> THEN "nothing" ELSE "more"
                ELSE IF ch = backslash THEN "escape" ELSE "string"
  <1>1. Read(r, ch) = ReadString(r, ch)
    BY DEF Read
  <1>2. CASE r.next = "escape"
    <2>1. Read(r, ch) = [r EXCEPT !.next = IF ch \in {quote, backslash} THEN "string" ELSE "error"]
      BY <1>1, <1>2 DEF ReadString
    <2>2. (IF ch \in {quote, backslash} THEN "string" ELSE "error")
              \in (Expectations \ {"first", "more"}) \cap {"string", "error"}
      BY DEF Expectations
    <2> QED
      BY <1>2, <2>1, <2>2, ParserFields
  <1>3. CASE r.next = "string" /\ ch = quote
    <2>1. Read(r, ch) = Closed(r, r.open)
      BY <1>1, <1>3 DEF ReadString, quote, backslash
    <2> QED
      BY <1>3, <2>1, ParserFields, ClosedParser
  <1>4. CASE r.next = "string" /\ ch # quote /\ ch = backslash
    <2>1. Read(r, ch) = [r EXCEPT !.next = "escape"]
      BY <1>1, <1>4 DEF ReadString
    <2>2. "escape" \in Expectations \ {"first", "more"}
      BY DEF Expectations
    <2> QED
      BY <1>4, <2>1, <2>2, ParserFields
  <1>5. CASE r.next = "string" /\ ch # quote /\ ch # backslash
    <2>1. Read(r, ch) = r
      BY <1>1, <1>5 DEF ReadString
    <2> QED
      BY <1>5, <2>1
  <1> QED
    BY <1>2, <1>3, <1>4, <1>5

\* The last bracket is closed: what is open then.
LEMMA FrontFacts ==
    ASSUME NEW o \in Seq(Openers), o # <<>>
    PROVE  /\ Front(o) \in Seq(Openers) /\ Len(o) \in Nat \ {0} /\ Last(o) = o[Len(o)]
           /\ Len(Front(o)) = Len(o) - 1
           /\ \A i \in 1 .. Len(o) - 1 : Front(o)[i] = o[i]
           /\ Last(o) \in Openers
  <1>1. Len(o) \in Nat \ {0} /\ Len(o) \in 1 .. Len(o)
    OBVIOUS
  <1>2. Front(o) = SubSeq(o, 1, Len(o) - 1) /\ Last(o) = o[Len(o)]
    BY DEF Front, Last
  <1>3. /\ SubSeq(o, 1, Len(o) - 1) \in Seq(Openers)
        /\ Len(SubSeq(o, 1, Len(o) - 1)) = Len(o) - 1
        /\ \A i \in 1 .. Len(o) - 1 : SubSeq(o, 1, Len(o) - 1)[i] = o[i]
    <2> DEFINE n == Len(o) - 1
    <2>1. n \in Nat /\ n <= Len(o)
      BY <1>1
    <2> HIDE DEF n
    <2>2. /\ SubSeq(o, 1, n) \in Seq(Openers) /\ Len(SubSeq(o, 1, n)) = n
          /\ \A i \in 1 .. n : SubSeq(o, 1, n)[i] = o[i]
      BY <2>1
    <2> QED
      BY <2>2 DEF n
  <1>4. o[Len(o)] \in Openers
    BY <1>1
  <1> QED
    BY <1>1, <1>2, <1>3, <1>4

\* Outside of strings there are six ways to go on, and the rest is an error.
LEMMA OutsideOfStrings ==
    ASSUME NEW r \in Parser, r.next \notin {"string", "escape"}, NEW ch
    PROVE  LET new == Read(r, ch) IN
           \/ ch = space /\ new = r
           \/ /\ ch = comma /\ r.next = "more"
              /\ new \in Parser /\ new.open = r.open /\ new.next = "value"
           \/ /\ ch \in Closers /\ r.next \in {"first", "more"}
              /\ r.open # <<>> /\ ch = close_of[Last(r.open)]
              /\ new = Closed(r, Front(r.open))
           \/ /\ ch = "a" /\ r.next \in {"first", "value"} /\ new = Closed(r, r.open)
           \/ /\ ch = quote /\ r.next \in {"first", "value"}
              /\ new \in Parser /\ new.open = r.open /\ new.next = "string"
           \/ /\ ch \in Openers /\ r.next \in {"first", "value"}
              /\ new = [open |-> Append(r.open, ch), next |-> "first"]
           \/ new \in Parser /\ new.open = r.open /\ new.next = "error"
  <1>1. /\ r.next \in {"first", "more"} => r.open # <<>>
        /\ \A e \in {"value", "string", "error"} :
             /\ [r EXCEPT !.next = e] \in Parser
             /\ [r EXCEPT !.next = e].open = r.open
             /\ [r EXCEPT !.next = e].next = e
    <2>1. {"value", "string", "error"} \subseteq Expectations \ {"first", "more"}
      BY DEF Expectations
    <2> QED
      BY <2>1, ParserFields
  <1> DEFINE separator == ch = comma /\ r.next = "more"
             closer == ch \in Closers /\ r.next \in {"first", "more"}
                         /\ ch = close_of[Last(r.open)]
             scalar == ch = "a" /\ r.next \in {"first", "value"}
             string == ch = quote /\ r.next \in {"first", "value"}
             opener == ch \in Openers /\ r.next \in {"first", "value"}
  <1>2. /\ separator => ch # space
        /\ closer => ch # space /\ ch # comma
        /\ scalar => ch # space /\ ch # comma /\ ch \notin Closers
        /\ string => ch # space /\ ch # comma /\ ch \notin Closers /\ ch # "a"
        /\ opener => ch # space /\ ch # comma /\ ch \notin Closers /\ ch # "a" /\ ch # quote
    BY DEF Closers, Openers, quote, comma, space, brace
  <1>3. /\ ch = space => Read(r, ch) = r
        /\ separator => Read(r, ch) = [r EXCEPT !.next = "value"]
        /\ closer => Read(r, ch) = Closed(r, Front(r.open))
        /\ scalar => Read(r, ch) = Closed(r, r.open)
        /\ string => Read(r, ch) = [r EXCEPT !.next = "string"]
        /\ opener => Read(r, ch) = [open |-> Append(r.open, ch), next |-> "first"]
        /\ ch # space /\ ~separator /\ ~closer /\ ~scalar /\ ~string /\ ~opener
             => Read(r, ch) = [r EXCEPT !.next = "error"]
    BY <1>2 DEF Read, ReadOutside
  <1> QED
    BY <1>1, <1>3

LEMMA ReadTyped ==
    ASSUME NEW r \in Parser, NEW ch PROVE Read(r, ch) \in Parser
  <1>1. CASE r.next \in {"string", "escape"}
    BY <1>1, InsideOfStrings
  <1>2. CASE r.next \notin {"string", "escape"}
    <2>1. /\ Closed(r, r.open) \in Parser
          /\ r.open # <<>> => Closed(r, Front(r.open)) \in Parser
      BY ParserFields, ClosedParser, FrontFacts
    <2>2. ch \in Openers => [open |-> Append(r.open, ch), next |-> "first"] \in Parser
      <3>1. SUFFICES ASSUME ch \in Openers
                     PROVE  Append(r.open, ch) \in Seq(Openers) /\ Append(r.open, ch) # <<>>
        BY DEF Parser, Expectations
      <3> QED
        BY <3>1, ParserFields
    <2> QED
      BY <1>2, <2>1, <2>2, OutsideOfStrings
  <1> QED
    BY <1>1, <1>2

LEMMA ErrorStays ==
    ASSUME NEW r \in Parser, r.next = "error", NEW ch PROVE Read(r, ch).next = "error"
  BY OutsideOfStrings

-------------------------------------------------------------------------------
(***************************************************************************)
(* The texts, up to the scan, are texts.                                   *)
(***************************************************************************)

LEMMA Positions ==
    ASSUME NEW n \in Nat, NEW I, I \subseteq 1 .. n
    PROVE  /\ (IF I # {} THEN Min(I) ELSE 0) \in 0 .. n
           /\ (IF I # {} THEN Max(I) ELSE 0) \in 0 .. n
  <1>1. CASE I = {}
    BY <1>1
  <1>2. CASE I # {}
    <2>1. Min(I) \in I
      BY <1>2, FirstPosition
    <2>2. Max(I) \in I
      BY <1>2, LastPosition
    <2>3. \A k \in 1 .. n : k \in 0 .. n
      OBVIOUS
    <2> QED
      BY <1>2, <2>1, <2>2, <2>3
  <1> QED
    BY <1>1, <1>2

LEMMA TextLength == ASSUME NEW S, NEW t \in Seq(S) PROVE Len(t) \in Nat
  OBVIOUS

LEMMA StripTyped ==
    ASSUME NEW S, NEW t \in Seq(S) PROVE strip(t) \in Seq(S)
  <1> DEFINE n == Len(t)
             I == {i \in 1 .. n : t[i] # space}
             first == IF I # {} THEN Min(I) ELSE 0
             last == IF I # {} THEN Max(I) ELSE 0
             from == IF first = 0 THEN n + 1 ELSE first
  <1>1. strip(t) = SubSeq(t, from, last)
    BY DEF strip, SelectLastInSeq, SelectInSeq, first_ink
  <1>2. n \in Nat
    BY TextLength
  <1>3. I \subseteq 1 .. n
    OBVIOUS
  <1> HIDE DEF n, I
  <1>4. first \in 0 .. n /\ last \in 0 .. n
    BY <1>2, <1>3, Positions
  <1> HIDE DEF first, last
  <1>5. from \in Nat \ {0} /\ last \in Nat /\ last <= n
    BY <1>2, <1>4
  <1> HIDE DEF from
  <1> QED
    BY <1>1, <1>5, CutText DEF n

LEMMA UntaggedTyped ==
    ASSUME NEW S, NEW t \in Seq(S) PROVE untagged(t) \in Seq(S)
  <1> DEFINE n == Len(t)
             I == {i \in 1 .. n : t[i] # "a"}
             first == IF I # {} THEN Min(I) ELSE 0
  <1>1. untagged(t) = IF first = 0 THEN <<>> ELSE SubSeq(t, first, n)
    BY DEF untagged, SelectInSeq
  <1>2. n \in Nat
    BY TextLength
  <1>3. I \subseteq 1 .. n
    OBVIOUS
  <1> HIDE DEF I
  <1>4. first \in 0 .. n
    BY <1>2, <1>3, Positions
  <1> HIDE DEF first
  <1>5. first # 0 => SubSeq(t, first, n) \in Seq(S)
    <2>1. n <= Len(t)
      BY <1>2
    <2> HIDE DEF n
    <2> QED
      BY <1>2, <1>4, <2>1, CutText
  <1> QED
    BY <1>1, <1>5

LEMMA FencesTyped ==
    ASSUME NEW S, NEW t \in Seq(S) PROVE \E x \in Seq(S) : strip_fences(t) = strip(x)
  <1> DEFINE I == {k \in 1 .. Len(t) : t[k] = fence}
             i == IF I # {} THEN Min(I) ELSE 0
             J == {k \in i + 1 .. Len(t) : t[k] = fence}
             j == IF J # {} THEN Min(J) ELSE 0
             leading == IF i = 1 THEN untagged(Tail(t)) ELSE t
             trailing == IF leading # <<>> /\ Last(leading) = fence
                         THEN Front(leading) ELSE leading
             inner == IF i # 0 /\ j # 0 THEN untagged(SubSeq(t, i + 1, j - 1)) ELSE trailing
  <1>1. strip_fences(t) = strip(inner)
    BY DEF strip_fences, SelectInSeq, SelectInSubSeq
  <1>2. Len(t) \in Nat /\ i \in 0 .. Len(t)
    <2>1. Len(t) \in Nat
      BY TextLength
    <2>2. I \subseteq 1 .. Len(t)
      OBVIOUS
    <2> HIDE DEF I
    <2> QED
      BY <2>1, <2>2, Positions
  <1>3. i = 1 => t # <<>>
    BY <1>2
  <1> HIDE DEF i
  <1>4. j \in 0 .. Len(t)
    <2>1. J \subseteq 1 .. Len(t)
      <3>1. i + 1 .. Len(t) \subseteq 1 .. Len(t)
        BY <1>2
      <3> QED
        BY <3>1
    <2> HIDE DEF J
    <2> QED
      BY <1>2, <2>1, Positions
  <1> HIDE DEF j
  <1>5. leading \in Seq(S)
    <2>1. i = 1 => Tail(t) \in Seq(S)
      BY <1>3
    <2> QED
      BY <2>1, UntaggedTyped
  <1> HIDE DEF leading
  <1>6. trailing \in Seq(S)
    <2>1. leading # <<>> => Front(leading) \in Seq(S)
      <3>1. leading # <<>> => Len(leading) - 1 \in Nat /\ Len(leading) - 1 <= Len(leading)
        BY <1>5
      <3> QED
        BY <1>5, <3>1, CutText DEF Front
    <2> QED
      BY <1>5, <2>1
  <1> HIDE DEF trailing
  <1>7. i # 0 /\ j # 0 => SubSeq(t, i + 1, j - 1) \in Seq(S)
    <2>1. SUFFICES ASSUME i # 0, j # 0 PROVE SubSeq(t, i + 1, j - 1) \in Seq(S)
      OBVIOUS
    <2>2. i + 1 \in Nat \ {0} /\ j - 1 \in Nat /\ j - 1 <= Len(t)
      BY <1>2, <1>4, <2>1
    <2> QED
      BY <2>2, CutText
  <1>8. inner \in Seq(S)
    BY <1>6, <1>7, UntaggedTyped
  <1> HIDE DEF inner
  <1> QED
    BY <1>1, <1>8

LEMMA RawTyped == Init => raw \in Seq(Token)
  <1> SUFFICES ASSUME Init PROVE raw \in Seq(Token)
    OBVIOUS
  <1>1. /\ meant \in Seq(Token) /\ meant # <<>>
        /\ Before \subseteq Seq(Token) /\ After \subseteq Seq(Token)
    <2>1. Seq(Token \ Openers) \subseteq Seq(Token)
      BY SeqMonotonic
    <2> QED
      BY <2>1, RepairAssumption DEF Init
  <1>2. PICK w \in Written(meant), b \in Before :
          \/ \E a \in After : raw = b \o w \o a
          \/ \E n \in 0 .. Len(w) - 1 : raw = b \o SubSeq(w, 1, n)
    BY DEF Init
  <1>3. w \in Seq(Token)
    <2> DEFINE last == Last(meant)
               more == <<comma, space, last>>
    <2>1. Len(meant) - 1 \in Nat /\ Len(meant) - 1 <= Len(meant) /\ last \in Token
      BY <1>1 DEF Last
    <2>2. Front(meant) \in Seq(Token)
      BY <1>1, <2>1, CutText DEF Front
    <2>3. more \in Seq(Token)
      <3>1. comma \in Token /\ space \in Token
        BY DEF Token
      <3> HIDE DEF last
      <3>2. \A x, y, z \in Token : <<x, y, z>> \in Seq(Token)
        OBVIOUS
      <3> QED
        BY <2>1, <3>1, <3>2
    <2>4. w = meant \/ w = Front(meant) \o more
      BY DEF Written
    <2> HIDE DEF more
    <2>5. Front(meant) \o more \in Seq(Token)
      BY <2>2, <2>3
    <2> QED
      BY <1>1, <2>4, <2>5
  <1>4. ASSUME NEW n \in 0 .. Len(w) - 1 PROVE SubSeq(w, 1, n) \in Seq(Token)
    <2>1. n \in Nat /\ n <= Len(w)
      BY <1>3
    <2> QED
      BY <1>3, <2>1, CutText
  <1>5. \A x, y \in Seq(Token) : x \o y \in Seq(Token)
    OBVIOUS
  <1>6. CASE \E a \in After : raw = b \o w \o a
    <2>1. PICK a \in After : raw = (b \o w) \o a
      BY <1>6
    <2>2. b \o w \in Seq(Token) /\ a \in Seq(Token)
      BY <1>1, <1>3, <1>5
    <2> QED
      BY <1>5, <2>1, <2>2
  <1>7. CASE \E n \in 0 .. Len(w) - 1 : raw = b \o SubSeq(w, 1, n)
    BY <1>1, <1>4, <1>5, <1>7
  <1> QED
    BY <1>2, <1>6, <1>7

-------------------------------------------------------------------------------
(***************************************************************************)
(* Brackets of one kind among those that are open.                         *)
(***************************************************************************)
Places(o, c) == {i \in DOMAIN o : o[i] = c}

Count(o, c) == Cardinality(Places(o, c))

LEMMA CountNothing == \A c : Count(<<>>, c) = 0
  <1> TAKE c
  <1>1. Places(<<>>, c) = {}
    BY DEF Places
  <1> QED
    BY <1>1, FS_EmptySet DEF Count

LEMMA CountFinite ==
    ASSUME NEW o \in Seq(Openers), NEW c
    PROVE  IsFiniteSet(Places(o, c)) /\ Count(o, c) \in Nat
  <1>1. IsFiniteSet(1 .. Len(o))
    BY FS_Interval
  <1>2. Places(o, c) \subseteq 1 .. Len(o)
    BY DEF Places
  <1>3. IsFiniteSet(Places(o, c))
    BY <1>1, <1>2, FS_Subset
  <1> QED
    BY <1>3, FS_CardinalityType DEF Count

\* One bracket more.
LEMMA CountLast ==
    ASSUME NEW o \in Seq(Openers), NEW p \in Seq(Openers), NEW n \in Nat,
           Len(o) = n, Len(p) = n + 1, \A i \in 1 .. n : p[i] = o[i], NEW c
    PROVE  Count(p, c) = Count(o, c) + IF p[n + 1] = c THEN 1 ELSE 0
  <1>1. DOMAIN o = 1 .. n /\ DOMAIN p = 1 .. n + 1
    OBVIOUS
  <1>2. \A i \in 1 .. n + 1 : i \in 1 .. n \/ i = n + 1
    OBVIOUS
  <1>3. n + 1 \notin 1 .. n /\ 1 .. n \subseteq 1 .. n + 1 /\ n + 1 \in 1 .. n + 1
    OBVIOUS
  <1>4. IsFiniteSet(Places(o, c)) /\ Count(o, c) \in Nat
    BY CountFinite
  <1>5. CASE p[n + 1] = c
    <2>1. Places(p, c) = Places(o, c) \cup {n + 1} /\ n + 1 \notin Places(o, c)
      BY <1>1, <1>2, <1>3, <1>5 DEF Places
    <2> DEFINE S == Places(o, c)
    <2> HIDE DEF S
    <2>2. Cardinality(S \cup {n + 1}) = Cardinality(S) + 1
      BY <1>4, <2>1, FS_AddElement DEF S
    <2>3. Count(p, c) = Count(o, c) + 1
      BY <2>1, <2>2 DEF Count, S
    <2> QED
      BY <1>5, <2>3
  <1>6. CASE p[n + 1] # c
    <2>1. Places(p, c) = Places(o, c)
      BY <1>1, <1>2, <1>3, <1>6 DEF Places
    <2> QED
      BY <1>4, <1>6, <2>1 DEF Count
  <1> QED
    BY <1>5, <1>6

LEMMA CountAppend ==
    ASSUME NEW o \in Seq(Openers), NEW ch \in Openers, NEW c
    PROVE  Count(Append(o, ch), c) = Count(o, c) + IF ch = c THEN 1 ELSE 0
  <1> DEFINE p == Append(o, ch)
             n == Len(o)
  <1>1. /\ n \in Nat /\ p \in Seq(Openers) /\ Len(p) = n + 1 /\ p[n + 1] = ch
        /\ \A i \in 1 .. n : p[i] = o[i]
    OBVIOUS
  <1> HIDE DEF p
  <1>2. Count(p, c) = Count(o, c) + IF p[n + 1] = c THEN 1 ELSE 0
    BY <1>1, CountLast
  <1> QED
    BY <1>1, <1>2 DEF p

LEMMA CountFront ==
    ASSUME NEW o \in Seq(Openers), o # <<>>, NEW c
    PROVE  Count(o, c) = Count(Front(o), c) + IF Last(o) = c THEN 1 ELSE 0
  <1> DEFINE n == Len(o) - 1
             f == Front(o)
  <1>1. /\ n \in Nat /\ f \in Seq(Openers) /\ Len(f) = n /\ Len(o) = n + 1
        /\ \A i \in 1 .. n : f[i] = o[i]
        /\ Last(o) = o[n + 1]
    BY FrontFacts
  <1> HIDE DEF n, f
  <1>2. \A i \in 1 .. n : o[i] = f[i]
    BY <1>1
  <1>3. Count(o, c) = Count(f, c) + IF o[n + 1] = c THEN 1 ELSE 0
    BY <1>1, <1>2, CountLast
  <1> QED
    BY <1>1, <1>3 DEF f

-------------------------------------------------------------------------------
(***************************************************************************)
(* One turn of the scan and one token of the parser.                       *)
(***************************************************************************)
Scan == [start : Nat, at : Nat, depth : Int, in_string : BOOLEAN, escape : BOOLEAN]

\* The scan s agrees with the parser r, which is inside of the bracket c.
Agrees(r, s, c) ==
    /\ s.in_string <=> r.next \in {"string", "escape"}
    /\ s.escape <=> r.next = "escape"
    /\ s.depth = Count(r.open, c)

Together(r, s, c) ==
    r.next # "error" => Agrees(r, s, c) /\ r.open # <<>> /\ r.open[1] = c

LEMMA TokenKinds ==
    /\ quote # backslash /\ quote \notin Openers /\ quote \notin Closers
    /\ "a" \notin Openers /\ "a" \notin Closers /\ "a" # quote
    /\ comma \notin Openers /\ comma \notin Closers /\ comma # quote
    /\ space \notin Openers /\ space \notin Closers /\ space # quote
    /\ space # comma /\ space # "a" /\ comma # "a" /\ space # fence /\ fence # "a"
    /\ fence \notin Openers /\ fence \notin Closers /\ fence # comma
    /\ brace \in Openers /\ backslash \notin Closers /\ backslash \notin Openers
    /\ \A c \in Openers : close_of[c] \in Closers /\ c \notin Closers
    /\ \A c, d \in Openers : close_of[c] = close_of[d] => c = d
  BY DEF quote, backslash, comma, space, brace, fence, Openers, Closers, close_of

\* Inside of a string.
LEMMA StringTurn ==
    ASSUME NEW r \in Parser, NEW s \in Scan, NEW t \in Scan, NEW c \in Openers, NEW ch,
           Together(r, s, c), s.in_string,
           t = [s EXCEPT !.at = @ + 1, !.escape = ~s.escape /\ ch = backslash,
                         !.in_string = s.escape \/ ch # quote]
    PROVE  Together(Read(r, ch), t, c)
  <1> DEFINE new == Read(r, ch)
  <1> SUFFICES ASSUME new.next # "error"
               PROVE  Agrees(new, t, c) /\ new.open # <<>> /\ new.open[1] = c
    BY DEF Together
  <1>1. r.next # "error"
    BY ErrorStays
  <1>2. /\ r.next \in {"string", "escape"} /\ (s.escape <=> r.next = "escape")
        /\ s.depth = Count(r.open, c) /\ r.open # <<>> /\ r.open[1] = c
    BY <1>1 DEF Together, Agrees
  <1>3. /\ t.depth = s.depth /\ (t.escape <=> ~s.escape /\ ch = backslash)
        /\ (t.in_string <=> s.escape \/ ch # quote)
    BY DEF Scan
  <1>4. /\ new.open = r.open
        /\ r.next = "escape" => new.next = "string"
        /\ r.next = "string" => new.next =
             IF ch = quote THEN "more" ELSE IF ch = backslash THEN "escape" ELSE "string"
    BY <1>2, InsideOfStrings
  <1> HIDE DEF new
  <1> QED
    BY <1>2, <1>3, <1>4, TokenKinds DEF Agrees

\* Outside of strings, where the region does not end.
LEMMA CodeTurn ==
    ASSUME NEW r \in Parser, NEW s \in Scan, NEW t \in Scan, NEW c \in Openers, NEW ch,
           Together(r, s, c), ~s.in_string, ~(ch = close_of[c] /\ s.depth = 1),
           t = [s EXCEPT !.at = @ + 1, !.in_string = ch = quote,
                         !.depth = CASE ch = c -> @ + 1
                                     [] ch = close_of[c] -> @ - 1
                                     [] OTHER -> @]
    PROVE  Together(Read(r, ch), t, c)
  <1> DEFINE new == Read(r, ch)
             o == r.open
  <1> SUFFICES ASSUME new.next # "error"
               PROVE  Agrees(new, t, c) /\ new.open # <<>> /\ new.open[1] = c
    BY DEF Together
  <1>1. r.next # "error"
    BY ErrorStays
  <1>2. /\ r.next \notin {"string", "escape"} /\ ~s.escape
        /\ s.depth = Count(o, c) /\ o # <<>> /\ o[1] = c /\ o \in Seq(Openers)
    BY <1>1, ParserFields DEF Together, Agrees
  <1>3. /\ (t.in_string <=> ch = quote) /\ (t.escape <=> s.escape)
        /\ ch = c => t.depth = s.depth + 1
        /\ ch # c /\ ch = close_of[c] => t.depth = s.depth - 1
        /\ ch # c /\ ch # close_of[c] => t.depth = s.depth
    <2> DEFINE depth == CASE ch = c -> s.depth + 1
                          [] ch = close_of[c] -> s.depth - 1
                          [] OTHER -> s.depth
    <2>1. t = [s EXCEPT !.at = s.at + 1, !.in_string = (ch = quote), !.depth = depth]
      OBVIOUS
    <2>2. /\ ch = c => depth = s.depth + 1
          /\ ch # c /\ ch = close_of[c] => depth = s.depth - 1
          /\ ch # c /\ ch # close_of[c] => depth = s.depth
      BY TokenKinds
    <2> HIDE DEF depth
    <2>3. t.depth = depth /\ t.in_string = (ch = quote) /\ t.escape = s.escape
      BY <2>1 DEF Scan
    <2> QED
      BY <2>2, <2>3
  <1>4. ASSUME new.open = o, new.next \notin {"string", "escape"},
               ch \notin Openers, ch \notin Closers, ch # quote
        PROVE  Agrees(new, t, c) /\ new.open # <<>> /\ new.open[1] = c
    BY <1>2, <1>3, <1>4, TokenKinds DEF Agrees
  <1>5. CASE ch = space /\ new = r
    BY <1>2, <1>4, <1>5, TokenKinds
  <1>6. CASE ch = comma /\ new.open = o /\ new.next = "value"
    BY <1>4, <1>6, TokenKinds
  <1>7. CASE ch = "a" /\ new = Closed(r, o)
    <2>1. new.open = o /\ new.next = "more"
      BY <1>2, <1>7, ClosedParser
    <2> QED
      BY <1>4, <1>7, <2>1, TokenKinds
  <1>8. CASE ch = quote /\ new.open = o /\ new.next = "string"
    BY <1>2, <1>3, <1>8, TokenKinds DEF Agrees
  <1>9. CASE ch \in Openers /\ new = [open |-> Append(o, ch), next |-> "first"]
    <2>1. new.open = Append(o, ch) /\ new.next = "first"
      BY <1>9
    <2>2. Append(o, ch) # <<>> /\ Append(o, ch)[1] = c
      BY <1>2, <1>9
    <2>3. Count(new.open, c) = Count(o, c) + IF ch = c THEN 1 ELSE 0
      BY <1>2, <1>9, <2>1, CountAppend
    <2>4. t.depth = Count(new.open, c)
      <3>1. ch # close_of[c] /\ Count(o, c) \in Nat
        BY <1>2, <1>9, CountFinite, TokenKinds
      <3>2. CASE ch = c
        BY <1>2, <1>3, <2>3, <3>1, <3>2
      <3>3. CASE ch # c
        BY <1>2, <1>3, <2>3, <3>1, <3>3
      <3> QED
        BY <3>2, <3>3
    <2> QED
      BY <1>2, <1>3, <1>9, <2>1, <2>2, <2>4, TokenKinds DEF Agrees
  <1>10. CASE ch \in Closers /\ ch = close_of[Last(o)] /\ new = Closed(r, Front(o))
    <2> DEFINE f == Front(o)
               n == Len(o) - 1
    <2>1. /\ f \in Seq(Openers) /\ n \in Nat /\ Len(f) = n
          /\ \A i \in 1 .. n : f[i] = o[i]
          /\ Last(o) = o[n + 1] /\ Last(o) \in Openers
      BY <1>2, FrontFacts
    <2>2. Count(o, c) = Count(f, c) + IF Last(o) = c THEN 1 ELSE 0
      BY <1>2, CountFront
    <2>3. Count(f, c) \in Nat /\ Count(o, c) \in Nat
      BY <1>2, <2>1, CountFinite
    <2>4. ch = close_of[c] <=> Last(o) = c
      BY <1>10, <2>1, TokenKinds
    <2>5. f # <<>>
      <3>1. SUFFICES ASSUME f = <<>> PROVE FALSE
        OBVIOUS
      <3>2. Count(f, c) = 0 /\ n = 0
        BY <2>1, <3>1, CountNothing
      <3>3. Last(o) = c
        BY <1>2, <2>1, <3>2
      <3>4. ch = close_of[c] /\ s.depth = 1
        BY <1>2, <2>2, <2>4, <3>2, <3>3
      <3> QED
        BY <3>4
    <2>6. f[1] = c
      <3>1. 1 \in 1 .. n
        BY <2>1, <2>5
      <3> QED
        BY <1>2, <2>1, <3>1
    <2>7. new.open = f /\ new.next = "more"
      BY <1>10, <2>1, <2>5, ClosedParser
    <2>8. ch # quote /\ ch # c
      BY <1>10, TokenKinds
    <2>9. t.depth = Count(f, c)
      BY <1>2, <1>3, <2>2, <2>3, <2>4, <2>8
    <2> HIDE DEF f, n
    <2> QED
      BY <1>2, <1>3, <2>5, <2>6, <2>7, <2>8, <2>9 DEF Agrees
  <1> QED
    BY <1>2, <1>5, <1>6, <1>7, <1>8, <1>9, <1>10, OutsideOfStrings

\* At the delimiter at which the scan begins.
LEMMA FirstTurn ==
    ASSUME NEW s \in Scan, NEW t \in Scan, NEW c \in Openers,
           s.depth = 0, ~s.in_string, ~s.escape,
           t = [s EXCEPT !.at = @ + 1, !.in_string = c = quote, !.depth = @ + 1]
    PROVE  Together(Read(Fresh, c), t, c)
  <1> DEFINE new == Read(Fresh, c)
             o == Append(<<>>, c)
  <1>1. new = [open |-> o, next |-> "first"]
    <2>1. c # space /\ c # comma /\ c \notin Closers /\ c # "a" /\ c # quote
      BY TokenKinds
    <2> QED
      BY <2>1 DEF Read, ReadOutside, Fresh
  <1>2. Count(o, c) = 1
    <2>1. <<>> \in Seq(Openers)
      OBVIOUS
    <2>2. Count(o, c) = Count(<<>>, c) + 1
      BY <2>1, CountAppend
    <2> QED
      BY <2>2, CountNothing
  <1>3. o # <<>> /\ o[1] = c
    OBVIOUS
  <1>4. ~t.in_string /\ ~t.escape /\ t.depth = 1
    <2>1. t.depth = s.depth + 1 /\ (t.in_string <=> c = quote) /\ (t.escape <=> s.escape)
      BY DEF Scan
    <2>2. c # quote
      BY TokenKinds
    <2>3. t.depth = 1
      BY <2>1
    <2> QED
      BY <2>1, <2>2, <2>3
  <1> QED
    BY <1>1, <1>2, <1>3, <1>4 DEF Together, Agrees

-------------------------------------------------------------------------------
(***************************************************************************)
(* The scan of _extract_balanced.                                          *)
(***************************************************************************)

\* What a parser that began where the scan did has read.
reader == Reading(SubSeq(text, scan.start, scan.at - 1))

Texts == /\ raw \in Seq(Token)
         /\ pc \in {"fences", "open", "scan"} => text \in Seq(Token)

ScanInv ==
    pc = "scan" =>
      /\ scan \in Scan
      /\ scan.start \in 1 .. Len(text) /\ open_ch \in Openers
      /\ scan.at \in scan.start .. Len(text) + 1
      /\ reader \in Parser
      /\ IF scan.at = scan.start
         THEN scan.depth = 0 /\ ~scan.in_string /\ ~scan.escape
         ELSE Together(reader, scan, open_ch)

\* One character more for the scan is one token more for the parser.
LEMMA ReaderNext ==
    ASSUME Texts, ScanInv, pc = "scan", scan.at <= Len(text), text' = text,
           scan'.start = scan.start, scan'.at = scan.at + 1
    PROVE  reader' = Read(reader, text[scan.at]) /\ reader' \in Parser
  <1> DEFINE i == scan.start
             j == scan.at
             s == SubSeq(text, i, j - 1)
             t == SubSeq(text, i, j)
             n == j - i
  <1>1. /\ text \in Seq(Token) /\ i \in 1 .. Len(text) /\ j \in i .. Len(text)
        /\ Len(text) \in Nat /\ reader \in Parser
    BY DEF Texts, ScanInv
  <1>2. i \in Nat \ {0} /\ j \in Nat /\ i <= j /\ j <= Len(text) /\ n \in Nat
    BY <1>1
  <1>3. reader = Reading(s) /\ reader' = Reading(t)
    <2>1. scan'.at - 1 = j
      BY <1>2
    <2> QED
      BY <2>1 DEF reader
  <1> HIDE DEF i, j
  <1>4. /\ DOMAIN s = 1 .. n /\ DOMAIN t = 1 .. n + 1
        /\ \A k \in 1 .. n : t[k] = s[k]
        /\ t[n + 1] = text[j]
    BY <1>1, <1>2
  <1> HIDE DEF s, t, n
  <1>5. reader' = Read(reader, text[j])
    BY <1>2, <1>3, <1>4, ReadingOneMore
  <1>6. reader' \in Parser
    BY <1>1, <1>5, ReadTyped
  <1> QED
    BY <1>5, <1>6 DEF j

LEMMA ScanTurn ==
    ASSUME Texts, ScanInv, Scanning, pc' = "scan" PROVE ScanInv'
  <1> DEFINE ch == text[scan.at]
  <1>1. /\ pc = "scan" /\ scan.at <= Len(text) /\ scan \in Scan
        /\ scan.start \in 1 .. Len(text) /\ open_ch \in Openers
        /\ scan.at \in scan.start .. Len(text) + 1 /\ reader \in Parser
        /\ text \in Seq(Token) /\ Len(text) \in Nat
    BY DEF Scanning, ScanInv, Texts
  <1>2. /\ text' = text
        /\ \/ /\ scan.in_string
              /\ scan' = [scan EXCEPT !.at = @ + 1,
                                      !.escape = ~scan.escape /\ ch = backslash,
                                      !.in_string = scan.escape \/ ch # quote]
           \/ /\ ~scan.in_string
              /\ ~(ch = close_of[open_ch] /\ scan.depth = 1)
              /\ scan' = [scan EXCEPT !.at = @ + 1, !.in_string = ch = quote,
                                      !.depth = CASE ch = open_ch -> @ + 1
                                                  [] ch = close_of[open_ch] -> @ - 1
                                                  [] OTHER -> @]
    BY DEF Scanning, ScanString, ScanCode, close_ch
  <1>3. scan' \in Scan /\ scan'.start = scan.start /\ scan'.at = scan.at + 1
    <2>1. scan.at + 1 \in Nat /\ scan.depth + 1 \in Int /\ scan.depth - 1 \in Int
      BY <1>1 DEF Scan
    <2>2. PICK d \in Int, q \in BOOLEAN, e \in BOOLEAN :
            scan' = [scan EXCEPT !.at = scan.at + 1, !.escape = e, !.in_string = q, !.depth = d]
      <3>1. scan.depth \in Int /\ scan.escape \in BOOLEAN
        BY <1>1 DEF Scan
      <3>2. CASE scan.in_string
        <4>1. scan' = [scan EXCEPT !.at = scan.at + 1,
                                   !.escape = (~scan.escape /\ ch = backslash),
                                   !.in_string = (scan.escape \/ ch # quote),
                                   !.depth = scan.depth]
          BY <1>1, <1>2, <3>2 DEF Scan
        <4>2. (~scan.escape /\ ch = backslash) \in BOOLEAN
              /\ (scan.escape \/ ch # quote) \in BOOLEAN
          OBVIOUS
        <4> QED
          BY <3>1, <4>1, <4>2
      <3>3. CASE ~scan.in_string
        <4> DEFINE d == CASE ch = open_ch -> scan.depth + 1
                          [] ch = close_of[open_ch] -> scan.depth - 1
                          [] OTHER -> scan.depth
        <4>1. d \in Int
          <5>1. CASE ch = open_ch
            <6>1. ch # close_of[open_ch]
              BY <1>1, <5>1, TokenKinds
            <6> QED
              BY <2>1, <5>1, <6>1
          <5>2. CASE ch # open_ch
            BY <2>1, <3>1, <5>2
          <5> QED
            BY <5>1, <5>2
        <4>2. scan' = [scan EXCEPT !.at = scan.at + 1, !.in_string = (ch = quote), !.depth = d]
          BY <1>2, <3>3
        <4> HIDE DEF d
        <4>3. scan' = [scan EXCEPT !.at = scan.at + 1, !.escape = scan.escape,
                                   !.in_string = (ch = quote), !.depth = d]
          BY <1>1, <4>2 DEF Scan
        <4> QED
          BY <3>1, <4>1, <4>3
      <3> QED
        BY <3>2, <3>3
    <2> QED
      BY <1>1, <2>1, <2>2 DEF Scan
  <1>4. open_ch' = open_ch
    BY <1>2, <1>3 DEF open_ch
  <1>5. reader' = Read(reader, ch) /\ reader' \in Parser
    BY <1>1, <1>2, <1>3, ReaderNext
  <1>6. Together(reader', scan', open_ch)
    <2>1. CASE scan.at = scan.start
      <3>1. scan.depth = 0 /\ ~scan.in_string /\ ~scan.escape /\ ch = open_ch
        BY <1>1, <2>1 DEF ScanInv, open_ch
      <3>2. reader = Fresh
        <4>1. SubSeq(text, scan.start, scan.at - 1) = <<>>
          BY <1>1, <2>1
        <4> QED
          BY <4>1, ReadingNothing DEF reader
      <3>3. scan' = [scan EXCEPT !.at = @ + 1, !.in_string = open_ch = quote, !.depth = @ + 1]
        <4>1. open_ch # close_of[open_ch]
          BY <1>1, TokenKinds
        <4> QED
          BY <1>2, <3>1, <4>1
      <3> QED
        BY <1>1, <1>3, <1>5, <3>1, <3>2, <3>3, FirstTurn
    <2>2. CASE scan.at # scan.start
      <3>1. Together(reader, scan, open_ch)
        BY <1>1, <2>2 DEF ScanInv
      <3> QED
        BY <1>1, <1>2, <1>3, <1>5, <3>1, StringTurn, CodeTurn
    <2> QED
      BY <2>1, <2>2
  <1>7. scan'.at # scan'.start /\ scan'.at \in scan'.start .. Len(text) + 1
    BY <1>1, <1>3
  <1> QED
    BY <1>1, <1>2, <1>3, <1>4, <1>5, <1>6, <1>7 DEF ScanInv

LEMMA TextsKept == Texts /\ [Next]_vars => Texts'
  <1> SUFFICES ASSUME Texts, [Next]_vars PROVE Texts'
    OBVIOUS
  <1>1. CASE Parse
    BY <1>1, StripTyped DEF Parse, Texts
  <1>2. CASE StripFences
    BY <1>2, FencesTyped, StripTyped DEF StripFences, Texts
  <1>3. CASE FindOpen
    BY <1>3 DEF FindOpen, Texts
  <1>4. CASE Scanning
    <2>1. pc' # "scan" => pc' = "commas"
      BY <1>4 DEF Scanning, ScanString, ScanCode
    <2>2. pc' = "scan" => text' = text
      BY <1>4 DEF Scanning, ScanString, ScanCode
    <2> QED
      BY <1>4, <2>1, <2>2 DEF Scanning, Texts
  <1>5. CASE Unbalanced
    BY <1>5 DEF Unbalanced, Texts
  <1>6. CASE RemoveCommas
    BY <1>6 DEF RemoveCommas, Texts
  <1>7. CASE Reparse
    BY <1>7 DEF Reparse, Texts
  <1>8. CASE UNCHANGED vars
    BY <1>8 DEF vars, Texts
  <1> QED
    BY <1>1, <1>2, <1>3, <1>4, <1>5, <1>6, <1>7, <1>8 DEF Next

LEMMA ScanKept == Texts /\ ScanInv /\ [Next]_vars => ScanInv'
  <1> SUFFICES ASSUME Texts, ScanInv, [Next]_vars, pc' = "scan" PROVE ScanInv'
    BY DEF ScanInv
  <1>1. CASE FindOpen
    <2> DEFINE n == Len(text)
               I == {i \in 1 .. n : text[i] \in Openers}
               start == IF I # {} THEN Min(I) ELSE 0
    <2>1. /\ start # 0 /\ text' = text
          /\ scan' = [NoScan EXCEPT !.start = start, !.at = start]
      BY <1>1 DEF FindOpen, SelectInSeq
    <2>2. n \in Nat /\ text \in Seq(Token)
      BY <1>1 DEF FindOpen, Texts
    <2>3. start \in I /\ I \subseteq 1 .. n
      <3>1. I \subseteq 1 .. n
        OBVIOUS
      <3> HIDE DEF I
      <3> QED
        BY <2>1, <2>2, <3>1, FirstPosition
    <2>4. start \in 1 .. n /\ text[start] \in Openers
      BY <2>3
    <2> HIDE DEF start, I
    <2>5. start \in Nat /\ start \in start .. n + 1
      BY <2>2, <2>4
    <2>6. /\ scan' \in Scan /\ scan'.start = start /\ scan'.at = start
          /\ scan'.depth = 0 /\ ~scan'.in_string /\ ~scan'.escape
      <3>1. scan' = [start |-> start, at |-> start, depth |-> 0,
                     in_string |-> FALSE, escape |-> FALSE]
        BY <2>1 DEF NoScan
      <3>2. 0 \in Int /\ FALSE \in BOOLEAN
        OBVIOUS
      <3>3. scan' \in Scan
        BY <2>5, <3>1, <3>2 DEF Scan
      <3> QED
        BY <3>1, <3>3
    <2>7. reader' = Fresh
      <3>1. SubSeq(text, start, start - 1) = <<>>
        BY <2>2, <2>5
      <3> QED
        BY <2>1, <2>6, <3>1, ReadingNothing DEF reader
    <2>8. open_ch' = text[start]
      BY <2>1, <2>6 DEF open_ch
    <2> QED
      BY <2>1, <2>4, <2>5, <2>6, <2>7, <2>8, FreshParser DEF ScanInv
  <1>2. CASE Scanning
    BY <1>2, ScanTurn
  <1>3. CASE UNCHANGED vars
    BY <1>3 DEF vars, ScanInv, reader, open_ch
  <1> QED
    BY <1>1, <1>2, <1>3
    DEF Next, Parse, StripFences, Unbalanced, RemoveCommas, Reparse

LEMMA ScanAgrees == Texts /\ ScanInv => ScannerAgrees
  <1> SUFFICES ASSUME Texts, ScanInv, pc = "scan", reader.next # "error"
               PROVE  Agrees(reader, scan, open_ch)
    BY DEF ScannerAgrees, reader, Agrees, Count, Places
  <1>1. CASE scan.at = scan.start
    <2>1. scan.depth = 0 /\ ~scan.in_string /\ ~scan.escape
      BY <1>1 DEF ScanInv
    <2>2. reader = Fresh
      <3>1. SubSeq(text, scan.start, scan.at - 1) = <<>>
        <4>1. scan.start \in Nat /\ scan.at = scan.start /\ text \in Seq(Token)
          BY <1>1 DEF ScanInv, Scan, Texts
        <4> QED
          BY <4>1
      <3> QED
        BY <3>1, ReadingNothing DEF reader
    <2> QED
      BY <2>1, <2>2, FreshParser, CountNothing DEF Agrees
  <1>2. CASE scan.at # scan.start
    BY <1>2 DEF ScanInv, Together
  <1> QED
    BY <1>1, <1>2

\* _extract_balanced (services/llm.py:877-923) takes the same characters for structure
\* as a JSON parser, whatever the reply is.
THEOREM ScannerHolds == Spec => []ScannerAgrees
  <1>1. Init => Texts /\ ScanInv
    BY RawTyped DEF Init, Texts, ScanInv
  <1>2. Texts /\ ScanInv /\ [Next]_vars => (Texts /\ ScanInv)'
    BY TextsKept, ScanKept
  <1> QED
    BY <1>1, <1>2, ScanAgrees, PTL DEF Spec

-------------------------------------------------------------------------------
(***************************************************************************)
(* How far a text has been read.                                           *)
(***************************************************************************)
Upto(t, n) == Reading(SubSeq(t, 1, n))

Done == {"nothing", "error"}

LEMMA PrefixFacts ==
    ASSUME NEW S, NEW t \in Seq(S), NEW n \in Nat, n <= Len(t)
    PROVE  /\ SubSeq(t, 1, n) \in Seq(S) /\ Len(SubSeq(t, 1, n)) = n
           /\ DOMAIN SubSeq(t, 1, n) = 1 .. n
           /\ \A i \in 1 .. n : SubSeq(t, 1, n)[i] = t[i]
  OBVIOUS

LEMMA ConcatFacts ==
    ASSUME NEW S, NEW s \in Seq(S), NEW t \in Seq(S), NEW m, m = Len(s), NEW n, n = Len(t)
    PROVE  /\ s \o t \in Seq(S) /\ Len(s \o t) = m + n
           /\ \A i \in 1 .. m : (s \o t)[i] = s[i]
           /\ \A i \in 1 .. n : (s \o t)[m + i] = t[i]
  OBVIOUS

LEMMA AppendFacts ==
    ASSUME NEW S, NEW s \in Seq(S), NEW e \in S, NEW n, n = Len(s)
    PROVE  /\ Append(s, e) \in Seq(S) /\ Len(Append(s, e)) = n + 1
           /\ Append(s, e)[n + 1] = e
           /\ \A i \in 1 .. n : Append(s, e)[i] = s[i]
  OBVIOUS

LEMMA SameText ==
    ASSUME NEW S, NEW s \in Seq(S), NEW t \in Seq(S), Len(s) = Len(t),
           \A i \in 1 .. Len(s) : s[i] = t[i]
    PROVE  s = t
  OBVIOUS

LEMMA UptoNext ==
    ASSUME NEW t \in Seq(Token), NEW n \in Nat, n + 1 <= Len(t)
    PROVE  Upto(t, n + 1) = Read(Upto(t, n), t[n + 1])
  <1> DEFINE s == SubSeq(t, 1, n)
             u == SubSeq(t, 1, n + 1)
  <1>1. n <= Len(t) /\ n + 1 \in Nat
    OBVIOUS
  <1>2. DOMAIN s = 1 .. n /\ \A i \in 1 .. n : s[i] = t[i]
    BY <1>1, PrefixFacts
  <1>3. DOMAIN u = 1 .. n + 1 /\ \A i \in 1 .. n + 1 : u[i] = t[i]
    BY <1>1, PrefixFacts
  <1> HIDE DEF s, u
  <1>4. (\A i \in 1 .. n : u[i] = s[i]) /\ u[n + 1] = t[n + 1]
    BY <1>2, <1>3
  <1>5. Reading(u) = Read(Reading(s), u[n + 1])
    BY <1>2, <1>3, <1>4, ReadingOneMore
  <1> QED
    BY <1>4, <1>5 DEF Upto, s, u

LEMMA UptoEnds ==
    ASSUME NEW t \in Seq(Token)
    PROVE  Upto(t, 0) = Fresh /\ Upto(t, Len(t)) = Reading(t)
  <1>1. SubSeq(t, 1, 0) = <<>> /\ SubSeq(t, 1, Len(t)) = t
    OBVIOUS
  <1> QED
    BY <1>1, ReadingNothing DEF Upto

LEMMA UptoTyped ==
    ASSUME NEW t \in Seq(Token), NEW n \in Nat, n <= Len(t)
    PROVE  Upto(t, n) \in Parser
  <1> DEFINE I == {k \in Nat : k <= Len(t) => Upto(t, k) \in Parser}
  <1>1. 0 \in I
    BY UptoEnds, FreshParser
  <1>2. ASSUME NEW k \in I PROVE k + 1 \in I
    <2>1. k \in Nat /\ Len(t) \in Nat
      BY TextLength
    <2>2. SUFFICES ASSUME k + 1 <= Len(t) PROVE Upto(t, k + 1) \in Parser
      BY <2>1
    <2>3. k <= Len(t)
      BY <2>1, <2>2
    <2> QED
      BY <2>1, <2>2, <2>3, UptoNext, ReadTyped
  <1> HIDE DEF I
  <1>3. I \in SUBSET Nat
    BY DEF I
  <1>4. I = Nat
    BY <1>1, <1>2, <1>3, Parsing!SetInduction
  <1> QED
    BY <1>4 DEF I

\* Equal texts read alike, wherever they stand behind white space.
LEMMA UptoEqual ==
    ASSUME NEW s \in Seq(Token), NEW t \in Seq(Token), NEW o \in Nat,
           Upto(t, o) = Fresh, NEW n \in Nat, n <= Len(s), o + n <= Len(t),
           \A i \in 1 .. n : t[o + i] = s[i]
    PROVE  Upto(t, o + n) = Upto(s, n)
  <1> DEFINE I == {k \in Nat : k <= n => Upto(t, o + k) = Upto(s, k)}
  <1>1. 0 \in I
    BY UptoEnds
  <1>2. ASSUME NEW k \in I PROVE k + 1 \in I
    <2>1. k \in Nat /\ Len(t) \in Nat /\ Len(s) \in Nat
      BY TextLength
    <2>2. SUFFICES ASSUME k + 1 <= n PROVE Upto(t, o + (k + 1)) = Upto(s, k + 1)
      BY <2>1
    <2>3. Upto(t, o + k) = Upto(s, k) /\ k + 1 <= Len(s) /\ (o + k) + 1 <= Len(t)
          /\ o + (k + 1) = (o + k) + 1 /\ o + k \in Nat /\ k + 1 \in 1 .. n
      BY <2>1, <2>2
    <2>4. t[(o + k) + 1] = s[k + 1]
      BY <2>3
    <2>5. Upto(t, (o + k) + 1) = Read(Upto(t, o + k), t[(o + k) + 1])
      BY <2>3, UptoNext
    <2>6. Upto(s, k + 1) = Read(Upto(s, k), s[k + 1])
      BY <2>1, <2>3, UptoNext
    <2> QED
      BY <2>3, <2>4, <2>5, <2>6
  <1> HIDE DEF I
  <1>3. I \in SUBSET Nat
    BY DEF I
  <1>4. I = Nat
    BY <1>1, <1>2, <1>3, Parsing!SetInduction
  <1> QED
    BY <1>4 DEF I

LEMMA UptoSame ==
    ASSUME NEW s \in Seq(Token), NEW t \in Seq(Token), NEW n \in Nat,
           n <= Len(s), n <= Len(t), \A i \in 1 .. n : t[i] = s[i]
    PROVE  Upto(t, n) = Upto(s, n)
  <1>1. Upto(t, 0) = Fresh /\ 0 \in Nat /\ 0 + n = n /\ \A i \in 1 .. n : 0 + i = i
    BY UptoEnds
  <1>2. \A i \in 1 .. n : t[0 + i] = s[i]
    BY <1>1
  <1>3. Upto(t, 0 + n) = Upto(s, n)
    BY <1>1, <1>2, UptoEqual
  <1> QED
    BY <1>1, <1>3

LEMMA SpaceSkipped ==
    ASSUME NEW r \in Parser, r.next \notin {"string", "escape"}
    PROVE  Read(r, space) = r
  BY TokenKinds DEF Read, ReadOutside

\* A comma, and white space behind it, before a closing delimiter is an error.
LEMMA CommaRefused ==
    ASSUME NEW r \in Parser, r.next \in {"first", "more"}, NEW ch \in Closers
    PROVE  LET new == Read(r, comma) IN
           /\ new \in Parser /\ new.next \in {"value", "error"}
           /\ Read(new, ch).next = "error"
  <1> DEFINE new == Read(r, comma)
  <1>1. new \in Parser
    BY ReadTyped
  <1>2. new.next \in {"value", "error"}
    BY TokenKinds, OutsideOfStrings
  <1> HIDE DEF new
  <1>3. Read(new, ch).next = "error"
    <2>1. ch # space /\ ch # comma /\ ch # "a" /\ ch # quote /\ ch \notin Openers
      BY TokenKinds DEF Closers, Openers, brace
    <2> QED
      BY <1>1, <1>2, <2>1, OutsideOfStrings
  <1> QED
    BY <1>1, <1>2, <1>3 DEF new

LEMMA UptoSpaces ==
    ASSUME NEW t \in Seq(Token), NEW n \in Nat, n <= Len(t),
           \A i \in 1 .. n : t[i] = space
    PROVE  Upto(t, n) = Fresh
  <1>1. PICK r : r = Fresh
    OBVIOUS
  <1>2. Read(r, space) = r
    BY <1>1, FreshParser, SpaceSkipped
  <1> DEFINE I == {k \in Nat : k <= n => Upto(t, k) = r}
  <1>3. 0 \in I
    BY <1>1, UptoEnds
  <1>4. ASSUME NEW k \in I PROVE k + 1 \in I
    <2>1. k \in Nat /\ Len(t) \in Nat
      BY TextLength
    <2>2. SUFFICES ASSUME k + 1 <= n PROVE Upto(t, k + 1) = r
      BY <2>1
    <2>3. Upto(t, k) = r /\ k + 1 <= Len(t) /\ t[k + 1] = space
      BY <2>1, <2>2
    <2>4. Upto(t, k + 1) = Read(r, space)
      BY <2>1, <2>3, UptoNext
    <2> QED
      BY <1>2, <2>4
  <1> HIDE DEF I
  <1>5. I \in SUBSET Nat
    BY DEF I
  <1>6. I = Nat
    BY <1>3, <1>4, <1>5, Parsing!SetInduction
  <1> QED
    BY <1>1, <1>6 DEF I

\* Behind a complete value only white space may come.
LEMMA DoneStays ==
    ASSUME NEW r \in Parser, r.next \in Done, NEW ch
    PROVE  /\ Read(r, ch).next \in Done
           /\ ch # space \/ r.next = "error" => Read(r, ch).next = "error"
  BY OutsideOfStrings DEF Done

\* That t is read up to k and done, and why it is not an error.
Ended(t, m, k) ==
    /\ Upto(t, k).next \in Done
    /\ (\E i \in m + 1 .. k : t[i] # space) \/ Upto(t, m).next = "error"
         => Upto(t, k).next = "error"

LEMMA UptoDone ==
    ASSUME NEW t \in Seq(Token), NEW m \in Nat, Upto(t, m).next \in Done,
           NEW n \in Nat, m <= n, n <= Len(t)
    PROVE  Ended(t, m, n)
  <1> DEFINE I == {k \in Nat : m + k <= n => Ended(t, m, m + k)}
  <1>1. 0 \in I
    <2>1. m + 0 = m /\ m + 1 .. m = {}
      OBVIOUS
    <2>2. Ended(t, m, m)
      BY <2>1 DEF Ended
    <2> QED
      BY <2>1, <2>2
  <1>2. ASSUME NEW k \in I PROVE k + 1 \in I
    <2>1. k \in Nat /\ Len(t) \in Nat
      BY TextLength
    <2>2. SUFFICES ASSUME m + (k + 1) <= n PROVE Ended(t, m, m + (k + 1))
      BY <2>1
    <2> DEFINE j == m + k
    <2>3. j \in Nat /\ j + 1 = m + (k + 1) /\ j + 1 <= Len(t) /\ j <= Len(t) /\ j <= n
      BY <2>1, <2>2
    <2>4. Ended(t, m, j)
      BY <2>1, <2>3
    <2>5. \A i \in m + 1 .. j + 1 : i \in m + 1 .. j \/ i = j + 1
      BY <2>3
    <2> HIDE DEF j
    <2>6. Upto(t, j + 1) = Read(Upto(t, j), t[j + 1]) /\ Upto(t, j) \in Parser
      BY <2>3, UptoNext, UptoTyped
    <2>7. Upto(t, j).next \in Done
      BY <2>4 DEF Ended
    <2>8. /\ Upto(t, j + 1).next \in Done
          /\ t[j + 1] # space \/ Upto(t, j).next = "error" => Upto(t, j + 1).next = "error"
      BY <2>6, <2>7, DoneStays
    <2>9. (\E i \in m + 1 .. j + 1 : t[i] # space) \/ Upto(t, m).next = "error"
             => t[j + 1] # space \/ Upto(t, j).next = "error"
      BY <2>4, <2>5 DEF Ended
    <2>10. Ended(t, m, j + 1)
      BY <2>8, <2>9 DEF Ended
    <2> QED
      BY <2>3, <2>10
  <1> HIDE DEF I
  <1>3. I \in SUBSET Nat
    BY DEF I
  <1>4. I = Nat
    BY <1>1, <1>2, <1>3, Parsing!SetInduction
  <1>5. n - m \in I /\ m + (n - m) = n
    BY <1>4
  <1> QED
    BY <1>5 DEF I

-------------------------------------------------------------------------------
(***************************************************************************)
(* The documents, and what may become of one on its way.                   *)
(***************************************************************************)
close == close_of[brace]

LEMMA CloseBrace == close \in Closers /\ close # brace /\ close # space /\ close # comma
                    /\ close # quote /\ close # backslash /\ close # "a" /\ close \notin Openers
                    /\ close # fence /\ brace # space /\ brace # comma /\ brace # "a" /\ brace # fence
                    /\ close \in Token /\ space \in Token /\ comma \in Token
  <1>1. \A c \in Closers : c \notin Openers
    BY DEF Openers, Closers, brace
  <1> QED
    BY <1>1, TokenKinds DEF close, Token

\* An object, from one brace to the other.
LEMMA DocumentFacts ==
    ASSUME NEW d \in Documents
    PROVE  /\ d \in Seq(Token) /\ Len(d) \in Nat /\ Len(d) >= 2
           /\ d[1] = brace /\ d[Len(d)] = close
           /\ Upto(d, Len(d)).next = "nothing"
  <1>1. d \in Seq(Token) /\ d # <<>> /\ d[1] = brace /\ Last(d) = close
        /\ Reading(d).next = "nothing"
    BY RepairAssumption, ObjectsAssumption DEF close
  <1>2. Len(d) \in Nat /\ Len(d) >= 1 /\ d[Len(d)] = close
    BY <1>1 DEF Last
  <1>3. Len(d) # 1
    BY <1>1, <1>2, CloseBrace
  <1> QED
    BY <1>1, <1>2, <1>3, UptoEnds

\* The beginning of an object is neither complete nor an error.
LEMMA DocumentOpen ==
    ASSUME NEW d \in Documents, NEW n \in Nat, n < Len(d)
    PROVE  Upto(d, n).next \notin Done
  <1> SUFFICES ASSUME Upto(d, n).next \in Done PROVE FALSE
    OBVIOUS
  <1>1. d \in Seq(Token) /\ Len(d) \in Nat /\ d[Len(d)] # space /\ Len(d) \in n + 1 .. Len(d)
        /\ n <= Len(d) /\ Upto(d, Len(d)).next = "nothing"
    BY DocumentFacts, CloseBrace
  <1>2. Ended(d, n, Len(d))
    BY <1>1, UptoDone
  <1> QED
    BY <1>1, <1>2 DEF Ended

\* Before its last brace only the first one is open.
LEMMA DocumentLast ==
    ASSUME NEW d \in Documents
    PROVE  LET r == Upto(d, Len(d) - 1)
           IN  r \in Parser /\ r.next \in {"first", "more"} /\ r.open = <<brace>>
  <1> DEFINE n == Len(d) - 1
             r == Upto(d, n)
             new == Read(r, close)
  <1>1. /\ n \in Nat /\ n + 1 = Len(d) /\ n <= Len(d) /\ n < Len(d) /\ d \in Seq(Token)
        /\ d[n + 1] = close /\ Upto(d, n + 1).next = "nothing"
    BY DocumentFacts
  <1>2. r \in Parser /\ r.next \notin Done /\ new.next = "nothing"
    BY <1>1, UptoTyped, UptoNext, DocumentOpen
  <1> HIDE DEF r, n
  <1>3. r.next \notin {"string", "escape"}
    BY <1>2, InsideOfStrings, CloseBrace DEF Done
  <1>4. /\ r.next \in {"first", "more"} /\ r.open # <<>>
        /\ close = close_of[Last(r.open)]
        /\ new = Closed(r, Front(r.open))
    BY <1>2, <1>3, OutsideOfStrings, CloseBrace
  <1> HIDE DEF new
  <1> DEFINE o == r.open
  <1>5. o \in Seq(Openers) /\ o # <<>>
    BY <1>2, <1>4, ParserFields
  <1> HIDE DEF o
  <1>6. /\ Front(o) \in Seq(Openers) /\ Len(o) \in Nat \ {0} /\ Last(o) = o[Len(o)]
        /\ Len(Front(o)) = Len(o) - 1 /\ Last(o) \in Openers
    BY <1>5, FrontFacts
  <1>7. Front(o) = <<>>
    BY <1>2, <1>4, <1>6, ClosedParser DEF o
  <1>8. Len(o) = 1
    BY <1>6, <1>7
  <1>9. o[1] = brace
    BY <1>4, <1>6, <1>8, TokenKinds DEF close, o
  <1>10. o = <<brace>>
    BY <1>5, <1>8, <1>9
  <1> QED
    BY <1>2, <1>4, <1>10 DEF r, n, o

\* A document as it is written.
LEMMA WrittenFacts ==
    ASSUME NEW d \in Documents, NEW w \in Written(d)
    PROVE  /\ w \in Seq(Token) /\ Len(w) \in Nat /\ Len(w) >= Len(d)
           /\ w[1] = brace /\ w[Len(w)] = close
           /\ \A i \in 1 .. Len(d) - 1 : w[i] = d[i]
           /\ \A i \in Len(d) .. Len(w) - 1 : w[i] \in {comma, space}
           /\ w = d \/ /\ Len(w) = Len(d) + 2
                       /\ w[Len(d)] = comma /\ w[Len(d) + 1] = space
  <1>1. /\ d \in Seq(Token) /\ Len(d) \in Nat /\ Len(d) >= 2
        /\ d[1] = brace /\ d[Len(d)] = close
    BY DocumentFacts
  <1>2. CASE w = d
    BY <1>1, <1>2
  <1>3. CASE w # d
    <2> DEFINE n == Len(d) - 1
               f == SubSeq(d, 1, n)
               e == <<comma, space, close>>
    <2>1. w = f \o e
      BY <1>1, <1>3 DEF Written, Front, Last
    <2>2. n \in Nat /\ n <= Len(d) /\ Len(d) = n + 1 /\ 1 <= n
      BY <1>1
    <2> HIDE DEF n
    <2>3. f \in Seq(Token) /\ Len(f) = n /\ \A i \in 1 .. n : f[i] = d[i]
      BY <1>1, <2>2, PrefixFacts
    <2>4. e \in Seq(Token) /\ Len(e) = 3 /\ e[1] = comma /\ e[2] = space /\ e[3] = close
      BY CloseBrace
    <2> HIDE DEF f, e
    <2> DEFINE m == 3
    <2>5. Len(e) = m
      BY <2>4
    <2> HIDE DEF m
    <2>6. /\ w \in Seq(Token) /\ Len(w) = n + m
          /\ \A i \in 1 .. n : w[i] = f[i]
          /\ \A i \in 1 .. m : w[n + i] = e[i]
      <3>1. f \in Seq(Token) /\ e \in Seq(Token) /\ n = Len(f) /\ m = Len(e)
        BY <2>3, <2>4, <2>5
      <3>2. /\ f \o e \in Seq(Token) /\ Len(f \o e) = n + m
            /\ \A i \in 1 .. n : (f \o e)[i] = f[i]
            /\ \A i \in 1 .. m : (f \o e)[n + i] = e[i]
        BY ONLY <3>1, ConcatFacts
      <3> QED
        BY <2>1, <3>2
    <2>7. /\ w \in Seq(Token) /\ Len(w) = n + 3
          /\ \A i \in 1 .. n : w[i] = f[i]
          /\ \A i \in 1 .. 3 : w[n + i] = e[i]
      BY <2>6 DEF m
    <2>8. w[n + 1] = comma /\ w[n + 2] = space /\ w[n + 3] = close
      BY <2>4, <2>7
    <2>9. \A i \in 1 .. n : w[i] = d[i]
      BY <2>3, <2>7
    <2>10. \A i \in n + 1 .. n + 2 : i = n + 1 \/ i = n + 2
      BY <2>2
    <2>11. w[1] = brace
      BY <1>1, <2>2, <2>9
    <2>12. /\ Len(w) = Len(d) + 2 /\ Len(d) + 1 = n + 2 /\ Len(w) - 1 = n + 2
           /\ Len(d) - 1 = n /\ Len(w) \in Nat /\ Len(w) >= Len(d)
      BY <2>2, <2>7
    <2> QED
      BY <2>2, <2>7, <2>8, <2>9, <2>10, <2>11, <2>12
  <1> QED
    BY <1>2, <1>3

\* As long as nothing is missing of it, it reads like the document.
LEMMA WrittenReads ==
    ASSUME NEW d \in Documents, NEW w \in Written(d), NEW n \in Nat, n < Len(d)
    PROVE  Upto(w, n) = Upto(d, n)
  <1>1. /\ w \in Seq(Token) /\ d \in Seq(Token) /\ Len(w) \in Nat /\ Len(d) \in Nat
        /\ Len(w) >= Len(d) /\ \A i \in 1 .. Len(d) - 1 : w[i] = d[i]
    BY DocumentFacts, WrittenFacts
  <1>2. n <= Len(d) /\ n <= Len(w) /\ \A i \in 1 .. n : w[i] = d[i]
    BY <1>1
  <1> QED
    BY <1>1, <1>2, UptoSame

\* The trailing comma is an error, at the latest at the brace behind it.
LEMMA TrailingReads ==
    ASSUME NEW d \in Documents, NEW w \in Written(d), w # d
    PROVE  LET m == Len(d)
           IN  /\ Upto(w, m).next \in {"value", "error"}
               /\ Upto(w, m + 1).next \in {"value", "error"}
               /\ Upto(w, m + 2).next = "error"
  <1> DEFINE m == Len(d) - 1
             r == Upto(w, m)
             new == Read(r, comma)
  <1>1. /\ w \in Seq(Token) /\ Len(w) \in Nat /\ Len(d) \in Nat /\ Len(d) >= 2
    BY DocumentFacts, WrittenFacts
  <1>2. /\ m \in Nat /\ m < Len(d) /\ Len(w) = m + 3 /\ w[m + 1] = comma
        /\ w[m + 2] = space /\ w[m + 3] = close
        /\ m + 1 <= Len(w) /\ m + 2 <= Len(w) /\ m + 3 <= Len(w)
        /\ (m + 1) + 1 = m + 2 /\ (m + 2) + 1 = m + 3
        /\ Len(d) = m + 1 /\ Len(d) + 1 = m + 2 /\ Len(d) + 2 = m + 3
    BY <1>1, WrittenFacts
  <1>3. r \in Parser /\ r.next \in {"first", "more"}
    BY <1>2, WrittenReads, DocumentLast
  <1>4. Upto(w, m + 1) = new
    BY <1>1, <1>2, UptoNext
  <1>5. /\ new \in Parser /\ new.next \in {"value", "error"}
        /\ Read(new, close).next = "error"
    BY <1>3, CommaRefused, CloseBrace
  <1>6. Upto(w, m + 2) = Read(new, space)
    BY <1>1, <1>2, <1>4, UptoNext
  <1> HIDE DEF m, new, r
  <1>7. Read(new, space) = new
    BY <1>5, SpaceSkipped
  <1>8. Upto(w, m + 3) = Read(new, close)
    BY <1>1, <1>2, <1>6, <1>7, UptoNext
  <1> QED
    BY <1>2, <1>4, <1>5, <1>6, <1>7, <1>8

\* No beginning of it is complete, and with a trailing comma the whole is not either.
LEMMA WrittenOpen ==
    ASSUME NEW d \in Documents, NEW w \in Written(d), NEW n \in Nat, n <= Len(w),
           Upto(w, n).next = "nothing"
    PROVE  w = d /\ n = Len(w)
  <1>1. Len(w) \in Nat /\ Len(d) \in Nat
    BY DocumentFacts, WrittenFacts
  <1>2. ~(n < Len(d))
    BY WrittenReads, DocumentOpen DEF Done
  <1>3. w = d
    <2>1. SUFFICES ASSUME w # d PROVE FALSE
      OBVIOUS
    <2>2. Len(w) = Len(d) + 2
      BY <2>1, WrittenFacts
    <2>3. n = Len(d) \/ n = Len(d) + 1 \/ n = Len(d) + 2
      BY <1>1, <1>2, <2>2
    <2> QED
      BY <2>1, <2>3, TrailingReads
  <1> QED
    BY <1>1, <1>2, <1>3

-------------------------------------------------------------------------------
(***************************************************************************)
(* What surrounds a document, and what the repair takes away of it.        *)
(***************************************************************************)

\* The first n tokens of w stand in t behind the first o, which open nothing.
Placed(t, w, o, n) == /\ o + n <= Len(t)
                      /\ \A i \in 1 .. n : t[o + i] = w[i]
                      /\ \A i \in 1 .. o : t[i] \notin Openers

OneFence(t, m, n) == \A i, j \in m .. n : t[i] = fence /\ t[j] = fence => i = j

\* If the reply breaks off, there is nothing behind them.
Behind(t, o, n) == cut => \A i \in o + n + 1 .. Len(t) : t[i] = space

Holds(t, w, o, n) == Placed(t, w, o, n) /\ Behind(t, o, n)

Carries(t, w, n) == \E o \in Nat : Holds(t, w, o, n)

\* No two fences on the same side of them, the first one behind.
FencesApart(t, o, n) == /\ OneFence(t, 1, o)
                        /\ \/ \E i \in 1 .. o : t[i] = fence
                           \/ OneFence(t, o + n + 1, Len(t))

\* The part of a document that t carries: it ends in ink and holds no fence.
Core(w, n) == /\ w \in Seq(Token) /\ n \in Nat \ {0} /\ n <= Len(w)
              /\ w[1] = brace /\ w[n] # space
              /\ \A i \in 1 .. n : w[i] # fence

LEMMA WindowFacts ==
    ASSUME NEW t \in Seq(Token), NEW l \in Nat, NEW r \in Nat, l <= r, r <= Len(t)
    PROVE  LET s == SubSeq(t, l + 1, r)
           IN  s \in Seq(Token) /\ Len(s) = r - l /\ \A i \in 1 .. r - l : s[i] = t[l + i]
  OBVIOUS

\* Whatever is cut off around it, it stays.
LEMMA WindowHolds ==
    ASSUME NEW t \in Seq(Token), NEW w, NEW n, Core(w, n), NEW o \in Nat,
           Holds(t, w, o, n),
           NEW l \in Nat, l <= o, NEW r \in Nat, o + n <= r, r <= Len(t)
    PROVE  Holds(SubSeq(t, l + 1, r), w, o - l, n)
  <1> DEFINE s == SubSeq(t, l + 1, r)
             q == o - l
  <1>1. n \in Nat /\ n >= 1
    BY DEF Core
  <1>2. /\ s \in Seq(Token) /\ Len(s) = r - l /\ \A i \in 1 .. r - l : s[i] = t[l + i]
    <2>1. l <= r
      BY <1>1
    <2> QED
      BY <2>1, WindowFacts
  <1>3. q \in Nat /\ l + q = o
    OBVIOUS
  <1> HIDE DEF s, q
  <1>4. /\ o + n <= Len(t)
        /\ \A i \in 1 .. n : t[o + i] = w[i]
        /\ \A i \in 1 .. o : t[i] \notin Openers
        /\ cut => \A i \in o + n + 1 .. Len(t) : t[i] = space
    BY DEF Holds, Placed, Behind
  <1>5. q + n <= Len(s)
    BY <1>1, <1>2, <1>3
  <1>6. ASSUME NEW i \in 1 .. n PROVE s[q + i] = w[i]
    <2>1. q + i \in 1 .. r - l /\ l + (q + i) = o + i
      BY <1>1, <1>3
    <2> QED
      BY <1>2, <1>4, <2>1
  <1>7. ASSUME NEW i \in 1 .. q PROVE s[i] \notin Openers
    <2>1. i \in 1 .. r - l /\ l + i \in 1 .. o
      BY <1>1, <1>3
    <2> QED
      BY <1>2, <1>4, <2>1
  <1>8. ASSUME cut, NEW i \in q + n + 1 .. Len(s) PROVE s[i] = space
    <2>1. i \in 1 .. r - l /\ l + i \in o + n + 1 .. Len(t)
      <3>1. Len(t) \in Nat
        BY TextLength
      <3> QED
        BY <1>1, <1>2, <1>3, <3>1
    <2> QED
      BY <1>2, <1>4, <1>8, <2>1
  <1> QED
    BY <1>5, <1>6, <1>7, <1>8 DEF Holds, Placed, Behind, s, q

\* Fences stay apart when none of them is cut off in front.
LEMMA WindowFences ==
    ASSUME NEW t \in Seq(Token), NEW o \in Nat, NEW n \in Nat, FencesApart(t, o, n),
           NEW l \in Nat, l <= o, NEW r \in Nat, o + n <= r, r <= Len(t),
           \A i \in 1 .. l : t[i] # fence
    PROVE  FencesApart(SubSeq(t, l + 1, r), o - l, n)
  <1> DEFINE s == SubSeq(t, l + 1, r)
             q == o - l
  <1>1. /\ s \in Seq(Token) /\ Len(s) = r - l /\ \A i \in 1 .. r - l : s[i] = t[l + i]
    <2>1. l <= r
      OBVIOUS
    <2> QED
      BY <2>1, WindowFacts
  <1>2. q \in Nat /\ l + q = o /\ q <= r - l /\ r - l \in Nat /\ Len(t) \in Nat
    BY TextLength
  <1> HIDE DEF s, q
  <1>3. ASSUME NEW a \in Nat, NEW b \in Nat, 1 <= a, b <= r - l,
               NEW c \in Nat, NEW d \in Nat, c <= l + a, l + b <= d, OneFence(t, c, d)
        PROVE  OneFence(s, a, b)
    <2> SUFFICES ASSUME NEW i \in a .. b, NEW j \in a .. b, s[i] = fence, s[j] = fence
                 PROVE  i = j
      BY DEF OneFence
    <2>1. /\ i \in 1 .. r - l /\ j \in 1 .. r - l
          /\ l + i \in c .. d /\ l + j \in c .. d
      BY <1>2, <1>3
    <2>2. t[l + i] = fence /\ t[l + j] = fence
      BY <1>1, <2>1
    <2>3. l + i = l + j
      BY <1>3, <2>1, <2>2 DEF OneFence
    <2> QED
      BY <2>1, <2>3
  <1>4. OneFence(s, 1, q)
    <2>1. OneFence(t, 1, o)
      BY DEF FencesApart
    <2>2. 1 \in Nat /\ 1 <= 1 /\ 1 <= l + 1 /\ l + q <= o
      BY <1>2
    <2> QED
      BY <1>2, <1>3, <2>1, <2>2
  <1>5. CASE \E i \in 1 .. o : t[i] = fence
    <2>1. PICK i \in 1 .. o : t[i] = fence
      BY <1>5
    <2>2. l < i
      BY <2>1
    <2>3. i - l \in 1 .. q /\ i - l \in 1 .. r - l /\ l + (i - l) = i
      BY <1>2, <2>2
    <2>4. s[i - l] = fence
      BY <1>1, <2>1, <2>3
    <2> QED
      BY <1>4, <2>3, <2>4 DEF FencesApart, s, q
  <1>6. CASE OneFence(t, o + n + 1, Len(t))
    <2>1. /\ q + n + 1 \in Nat /\ 1 <= q + n + 1 /\ o + n + 1 \in Nat
          /\ o + n + 1 <= l + (q + n + 1) /\ l + (r - l) <= Len(t)
      BY <1>2
    <2>2. OneFence(s, q + n + 1, Len(s))
      BY <1>1, <1>2, <1>3, <1>6, <2>1
    <2> QED
      BY <1>4, <2>2 DEF FencesApart, s, q
  <1> QED
    BY <1>5, <1>6 DEF FencesApart

\* str.strip: from the first token that is not white space to the last.
LEMMA StripWindow ==
    ASSUME NEW t \in Seq(Token)
    PROVE  \/ strip(t) = <<>> /\ \A i \in 1 .. Len(t) : t[i] = space
           \/ \E l, r \in Nat :
                /\ strip(t) = SubSeq(t, l + 1, r)
                /\ l + 1 <= r /\ r <= Len(t)
                /\ t[l + 1] # space /\ t[r] # space
                /\ \A i \in 1 .. l : t[i] = space
                /\ \A i \in r + 1 .. Len(t) : t[i] = space
  <1> DEFINE n == Len(t)
             I == {i \in 1 .. n : t[i] # space}
             first == IF I # {} THEN Min(I) ELSE 0
             last == IF I # {} THEN Max(I) ELSE 0
  <1>1. strip(t) = SubSeq(t, IF first = 0 THEN n + 1 ELSE first, last)
    BY DEF strip, SelectLastInSeq, SelectInSeq, first_ink
  <1>2. n \in Nat /\ I \subseteq 1 .. n
    BY TextLength
  <1>3. CASE I = {}
    <2>1. first = 0 /\ last = 0 /\ strip(t) = SubSeq(t, n + 1, 0)
      BY <1>1, <1>3
    <2>2. strip(t) = <<>>
      <3> HIDE DEF first, last, n
      <3> QED
        BY <1>2, <2>1
    <2> QED
      BY <1>3, <2>2
  <1>4. CASE I # {}
    <2>1. first = Min(I) /\ last = Max(I)
      BY <1>4
    <2>2. first \in I /\ \A k \in I : first <= k
      <3> HIDE DEF I
      <3> QED
        BY <1>2, <1>4, <2>1, FirstPosition
    <2>3. last \in I /\ \A k \in I : k <= last
      <3> HIDE DEF I
      <3> QED
        BY <1>2, <1>4, <2>1, LastPosition
    <2> DEFINE l == first - 1
    <2>4. first \in 1 .. n /\ last \in 1 .. n /\ t[first] # space /\ t[last] # space
      BY <2>2, <2>3
    <2>5. /\ \A i \in 1 .. n : i < first => t[i] = space
          /\ \A i \in 1 .. n : last < i => t[i] = space
      <3>1. ASSUME NEW i \in 1 .. n, t[i] # space PROVE first <= i /\ i <= last
        BY <2>2, <2>3, <3>1
      <3> HIDE DEF first, last
      <3> QED
        BY <2>4, <3>1
    <2>6. first <= last
      BY <2>2, <2>3
    <2> HIDE DEF first, last, I
    <2>7. l \in Nat /\ l + 1 = first /\ last \in Nat /\ first # 0
      BY <1>2, <2>4
    <2> HIDE DEF l
    <2>8. /\ \A i \in 1 .. l : i \in 1 .. n /\ i < first
          /\ \A i \in last + 1 .. n : i \in 1 .. n /\ last < i
      BY <1>2, <2>4, <2>7
    <2>9. strip(t) = SubSeq(t, l + 1, last)
      BY <1>1, <2>7
    <2>10. /\ l + 1 <= last /\ last <= Len(t)
           /\ t[l + 1] # space /\ t[last] # space
           /\ \A i \in 1 .. l : t[i] = space
           /\ \A i \in last + 1 .. Len(t) : t[i] = space
      BY <2>4, <2>5, <2>6, <2>7, <2>8
    <2> QED
      BY <2>7, <2>9, <2>10
  <1> QED
    BY <1>3, <1>4

LEMMA StripHolds ==
    ASSUME NEW t \in Seq(Token), NEW w, NEW n, Core(w, n), NEW o \in Nat, Holds(t, w, o, n)
    PROVE  /\ strip(t) \in Seq(Token) /\ strip(t) # <<>> /\ strip(t)[1] # space
           /\ \E q \in Nat : /\ Holds(strip(t), w, q, n)
                             /\ cut => q + n = Len(strip(t))
                             /\ FencesApart(t, o, n) => FencesApart(strip(t), q, n)
  <1>1. n \in Nat /\ n >= 1 /\ w[1] # space /\ w[n] # space
    BY CloseBrace DEF Core
  <1>2. /\ o + n <= Len(t) /\ \A i \in 1 .. n : t[o + i] = w[i]
        /\ cut => \A i \in o + n + 1 .. Len(t) : t[i] = space
    BY DEF Holds, Placed, Behind
  <1>3. t[o + 1] # space /\ t[o + n] # space
    BY <1>1, <1>2
  <1>4. Len(t) \in Nat /\ o + 1 \in 1 .. Len(t) /\ o + n \in 1 .. Len(t)
    BY <1>1, <1>2, TextLength
  <1>5. PICK l \in Nat, r \in Nat :
                /\ strip(t) = SubSeq(t, l + 1, r)
                /\ l + 1 <= r /\ r <= Len(t)
                /\ t[l + 1] # space /\ t[r] # space
                /\ \A i \in 1 .. l : t[i] = space
                /\ \A i \in r + 1 .. Len(t) : t[i] = space
    BY <1>3, <1>4, StripWindow
  <1>6. l <= o /\ o + n <= r
    <2>1. ~(o + 1 <= l)
      BY <1>3, <1>4, <1>5
    <2>2. ~(r + 1 <= o + n)
      BY <1>1, <1>3, <1>4, <1>5
    <2> QED
      BY <1>1, <2>1, <2>2
  <1>7. cut => r = o + n
    <2>1. cut => ~(o + n + 1 <= r)
      BY <1>1, <1>2, <1>4, <1>5
    <2> QED
      BY <1>1, <1>6, <2>1
  <1>8. Holds(strip(t), w, o - l, n)
    BY <1>5, <1>6, WindowHolds
  <1>9. /\ strip(t) \in Seq(Token) /\ Len(strip(t)) = r - l
        /\ \A i \in 1 .. r - l : strip(t)[i] = t[l + i]
    <2>1. l <= r
      BY <1>5
    <2> QED
      BY <1>5, <2>1, WindowFacts
  <1>10. strip(t)[1] # space /\ strip(t) # <<>>
    <2>1. 1 \in 1 .. r - l
      BY <1>5
    <2>2. strip(t)[1] = t[l + 1]
      BY <1>9, <2>1
    <2>3. Len(strip(t)) # 0
      BY <1>5, <1>9
    <2> QED
      BY <1>5, <1>9, <2>2, <2>3
  <1>11. FencesApart(t, o, n) => FencesApart(strip(t), o - l, n)
    <2>1. \A i \in 1 .. l : t[i] # fence
      BY <1>5, TokenKinds
    <2> QED
      BY <1>1, <1>5, <1>6, <2>1, WindowFences
  <1>12. o - l \in Nat /\ (cut => o - l + n = Len(strip(t)))
    BY <1>1, <1>6, <1>7, <1>9
  <1> QED
    BY <1>8, <1>9, <1>10, <1>11, <1>12

LEMMA UntagHolds ==
    ASSUME NEW t \in Seq(Token), NEW w, NEW n, Core(w, n), Carries(t, w, n)
    PROVE  untagged(t) \in Seq(Token) /\ Carries(untagged(t), w, n)
  <1>1. PICK o \in Nat : Holds(t, w, o, n)
    BY DEF Carries
  <1> DEFINE m == Len(t)
             I == {i \in 1 .. m : t[i] # "a"}
             first == IF I # {} THEN Min(I) ELSE 0
  <1>2. untagged(t) = IF first = 0 THEN <<>> ELSE SubSeq(t, first, m)
    BY DEF untagged, SelectInSeq
  <1>3. n \in Nat /\ n >= 1 /\ o + n <= m /\ t[o + 1] = w[1] /\ w[1] # "a" /\ m \in Nat
    BY <1>1, CloseBrace, TextLength DEF Core, Holds, Placed
  <1>4. o + 1 \in I /\ I \subseteq 1 .. m
    BY <1>3
  <1> HIDE DEF m, I
  <1>5. first \in I /\ first <= o + 1
    <2>1. I # {}
      BY <1>4
    <2>2. Min(I) \in I /\ Min(I) <= o + 1
      BY <1>3, <1>4, <2>1, FirstPosition
    <2> QED
      BY <2>1, <2>2
  <1> DEFINE l == first - 1
  <1>6. first \in 1 .. m
    BY <1>4, <1>5
  <1> HIDE DEF first
  <1>7. l \in Nat /\ l <= o /\ l + 1 = first /\ first # 0
    BY <1>3, <1>5, <1>6
  <1>8. untagged(t) = SubSeq(t, l + 1, m)
    BY <1>2, <1>7
  <1>9. Holds(SubSeq(t, l + 1, m), w, o - l, n)
    BY <1>1, <1>3, <1>7, WindowHolds DEF m
  <1>10. o - l \in Nat
    BY <1>7
  <1> QED
    BY <1>8, <1>9, <1>10, UntaggedTyped DEF Carries

\* The document is between the first two fences, or there are not two of them.
LEMMA FencesAround ==
    ASSUME NEW t \in Seq(Token), NEW w, NEW n, Core(w, n), NEW o \in Nat,
           Holds(t, w, o, n), FencesApart(t, o, n),
           NEW i \in 1 .. Len(t), t[i] = fence, \A k \in 1 .. Len(t) : k < i => t[k] # fence,
           NEW j \in 1 .. Len(t), t[j] = fence, i < j
    PROVE  i <= o /\ o + n < j
  <1>1. n \in Nat /\ n >= 1 /\ o + n <= Len(t) /\ Len(t) \in Nat
    BY TextLength DEF Core, Holds, Placed
  <1>2. ASSUME NEW k \in 1 .. Len(t), t[k] = fence PROVE k <= o \/ o + n + 1 <= k
    <2>1. SUFFICES ASSUME k > o, k <= o + n PROVE FALSE
      BY <1>1
    <2>2. k - o \in 1 .. n /\ o + (k - o) = k
      BY <1>1, <2>1
    <2>3. t[k] = w[k - o] /\ w[k - o] # fence
      BY <2>2 DEF Core, Holds, Placed
    <2> QED
      BY <1>2, <2>3
  <1>3. ~(j <= o)
    <2>1. SUFFICES ASSUME j <= o PROVE FALSE
      OBVIOUS
    <2>2. i \in 1 .. o /\ j \in 1 .. o
      BY <2>1
    <2>3. i = j
      BY <2>2 DEF FencesApart, OneFence
    <2> QED
      BY <2>3
  <1>4. i <= o
    <2>1. SUFFICES ASSUME o + n + 1 <= i PROVE FALSE
      BY <1>2
    <2>2. ~\E k \in 1 .. o : t[k] = fence
      BY <1>1, <2>1
    <2>3. i \in o + n + 1 .. Len(t) /\ j \in o + n + 1 .. Len(t)
      BY <1>1, <2>1
    <2>4. i = j
      BY <2>2, <2>3 DEF FencesApart, OneFence
    <2> QED
      BY <2>4
  <1> QED
    BY <1>1, <1>2, <1>3, <1>4

LEMMA FencesHold ==
    ASSUME NEW t \in Seq(Token), NEW w, NEW n, Core(w, n), NEW o \in Nat,
           Holds(t, w, o, n), FencesApart(t, o, n)
    PROVE  /\ strip_fences(t) # <<>> /\ strip_fences(t)[1] # space
           /\ \E q \in Nat : /\ Holds(strip_fences(t), w, q, n)
                             /\ cut => q + n = Len(strip_fences(t))
  <1> DEFINE I == {k \in 1 .. Len(t) : t[k] = fence}
             i == IF I # {} THEN Min(I) ELSE 0
             J == {k \in i + 1 .. Len(t) : t[k] = fence}
             j == IF J # {} THEN Min(J) ELSE 0
             leading == IF i = 1 THEN untagged(Tail(t)) ELSE t
             trailing == IF leading # <<>> /\ Last(leading) = fence
                         THEN Front(leading) ELSE leading
             inner == IF i # 0 /\ j # 0 THEN untagged(SubSeq(t, i + 1, j - 1)) ELSE trailing
  <1>1. strip_fences(t) = strip(inner)
    BY DEF strip_fences, SelectInSeq, SelectInSubSeq
  <1>2. /\ n \in Nat /\ n >= 1 /\ o + n <= Len(t) /\ Len(t) \in Nat
        /\ t[o + 1] # fence /\ \A k \in 1 .. n : w[k] # fence
    <2>1. n \in Nat /\ n >= 1 /\ o + n <= Len(t) /\ t[o + 1] = w[1] /\ w[1] = brace
      BY DEF Core, Holds, Placed
    <2> QED
      BY <2>1, TextLength, CloseBrace DEF Core
  <1>3. i # 0 => /\ i \in 1 .. Len(t) /\ t[i] = fence
                 /\ \A k \in 1 .. Len(t) : k < i => t[k] # fence
    <2>1. SUFFICES ASSUME i # 0 PROVE i \in I /\ \A k \in I : i <= k
      <3> HIDE DEF i
      <3> QED
        BY <1>2
    <2>2. I \subseteq 1 .. Len(t) /\ I # {}
      BY <2>1
    <2> HIDE DEF I
    <2> QED
      BY <1>2, <2>2, FirstPosition
  <1>4. i \in 0 .. Len(t)
    <2> HIDE DEF i
    <2>1. i = 0 \/ i # 0
      OBVIOUS
    <2> QED
      BY <1>2, <1>3
  <1> HIDE DEF i
  <1>5. j # 0 => j \in i + 1 .. Len(t) /\ t[j] = fence
    <2>1. SUFFICES ASSUME j # 0 PROVE j \in J
      <3> HIDE DEF j
      <3> QED
        OBVIOUS
    <2>2. J \subseteq 1 .. Len(t) /\ J # {}
      BY <1>2, <1>4, <2>1
    <2> HIDE DEF J
    <2> QED
      BY <1>2, <2>1, <2>2, FirstPosition
  <1> HIDE DEF j
  <1>6. inner \in Seq(Token) /\ Carries(inner, w, n)
    <2>1. CASE i # 0 /\ j # 0
      <3>1. i \in Nat /\ j - 1 \in Nat /\ i <= j - 1 /\ j - 1 <= Len(t) /\ i < j /\ j \in 1 .. Len(t)
        BY <1>2, <1>3, <1>5, <2>1
      <3>2. i <= o /\ o + n < j
        BY <1>3, <1>5, <2>1, <3>1, FencesAround
      <3>3. o + n <= j - 1 /\ o - i \in Nat
        BY <1>2, <3>1, <3>2
      <3>4. Holds(SubSeq(t, i + 1, j - 1), w, o - i, n)
        BY <3>1, <3>2, <3>3, WindowHolds
      <3>5. SubSeq(t, i + 1, j - 1) \in Seq(Token)
        BY <3>1, WindowFacts
      <3>6. Carries(SubSeq(t, i + 1, j - 1), w, n)
        BY <3>3, <3>4 DEF Carries
      <3> QED
        BY <2>1, <3>5, <3>6, UntagHolds
    <2>2. CASE ~(i # 0 /\ j # 0)
      <3>1. leading \in Seq(Token) /\ Carries(leading, w, n)
        <4>1. CASE i = 1
          <5>1. o # 0
            BY <1>2, <1>3, <4>1
          <5>2. Tail(t) = SubSeq(t, 1 + 1, Len(t))
            BY <1>2
          <5>3. 1 \in Nat /\ 1 <= o /\ Len(t) <= Len(t) /\ o - 1 \in Nat /\ 1 <= Len(t)
            BY <1>2, <5>1
          <5>4. Holds(SubSeq(t, 1 + 1, Len(t)), w, o - 1, n)
            BY <1>2, <5>3, WindowHolds
          <5>5. SubSeq(t, 1 + 1, Len(t)) \in Seq(Token)
            BY <1>2, <5>3, WindowFacts
          <5>6. Tail(t) \in Seq(Token) /\ Carries(Tail(t), w, n)
            BY <5>2, <5>3, <5>4, <5>5 DEF Carries
          <5> QED
            BY <4>1, <5>6, UntagHolds
        <4>2. CASE i # 1
          BY <4>2 DEF Carries
        <4> QED
          BY <4>1, <4>2
      <3> HIDE DEF leading
      <3>2. CASE leading # <<>> /\ Last(leading) = fence
        <4> DEFINE m == Len(leading)
        <4>1. PICK p \in Nat : Holds(leading, w, p, n)
          BY <3>1 DEF Carries
        <4>2. m \in Nat /\ m >= 1 /\ leading[m] = fence
          BY <3>1, <3>2 DEF Last
        <4>3. p + n <= m /\ leading[p + n] = w[n] /\ w[n] # fence
          BY <1>2, <4>1 DEF Holds, Placed
        <4>4. p + n # m
          BY <4>2, <4>3
        <4>5. Front(leading) = SubSeq(leading, 0 + 1, m - 1)
          BY DEF Front
        <4>6. /\ 0 \in Nat /\ 0 <= p /\ m - 1 \in Nat /\ p + n <= m - 1 /\ m - 1 <= m
              /\ p - 0 = p /\ 0 <= m - 1
          BY <1>2, <4>2, <4>3, <4>4
        <4>7. Holds(SubSeq(leading, 0 + 1, m - 1), w, p - 0, n)
          BY <3>1, <4>1, <4>6, WindowHolds DEF m
        <4>8. SubSeq(leading, 0 + 1, m - 1) \in Seq(Token)
          BY <3>1, <4>6, WindowFacts DEF m
        <4>9. Front(leading) \in Seq(Token) /\ Carries(Front(leading), w, n)
          BY <4>5, <4>6, <4>7, <4>8 DEF Carries
        <4> QED
          BY <2>2, <3>2, <4>9
      <3>3. CASE ~(leading # <<>> /\ Last(leading) = fence)
        BY <2>2, <3>1, <3>3
      <3> QED
        BY <3>2, <3>3
    <2> QED
      BY <2>1, <2>2
  <1> HIDE DEF inner
  <1>7. PICK p \in Nat : Holds(inner, w, p, n)
    BY <1>6 DEF Carries
  <1> QED
    BY <1>1, <1>6, <1>7, StripHolds

-------------------------------------------------------------------------------
(***************************************************************************)
(* A text without some of its tokens.                                      *)
(***************************************************************************)
Keeping == INSTANCE FoldTheorems WITH Op <- keep, Base <- <<>>

\* What the first n turns of the loop keep.
Kept(t, n, I) == without(SubSeq(t, 1, n), I)

Marked(t, I) == [i \in DOMAIN t |-> [ch |-> t[i], goes |-> i \in I]]

LEMMA KeptEnds ==
    ASSUME NEW t \in Seq(Token), NEW I
    PROVE  Kept(t, 0, I) = <<>> /\ Kept(t, Len(t), I) = without(t, I)
  <1>1. SubSeq(t, 1, 0) = <<>> /\ SubSeq(t, 1, Len(t)) = t
    OBVIOUS
  <1>2. Marked(<<>>, I) = <<>>
    <2>1. DOMAIN <<>> = {}
      OBVIOUS
    <2> QED
      BY <2>1 DEF Marked
  <1>3. without(<<>>, I) = FoldLeft(keep, <<>>, Marked(<<>>, I))
    BY DEF without, Marked
  <1>4. FoldLeft(keep, <<>>, <<>>) = <<>>
    BY Keeping!FoldNothing
    DEF FoldLeft, Keeping!FoldLeft, MapThenFoldSet, Keeping!MapThenFoldSet, Max, Keeping!Max
  <1> QED
    BY <1>1, <1>2, <1>3, <1>4 DEF Kept

LEMMA KeptNext ==
    ASSUME NEW t \in Seq(Token), NEW I, NEW n \in Nat, n + 1 <= Len(t)
    PROVE  Kept(t, n + 1, I) = IF n + 1 \in I THEN Kept(t, n, I)
                               ELSE Append(Kept(t, n, I), t[n + 1])
  <1> DEFINE s == SubSeq(t, 1, n)
             u == SubSeq(t, 1, n + 1)
             a == Marked(s, I)
             b == Marked(u, I)
  <1>1. n <= Len(t) /\ n + 1 \in Nat
    BY TextLength
  <1>2. DOMAIN s = 1 .. n /\ \A i \in 1 .. n : s[i] = t[i]
    BY <1>1, PrefixFacts
  <1>3. DOMAIN u = 1 .. n + 1 /\ \A i \in 1 .. n + 1 : u[i] = t[i]
    BY <1>1, PrefixFacts
  <1> HIDE DEF s, u
  <1>4. 1 .. n \subseteq 1 .. n + 1 /\ n + 1 \in 1 .. n + 1
    OBVIOUS
  <1>5. /\ DOMAIN a = 1 .. n /\ DOMAIN b = 1 .. n + 1
        /\ \A i \in 1 .. n : b[i] = a[i]
        /\ b[n + 1].ch = t[n + 1] /\ (b[n + 1].goes <=> n + 1 \in I)
    BY <1>2, <1>3, <1>4 DEF Marked
  <1>6. without(s, I) = FoldLeft(keep, <<>>, a) /\ without(u, I) = FoldLeft(keep, <<>>, b)
    BY DEF without, Marked
  <1> HIDE DEF a, b
  <1>7. Keeping!FoldLeft(keep, <<>>, b) = keep(Keeping!FoldLeft(keep, <<>>, a), b[n + 1])
    BY <1>5, Keeping!FoldOneMore
  <1>8. /\ FoldLeft(keep, <<>>, a) = Keeping!FoldLeft(keep, <<>>, a)
        /\ FoldLeft(keep, <<>>, b) = Keeping!FoldLeft(keep, <<>>, b)
    BY DEF FoldLeft, Keeping!FoldLeft, MapThenFoldSet, Keeping!MapThenFoldSet, Max, Keeping!Max
  <1>9. without(u, I) = keep(without(s, I), b[n + 1])
    BY <1>6, <1>7, <1>8
  <1> QED
    BY <1>5, <1>9 DEF keep, Kept, s, u

LEMMA KeptGoes ==
    ASSUME NEW t \in Seq(Token), NEW I, NEW n \in Nat, NEW m, m = n + 1, m <= Len(t), m \in I
    PROVE  Kept(t, m, I) = Kept(t, n, I)
  BY KeptNext

LEMMA KeptStays ==
    ASSUME NEW t \in Seq(Token), NEW I, NEW n \in Nat, NEW m, m = n + 1, m <= Len(t), m \notin I,
           NEW ch, t[m] = ch
    PROVE  Kept(t, m, I) = Append(Kept(t, n, I), ch)
  <1>1. Kept(t, n + 1, I) = IF n + 1 \in I THEN Kept(t, n, I)
                            ELSE Append(Kept(t, n, I), t[n + 1])
    BY KeptNext
  <1> QED
    BY <1>1

\* It depends on these n tokens and on which of them go.
LEMMA KeptSame ==
    ASSUME NEW s \in Seq(Token), NEW t \in Seq(Token), NEW n \in Nat,
           n <= Len(s), n <= Len(t), NEW I, NEW J,
           \A i \in 1 .. n : s[i] = t[i] /\ (i \in I <=> i \in J)
    PROVE  Kept(s, n, I) = Kept(t, n, J)
  <1> DEFINE K == {k \in Nat : k <= n => Kept(s, k, I) = Kept(t, k, J)}
  <1>1. 0 \in K
    BY KeptEnds
  <1>2. ASSUME NEW k \in K PROVE k + 1 \in K
    <2>1. k \in Nat /\ Len(t) \in Nat /\ Len(s) \in Nat
      BY TextLength
    <2>2. SUFFICES ASSUME k + 1 <= n PROVE Kept(s, k + 1, I) = Kept(t, k + 1, J)
      BY <2>1
    <2>3. Kept(s, k, I) = Kept(t, k, J) /\ k + 1 <= Len(s) /\ k + 1 <= Len(t) /\ k + 1 \in 1 .. n
      BY <2>1, <2>2
    <2>4. s[k + 1] = t[k + 1] /\ (k + 1 \in I <=> k + 1 \in J)
      BY <2>3
    <2>5. Kept(s, k + 1, I) = IF k + 1 \in I THEN Kept(s, k, I) ELSE Append(Kept(s, k, I), s[k + 1])
      BY <2>1, <2>3, KeptNext
    <2>6. Kept(t, k + 1, J) = IF k + 1 \in J THEN Kept(t, k, J) ELSE Append(Kept(t, k, J), t[k + 1])
      BY <2>1, <2>3, KeptNext
    <2> QED
      BY <2>3, <2>4, <2>5, <2>6
  <1> HIDE DEF K
  <1>3. K \in SUBSET Nat
    BY DEF K
  <1>4. K = Nat
    BY <1>1, <1>2, <1>3, Keeping!SetInduction
  <1> QED
    BY <1>4 DEF K

\* Tokens of t only; all of them, if none goes.
LEMMA KeptTyped ==
    ASSUME NEW S, S \subseteq Token, NEW t \in Seq(S), NEW I, NEW n \in Nat, n <= Len(t)
    PROVE  Kept(t, n, I) \in Seq(S)
  <1> DEFINE K == {k \in Nat : k <= n => Kept(t, k, I) \in Seq(S)}
  <1>1. t \in Seq(Token)
    BY SeqMonotonic
  <1>2. 0 \in K
    <2>1. <<>> \in Seq(S)
      OBVIOUS
    <2> QED
      BY <1>1, <2>1, KeptEnds
  <1>3. ASSUME NEW k \in K PROVE k + 1 \in K
    <2>1. k \in Nat /\ Len(t) \in Nat
      BY TextLength
    <2>2. SUFFICES ASSUME k + 1 <= n PROVE Kept(t, k + 1, I) \in Seq(S)
      BY <2>1
    <2>3. Kept(t, k, I) \in Seq(S) /\ k + 1 <= Len(t) /\ t[k + 1] \in S
      BY <2>1, <2>2
    <2>4. Append(Kept(t, k, I), t[k + 1]) \in Seq(S)
      BY <2>3
    <2>5. Kept(t, k + 1, I) = IF k + 1 \in I THEN Kept(t, k, I) ELSE Append(Kept(t, k, I), t[k + 1])
      BY <1>1, <2>1, <2>3, KeptNext
    <2> QED
      BY <2>3, <2>4, <2>5
  <1> HIDE DEF K
  <1>4. K \in SUBSET Nat
    BY DEF K
  <1>5. K = Nat
    BY <1>2, <1>3, <1>4, Keeping!SetInduction
  <1> QED
    BY <1>5 DEF K

LEMMA KeptAll ==
    ASSUME NEW t \in Seq(Token), NEW I, NEW n \in Nat, n <= Len(t),
           \A i \in 1 .. n : i \notin I
    PROVE  Kept(t, n, I) = SubSeq(t, 1, n)
  <1> DEFINE K == {k \in Nat : k <= n => Kept(t, k, I) = SubSeq(t, 1, k)}
  <1>1. 0 \in K
    <2>1. SubSeq(t, 1, 0) = <<>>
      OBVIOUS
    <2> QED
      BY <2>1, KeptEnds
  <1>2. ASSUME NEW k \in K PROVE k + 1 \in K
    <2>1. k \in Nat /\ Len(t) \in Nat
      BY TextLength
    <2>2. SUFFICES ASSUME k + 1 <= n PROVE Kept(t, k + 1, I) = SubSeq(t, 1, k + 1)
      BY <2>1
    <2>3. Kept(t, k, I) = SubSeq(t, 1, k) /\ k + 1 <= Len(t) /\ k + 1 \notin I
      BY <2>1, <2>2
    <2>4. Kept(t, k + 1, I) = Append(SubSeq(t, 1, k), t[k + 1])
      <3>1. Kept(t, k + 1, I) = IF k + 1 \in I THEN Kept(t, k, I)
                                ELSE Append(Kept(t, k, I), t[k + 1])
        BY <2>1, <2>3, KeptNext
      <3> QED
        BY <2>3, <3>1
    <2>5. Append(SubSeq(t, 1, k), t[k + 1]) = SubSeq(t, 1, k + 1)
      BY ONLY <2>1, <2>3, t \in Seq(Token)
    <2> QED
      BY <2>4, <2>5
  <1> HIDE DEF K
  <1>3. K \in SUBSET Nat
    BY DEF K
  <1>4. K = Nat
    BY <1>1, <1>2, <1>3, Keeping!SetInduction
  <1> QED
    BY <1>4 DEF K

LEMMA WithoutNothing ==
    ASSUME NEW t \in Seq(Token), NEW I, \A i \in 1 .. Len(t) : i \notin I
    PROVE  without(t, I) = t
  <1>1. Len(t) \in Nat /\ Len(t) <= Len(t) /\ SubSeq(t, 1, Len(t)) = t
    BY TextLength
  <1>2. Kept(t, Len(t), I) = SubSeq(t, 1, Len(t))
    BY <1>1, KeptAll
  <1> QED
    BY <1>1, <1>2, KeptEnds

-------------------------------------------------------------------------------
(***************************************************************************)
(* The commas that go, and what the parser makes of the rest.              *)
(***************************************************************************)
LEMMA TrailsFacts ==
    ASSUME NEW t \in Seq(Token), NEW i \in 1 .. Len(t)
    PROVE  trails(t, i) <=> /\ t[i] = comma
                            /\ \E j \in i + 1 .. Len(t) :
                                 t[j] \in Closers /\ \A k \in i + 1 .. j - 1 : t[k] = space
  <1> DEFINE S == {k \in i + 1 .. Len(t) : t[k] # space}
             first == IF S # {} THEN Min(S) ELSE 0
  <1>1. trails(t, i) <=> t[i] = comma /\ first # 0 /\ t[first] \in Closers
    BY DEF trails, SelectInSubSeq
  <1>2. Len(t) \in Nat /\ S \subseteq 1 .. Len(t) /\ i \in Nat /\ i >= 1
    BY TextLength
  <1>3. S # {} => first \in S /\ \A k \in S : first <= k
    <2> HIDE DEF S
    <2> QED
      BY <1>2, FirstPosition
  <1>4. ASSUME first # 0 PROVE first \in i + 1 .. Len(t)
                               /\ \A k \in i + 1 .. first - 1 : t[k] = space
    <2>1. first \in S /\ \A k \in S : first <= k
      BY <1>3, <1>4
    <2>2. first \in i + 1 .. Len(t)
      BY <2>1
    <2>3. ASSUME NEW k \in i + 1 .. first - 1 PROVE t[k] = space
      <3>1. k \in i + 1 .. Len(t) /\ ~(first <= k)
        <4> HIDE DEF first
        <4> QED
          BY <1>2, <2>2
      <3> QED
        BY <2>1, <3>1
    <2> QED
      BY <2>2, <2>3
  <1>5. ASSUME NEW j \in i + 1 .. Len(t), t[j] \in Closers,
               \A k \in i + 1 .. j - 1 : t[k] = space
        PROVE  first = j
    <2>1. j \in S
      BY <1>5, TokenKinds
    <2>2. first \in S /\ first <= j
      BY <1>3, <2>1
    <2>3. first \in i + 1 .. Len(t) /\ t[first] # space
      BY <2>2
    <2> HIDE DEF first, S
    <2>4. ~(first <= j - 1)
      BY <1>2, <1>5, <2>3
    <2> QED
      BY <1>2, <2>2, <2>3, <2>4
  <1>6. first # 0 => first \in i + 1 .. Len(t) /\ \A k \in i + 1 .. first - 1 : t[k] = space
    BY <1>4
  <1>7. \A j \in i + 1 .. Len(t) :
          t[j] \in Closers /\ (\A k \in i + 1 .. j - 1 : t[k] = space) => j = first /\ first # 0
    <2>1. \A j \in i + 1 .. Len(t) : j # 0
      BY <1>2
    <2> HIDE DEF first
    <2> QED
      BY <1>5, <2>1
  <1> HIDE DEF first, S
  <1> QED
    BY <1>1, <1>6, <1>7

LEMMA StripSame ==
    ASSUME NEW t \in Seq(Token), t # <<>>, t[1] # space, t[Len(t)] # space
    PROVE  strip(t) = t
  <1>1. Len(t) \in Nat /\ Len(t) >= 1
    OBVIOUS
  <1>2. ~\A i \in 1 .. Len(t) : t[i] = space
    BY <1>1
  <1>3. PICK l \in Nat, r \in Nat :
                /\ strip(t) = SubSeq(t, l + 1, r)
                /\ l + 1 <= r /\ r <= Len(t)
                /\ \A i \in 1 .. l : t[i] = space
                /\ \A i \in r + 1 .. Len(t) : t[i] = space
    BY <1>2, StripWindow
  <1>4. l = 0
    BY <1>3
  <1>5. r = Len(t)
    <2>1. r <= Len(t)
      BY <1>3
    <2>2. ~(r + 1 <= Len(t))
      BY <1>1, <1>3
    <2> QED
      BY <1>1, <2>1, <2>2
  <1>6. SubSeq(t, 0 + 1, Len(t)) = t
    OBVIOUS
  <1> QED
    BY <1>3, <1>4, <1>5, <1>6

LEMMA FirstInk ==
    ASSUME NEW t \in Seq(Token)
    PROVE  /\ first_ink(t) # 0 => first_ink(t) \in 1 .. Len(t)
           /\ t # <<>> /\ t[1] # space => first_ink(t) = 1
           /\ first_ink(t) # 0 => \A i \in 1 .. first_ink(t) - 1 : t[i] = space
  <1> DEFINE n == Len(t)
             I == {i \in 1 .. n : t[i] # space}
             first == IF I # {} THEN Min(I) ELSE 0
  <1>1. first_ink(t) = first
    BY DEF first_ink, SelectInSeq
  <1>2. n \in Nat /\ I \subseteq 1 .. n
    BY TextLength
  <1>3. I # {} => first \in I /\ \A k \in I : first <= k
    <2> HIDE DEF I
    <2> QED
      BY <1>2, FirstPosition
  <1>4. first # 0 => first \in 1 .. n
    BY <1>3
  <1>5. t # <<>> /\ t[1] # space => first = 1
    <2>1. SUFFICES ASSUME t # <<>>, t[1] # space PROVE first = 1
      OBVIOUS
    <2>2. 1 \in I
      BY <1>2, <2>1
    <2>3. first \in 1 .. n /\ first <= 1
      BY <1>3, <2>2
    <2> HIDE DEF first
    <2> QED
      BY <1>2, <2>3
  <1>6. ASSUME first # 0, NEW i \in 1 .. first - 1 PROVE t[i] = space
    <2>1. first \in 1 .. n /\ \A k \in I : first <= k
      BY <1>3, <1>6
    <2>2. i \in 1 .. n /\ ~(first <= i)
      <3> HIDE DEF first
      <3> QED
        BY <1>2, <2>1
    <2> QED
      BY <2>1, <2>2
  <1> HIDE DEF first
  <1> QED
    BY <1>1, <1>4, <1>5, <1>6

LEMMA Accepted ==
    ASSUME NEW t \in Seq(Token), t # <<>>, t[1] # space
    PROVE  model_validate_json(t) <=> t[1] = brace /\ Reading(t).next = "nothing"
  BY FirstInk DEF model_validate_json

\* A document without a trailing comma is left as it is.
LEMMA DocumentKept ==
    ASSUME NEW d \in Documents, Plain(d)
    PROVE  /\ strip(remove_trailing_commas(d)) = d
           /\ model_validate_json(d)
  <1>1. /\ d \in Seq(Token) /\ d # <<>> /\ d[1] # space /\ d[1] = brace /\ d[Len(d)] # space
        /\ Reading(d).next = "nothing"
    BY DocumentFacts, CloseBrace, UptoEnds
  <1> DEFINE I == {i \in DOMAIN d : trails(d, i)}
  <1>2. I = {}
    BY DEF Plain
  <1>3. remove_trailing_commas(d) = without(d, I)
    BY DEF remove_trailing_commas
  <1> HIDE DEF I
  <1>4. without(d, I) = d
    BY <1>1, <1>2, WithoutNothing
  <1>5. strip(d) = d
    BY <1>1, StripSame
  <1> QED
    BY <1>1, <1>3, <1>4, <1>5, Accepted

\* The only comma that goes from one that is written with a trailing comma is that one.
LEMMA TrailingComma ==
    ASSUME NEW d \in Documents, Plain(d), NEW w \in Written(d), w # d,
           NEW i \in 1 .. Len(w)
    PROVE  trails(w, i) <=> i = Len(d)
  <1> DEFINE m == Len(d)
  <1>1. /\ w \in Seq(Token) /\ Len(w) = m + 2 /\ m \in Nat /\ m >= 2
        /\ w[m] = comma /\ w[m + 1] = space /\ w[m + 2] = close
        /\ \A k \in 1 .. m - 1 : w[k] = d[k]
    BY DocumentFacts, WrittenFacts
  <1>2. d \in Seq(Token) /\ d[m] = close
    BY DocumentFacts
  <1> HIDE DEF m
  <1>3. ASSUME i = m PROVE trails(w, i)
    <2>1. m + 2 \in i + 1 .. Len(w) /\ w[m + 2] \in Closers
      BY <1>1, <1>3, CloseBrace
    <2>2. \A k \in i + 1 .. (m + 2) - 1 : w[k] = space
      <3>1. \A k \in i + 1 .. (m + 2) - 1 : k = m + 1
        BY <1>1, <1>3
      <3> QED
        BY <1>1, <3>1
    <2>3. \E j \in i + 1 .. Len(w) : w[j] \in Closers /\ \A k \in i + 1 .. j - 1 : w[k] = space
      BY <2>1, <2>2
    <2> QED
      BY <1>1, <1>3, <2>3, TrailsFacts
  <1>4. ASSUME trails(w, i), i # m PROVE FALSE
    <2>1. w[i] = comma
      BY <1>1, <1>4, TrailsFacts
    <2>2. PICK j \in i + 1 .. Len(w) :
            w[j] \in Closers /\ \A k \in i + 1 .. j - 1 : w[k] = space
      BY <1>1, <1>4, TrailsFacts
    <2>3. i < m
      BY <1>1, <1>4, <2>1, CloseBrace, TokenKinds
    <2>4. i \in 1 .. Len(d) /\ d[i] = comma
      BY <1>1, <2>1, <2>3 DEF m
    <2>5. PICK h \in i + 1 .. m :
            d[h] \in Closers /\ \A k \in i + 1 .. h - 1 : d[k] = space
      <3>1. CASE j < m
        <4>1. j \in i + 1 .. m /\ j \in 1 .. m - 1
          BY <1>1, <3>1
        <4>2. \A k \in i + 1 .. j - 1 : k \in 1 .. m - 1
          BY <1>1, <3>1
        <4> QED
          BY <1>1, <2>2, <4>1, <4>2
      <3>2. CASE j >= m
        <4>1. j # m
          BY <1>1, <2>2, TokenKinds
        <4>2. m \in i + 1 .. j - 1
          BY <1>1, <2>2, <2>3, <3>2, <4>1
        <4> QED
          BY <1>1, <2>2, <4>2, TokenKinds
      <3> QED
        BY <1>1, <3>1, <3>2
    <2>6. trails(d, i)
      BY <1>2, <2>4, <2>5, TrailsFacts DEF m
    <2> QED
      BY <2>4, <2>6 DEF Plain
  <1> QED
    BY <1>3, <1>4 DEF m

\* Without it, it is the document again up to white space, and is accepted.
LEMMA CommaGoes ==
    ASSUME NEW d \in Documents, Plain(d), NEW w \in Written(d), w # d
    PROVE  LET u == strip(remove_trailing_commas(w))
           IN  model_validate_json(u) /\ ink(u) = ink(d)
  <1> DEFINE m == Len(d) - 1
             I == {i \in DOMAIN w : trails(w, i)}
             u == without(w, I)
             e == Append(Append(SubSeq(d, 1, m), space), close)
  <1>1. /\ w \in Seq(Token) /\ Len(w) = m + 3 /\ m \in Nat /\ m >= 1
        /\ w[m + 1] = comma /\ w[m + 2] = space /\ w[m + 3] = close
        /\ \A k \in 1 .. m : w[k] = d[k]
        /\ Len(d) = m + 1 /\ m <= Len(d) /\ m < Len(d)
    BY DocumentFacts, WrittenFacts
  <1>2. d \in Seq(Token) /\ d[1] = brace /\ d[m + 1] = close /\ Upto(d, m + 1).next = "nothing"
    BY <1>1, DocumentFacts
  <1> HIDE DEF m
  <1>3. ASSUME NEW i \in 1 .. m + 3 PROVE i \in I <=> i = m + 1
    <2>1. i \in 1 .. Len(w) /\ i \in DOMAIN w
      BY <1>1
    <2>2. trails(w, i) <=> i = Len(d)
      BY <2>1, TrailingComma
    <2> QED
      BY <1>1, <2>1, <2>2
  <1>4. remove_trailing_commas(w) = u
    BY DEF remove_trailing_commas
  <1> HIDE DEF I
  <1>5. u = e
    <2>1. /\ m <= Len(w) /\ m + 1 <= Len(w) /\ (m + 1) + 1 <= Len(w) /\ (m + 2) + 1 <= Len(w)
          /\ (m + 1) + 1 = m + 2 /\ (m + 2) + 1 = m + 3
          /\ m + 1 \in Nat /\ m + 2 \in Nat
      BY <1>1
    <2>2. m + 1 \in I /\ m + 2 \notin I /\ m + 3 \notin I /\ \A i \in 1 .. m : i \notin I
      BY <1>1, <1>3
    <2>3. Kept(w, m, I) = SubSeq(w, 1, m)
      BY <1>1, <2>1, <2>2, KeptAll
    <2>4. SubSeq(w, 1, m) = SubSeq(d, 1, m)
      <3>1. SubSeq(w, 1, m) \in Seq(Token) /\ Len(SubSeq(w, 1, m)) = m
            /\ \A k \in 1 .. m : SubSeq(w, 1, m)[k] = w[k]
        BY <1>1, <2>1, PrefixFacts
      <3>2. SubSeq(d, 1, m) \in Seq(Token) /\ Len(SubSeq(d, 1, m)) = m
            /\ \A k \in 1 .. m : SubSeq(d, 1, m)[k] = d[k]
        BY <1>1, <1>2, PrefixFacts
      <3> QED
        BY <1>1, <3>1, <3>2, SameText
    <2>5. Kept(w, m + 1, I) = Kept(w, m, I)
      BY <1>1, <2>1, <2>2, KeptGoes
    <2>6. Kept(w, m + 2, I) = Append(Kept(w, m + 1, I), space)
      BY <1>1, <2>1, <2>2, KeptStays
    <2>7. Kept(w, m + 3, I) = Append(Kept(w, m + 2, I), close)
      BY <1>1, <2>1, <2>2, KeptStays
    <2>8. u = Kept(w, m + 3, I)
      BY <1>1, KeptEnds
    <2> QED
      BY <2>3, <2>4, <2>5, <2>6, <2>7, <2>8
  <1>6. /\ e \in Seq(Token) /\ Len(e) = m + 2 /\ e[m + 1] = space /\ e[m + 2] = close
        /\ \A k \in 1 .. m : e[k] = d[k]
    <2> DEFINE f == SubSeq(d, 1, m)
               g == Append(f, space)
    <2>1. f \in Seq(Token) /\ Len(f) = m /\ \A k \in 1 .. m : f[k] = d[k]
      BY <1>1, <1>2, PrefixFacts
    <2> HIDE DEF f
    <2>2. /\ g \in Seq(Token) /\ Len(g) = m + 1 /\ g[m + 1] = space
          /\ \A k \in 1 .. m : g[k] = f[k]
      BY <2>1, CloseBrace, AppendFacts
    <2> HIDE DEF g
    <2>3. /\ Append(g, close) \in Seq(Token) /\ Len(Append(g, close)) = (m + 1) + 1
          /\ Append(g, close)[(m + 1) + 1] = close
          /\ \A k \in 1 .. m + 1 : Append(g, close)[k] = g[k]
      BY <2>2, CloseBrace, AppendFacts
    <2>4. (m + 1) + 1 = m + 2 /\ m + 1 \in 1 .. m + 1 /\ \A k \in 1 .. m : k \in 1 .. m + 1
      BY <1>1
    <2>5. e = Append(g, close)
      BY DEF f, g
    <2> HIDE DEF e
    <2> QED
      BY <2>1, <2>2, <2>3, <2>4, <2>5
  <1> HIDE DEF u, e
  <1>7. /\ m <= Len(e) /\ m + 1 <= Len(e) /\ (m + 1) + 1 <= Len(e) /\ (m + 1) + 1 = m + 2
        /\ m + 1 \in Nat /\ e # <<>> /\ e[1] = brace
    <2>1. 1 \in 1 .. m
      BY <1>1
    <2> QED
      BY <1>1, <1>2, <1>6, <2>1
  <1>8. Reading(e).next = "nothing"
    <2> DEFINE r == Upto(d, m)
    <2>1. Upto(e, m) = r
      BY <1>1, <1>2, <1>6, <1>7, UptoSame
    <2>2. r \in Parser /\ r.next \in {"first", "more"}
      BY DocumentLast DEF m
    <2>3. Upto(d, m + 1) = Read(r, close)
      BY <1>1, <1>2, UptoNext
    <2>4. Upto(e, m + 1) = Read(r, space)
      BY <1>1, <1>6, <1>7, <2>1, UptoNext
    <2> HIDE DEF r
    <2>5. Read(r, space) = r
      BY <2>2, SpaceSkipped
    <2>6. Upto(e, m + 2) = Read(r, close)
      BY <1>1, <1>6, <1>7, <2>4, <2>5, UptoNext
    <2>7. Upto(e, m + 2) = Reading(e)
      BY <1>6, UptoEnds
    <2> QED
      BY <1>2, <2>3, <2>6, <2>7
  <1>9. strip(e) = e
    BY <1>6, <1>7, CloseBrace, StripSame
  <1>10. model_validate_json(e)
    BY <1>6, <1>7, <1>8, CloseBrace, Accepted
  <1>11. ink(e) = ink(d)
    <2> DEFINE E == {i \in DOMAIN e : e[i] = space}
               D == {i \in DOMAIN d : d[i] = space}
    <2>1. ink(e) = Kept(e, m + 2, E) /\ ink(d) = Kept(d, m + 1, D)
      BY <1>1, <1>2, <1>6, KeptEnds DEF ink
    <2>2. \A i \in 1 .. m : e[i] = d[i] /\ (i \in E <=> i \in D)
      BY <1>1, <1>2, <1>6, <1>7
    <2>3. m + 1 \in E /\ m + 2 \notin E /\ m + 1 \notin D
      BY <1>1, <1>2, <1>6, <1>7, CloseBrace
    <2> HIDE DEF E, D
    <2>4. Kept(e, m, E) = Kept(d, m, D)
      BY <1>1, <1>2, <1>6, <1>7, <2>2, KeptSame
    <2>5. Kept(e, m + 1, E) = Kept(e, m, E)
      BY <1>1, <1>6, <1>7, <2>3, KeptGoes
    <2>6. Kept(e, m + 2, E) = Append(Kept(e, m + 1, E), close)
      BY <1>1, <1>6, <1>7, <2>3, KeptStays
    <2>7. Kept(d, m + 1, D) = Append(Kept(d, m, D), close)
      BY <1>1, <1>2, <2>3, KeptStays
    <2> QED
      BY <2>1, <2>4, <2>5, <2>6, <2>7
  <1> QED
    BY <1>4, <1>5, <1>9, <1>10, <1>11

\* The first token that stays and is not white space is the first ink of what is left.
LEMMA FirstKept ==
    ASSUME NEW t \in Seq(Token), NEW I, NEW p \in 1 .. Len(t), t[p] # space, p \notin I,
           \A i \in 1 .. p - 1 : t[i] = space \/ i \in I
    PROVE  LET u == without(t, I)
           IN  \E q \in 1 .. Len(u) : u[q] = t[p] /\ \A i \in 1 .. q - 1 : u[i] = space
  <1> DEFINE Blank(s) == \A i \in 1 .. Len(s) : s[i] = space
             Inked(s) == \E q \in 1 .. Len(s) : s[q] = t[p] /\ \A i \in 1 .. q - 1 : s[i] = space
             K == {k \in Nat : k <= Len(t) =>
                     IF k < p THEN Blank(Kept(t, k, I)) ELSE Inked(Kept(t, k, I))}
  <1>1. Len(t) \in Nat /\ p \in Nat /\ p >= 1 /\ p <= Len(t)
    BY TextLength
  <1>2. ASSUME NEW s \in Seq(Token), NEW ch \in Token
        PROVE  /\ Blank(s) /\ ch = space => Blank(Append(s, ch))
               /\ Blank(s) /\ ch = t[p] => Inked(Append(s, ch))
               /\ Inked(s) => Inked(Append(s, ch))
    <2> DEFINE u == Append(s, ch)
               n == Len(s)
    <2>1. /\ n \in Nat /\ Len(u) = n + 1 /\ u[n + 1] = ch
          /\ \A i \in 1 .. n : u[i] = s[i]
      BY AppendFacts, TextLength
    <2> HIDE DEF u
    <2>2. \A i \in 1 .. n + 1 : i \in 1 .. n \/ i = n + 1
      BY <2>1
    <2>3. (n + 1) - 1 = n /\ n + 1 \in 1 .. n + 1
      BY <2>1
    <2>4. Blank(s) /\ ch = space => Blank(u)
      BY <2>1, <2>2
    <2>5. Blank(s) /\ ch = t[p] => Inked(u)
      BY <2>1, <2>3
    <2>6. ASSUME Inked(s) PROVE Inked(u)
      <3>1. PICK q \in 1 .. n : s[q] = t[p] /\ \A i \in 1 .. q - 1 : s[i] = space
        BY <2>6
      <3>2. q \in 1 .. n + 1 /\ \A i \in 1 .. q - 1 : i \in 1 .. n
        BY <2>1
      <3>3. u[q] = t[p] /\ \A i \in 1 .. q - 1 : u[i] = space
        BY <2>1, <3>1, <3>2
      <3> QED
        BY <2>1, <3>2, <3>3
    <2> QED
      BY <2>4, <2>5, <2>6 DEF u
  <1> HIDE DEF Blank, Inked
  <1>3. 0 \in K
    <2>1. Kept(t, 0, I) = <<>>
      BY KeptEnds
    <2>2. Blank(<<>>)
      BY DEF Blank
    <2> QED
      BY <1>1, <2>1, <2>2
  <1>4. ASSUME NEW k \in K PROVE k + 1 \in K
    <2>1. k \in Nat
      OBVIOUS
    <2>2. SUFFICES ASSUME k + 1 <= Len(t)
                   PROVE IF k + 1 < p THEN Blank(Kept(t, k + 1, I)) ELSE Inked(Kept(t, k + 1, I))
      BY <2>1
    <2> DEFINE s == Kept(t, k, I)
               u == Kept(t, k + 1, I)
    <2>3. k <= Len(t) /\ k + 1 \in 1 .. Len(t) /\ k + 1 = k + 1
      BY <1>1, <2>1, <2>2
    <2>4. IF k < p THEN Blank(s) ELSE Inked(s)
      BY <2>3
    <2>5. s \in Seq(Token) /\ t[k + 1] \in Token
      BY <2>1, <2>3, KeptTyped
    <2>6. /\ k + 1 \in I => u = s
          /\ k + 1 \notin I => u = Append(s, t[k + 1])
      BY <2>1, <2>3, KeptGoes, KeptStays
    <2> HIDE DEF s, u
    <2>7. CASE k + 1 < p
      <3>1. k + 1 \in 1 .. p - 1 /\ k < p
        BY <1>1, <2>1, <2>7
      <3>2. t[k + 1] = space \/ k + 1 \in I
        BY <3>1
      <3> QED
        BY <1>2, <2>4, <2>5, <2>6, <2>7, <3>1, <3>2 DEF u
    <2>8. CASE k + 1 = p
      <3>1. k < p /\ ~(k + 1 < p)
        BY <1>1, <2>1, <2>8
      <3> QED
        BY <1>2, <2>4, <2>5, <2>6, <2>8, <3>1 DEF u
    <2>9. CASE k + 1 > p
      <3>1. ~(k < p) /\ ~(k + 1 < p)
        BY <1>1, <2>1, <2>9
      <3> QED
        BY <1>2, <2>4, <2>5, <2>6, <3>1 DEF u
    <2> QED
      BY <1>1, <2>1, <2>7, <2>8, <2>9
  <1> HIDE DEF K
  <1>5. K \in SUBSET Nat
    BY DEF K
  <1>6. K = Nat
    BY <1>3, <1>4, <1>5, Keeping!SetInduction
  <1>7. Inked(Kept(t, Len(t), I))
    BY <1>1, <1>6 DEF K
  <1>8. Inked(without(t, I))
    BY <1>7, KeptEnds
  <1> QED
    BY <1>8 DEF Inked

\* A text whose first ink is not a brace is no object.
LEMMA NoObject ==
    ASSUME NEW u \in Seq(Token), NEW q \in 1 .. Len(u), u[q] # space, u[q] # brace,
           \A i \in 1 .. q - 1 : u[i] = space
    PROVE  ~model_validate_json(strip(u))
  <1>1. PICK l \in Nat, r \in Nat :
          /\ strip(u) = SubSeq(u, l + 1, r) /\ l + 1 <= r /\ r <= Len(u)
          /\ u[l + 1] # space /\ \A i \in 1 .. l : u[i] = space
    <2>1. ~\A i \in 1 .. Len(u) : u[i] = space
      OBVIOUS
    <2> QED
      BY <2>1, StripWindow
  <1>2. q = l + 1
    <2>1. ~(q <= l)
      BY <1>1
    <2>2. ~(l + 1 <= q - 1)
      BY <1>1
    <2> QED
      BY <1>1, <2>1, <2>2
  <1>3. /\ strip(u) \in Seq(Token) /\ Len(strip(u)) = r - l
        /\ \A i \in 1 .. r - l : strip(u)[i] = u[l + i]
    <2>1. l <= r
      BY <1>1
    <2> QED
      BY <1>1, <2>1, WindowFacts
  <1>4. 1 \in 1 .. r - l
    BY <1>1
  <1>5. strip(u)[1] = u[q] /\ strip(u) # <<>>
    BY <1>1, <1>2, <1>3, <1>4
  <1> QED
    BY <1>3, <1>5, Accepted

\* Nothing of a document that breaks off trails.
LEMMA BeginningKept ==
    ASSUME NEW d \in Documents, Plain(d), NEW w \in Written(d), NEW n \in Nat, n < Len(w),
           NEW i \in 1 .. n
    PROVE  ~trails(SubSeq(w, 1, n), i)
  <1> DEFINE t == SubSeq(w, 1, n)
  <1> SUFFICES ASSUME trails(t, i) PROVE FALSE
    OBVIOUS
  <1>1. /\ w \in Seq(Token) /\ Len(w) \in Nat /\ Len(d) \in Nat /\ d \in Seq(Token) /\ n <= Len(w)
        /\ \A k \in 1 .. Len(d) - 1 : w[k] = d[k]
        /\ \A k \in Len(d) .. Len(w) - 1 : w[k] \in {comma, space}
    BY DocumentFacts, WrittenFacts
  <1>2. t \in Seq(Token) /\ Len(t) = n /\ \A k \in 1 .. n : t[k] = w[k]
    BY <1>1, PrefixFacts
  <1> HIDE DEF t
  <1>3. t[i] = comma
    BY <1>2, TrailsFacts
  <1>4. PICK j \in i + 1 .. n : t[j] \in Closers /\ \A k \in i + 1 .. j - 1 : t[k] = space
    BY <1>2, TrailsFacts
  <1>5. j \in 1 .. n /\ i < j /\ t[j] = w[j]
    BY <1>2
  <1>6. ~(j \in Len(d) .. Len(w) - 1)
    BY <1>1, <1>4, <1>5, TokenKinds
  <1>7. j <= Len(d) - 1
    BY <1>1, <1>5, <1>6
  <1>8. i \in 1 .. Len(d) /\ i \in 1 .. Len(d) - 1 /\ j \in 1 .. Len(d) - 1
        /\ j \in i + 1 .. Len(d)
    BY <1>1, <1>5, <1>7
  <1>9. d[i] = comma /\ d[j] \in Closers
    BY <1>1, <1>2, <1>3, <1>4, <1>5, <1>8
  <1>10. ASSUME NEW k \in i + 1 .. j - 1 PROVE d[k] = space
    <2>1. k \in 1 .. n /\ k \in 1 .. Len(d) - 1
      BY <1>5, <1>7
    <2> QED
      BY <1>1, <1>2, <1>4, <2>1
  <1>11. trails(d, i)
    BY <1>1, <1>8, <1>9, <1>10, TrailsFacts
  <1> QED
    BY <1>8, <1>11 DEF Plain

\* What is left of a reply that breaks off is no object.
LEMMA CutRejected ==
    ASSUME NEW d \in Documents, Plain(d), NEW w \in Written(d), NEW t \in Seq(Token),
           t = <<>> \/ t[1] # space,
           NEW o \in Nat, NEW n \in Nat, n < Len(w), o + n = Len(t), Placed(t, w, o, n)
    PROVE  ~model_validate_json(strip(remove_trailing_commas(t)))
  <1> DEFINE I == {i \in DOMAIN t : trails(t, i)}
             u == without(t, I)
  <1>1. remove_trailing_commas(t) = u
    BY DEF remove_trailing_commas
  <1>2. /\ w \in Seq(Token) /\ Len(w) \in Nat /\ w[1] = brace /\ Len(t) \in Nat
    BY WrittenFacts, TextLength
  <1>3. u \in Seq(Token)
    <2>1. Kept(t, Len(t), I) \in Seq(Token)
      BY <1>2, KeptTyped
    <2> QED
      BY <2>1, KeptEnds
  <1>4. /\ \A i \in 1 .. n : t[o + i] = w[i]
        /\ \A i \in 1 .. o : t[i] \notin Openers
    BY DEF Placed
  <1>5. CASE n = 0 /\ o = 0
    <2>1. t = <<>>
      BY <1>2, <1>5
    <2>2. u = <<>>
      BY <2>1, KeptEnds
    <2>3. strip(u) = <<>>
      <3>1. ~\E l, r \in Nat : l + 1 <= r /\ r <= Len(<<>>)
        OBVIOUS
      <3> QED
        BY <1>3, <2>2, <3>1, StripWindow
    <2>4. first_ink(<<>>) = 0
      <3>1. <<>> \in Seq(Token) /\ 1 .. Len(<<>>) = {}
        OBVIOUS
      <3> QED
        BY <3>1, FirstInk
    <2> QED
      BY <1>1, <2>3, <2>4 DEF model_validate_json
  <1>6. CASE n # 0 /\ o = 0
    <2>1. t = SubSeq(w, 1, n)
      <3>1. n <= Len(w)
        BY <1>2
      <3>2. SubSeq(w, 1, n) \in Seq(Token) /\ Len(SubSeq(w, 1, n)) = n
            /\ \A i \in 1 .. n : SubSeq(w, 1, n)[i] = w[i]
        BY <1>2, <3>1, PrefixFacts
      <3>3. Len(t) = n /\ \A i \in 1 .. n : t[i] = w[i]
        <4>1. \A i \in 1 .. n : o + i = i
          BY <1>6
        <4> QED
          BY <1>2, <1>4, <1>6, <4>1
      <3> QED
        BY <3>2, <3>3, SameText
    <2>2. \A i \in 1 .. Len(t) : i \notin I
      <3>1. Len(t) = n
        BY <1>6
      <3> QED
        BY <2>1, <3>1, BeginningKept
    <2>3. u = t
      <3> HIDE DEF I
      <3> QED
        BY <2>2, WithoutNothing
    <2>4. t[1] = brace /\ t # <<>> /\ Len(t) >= 1
      <3>1. 1 \in 1 .. n /\ o + 1 = 1
        BY <1>6
      <3> QED
        BY <1>2, <1>4, <1>6, <3>1
    <2>5. PICK l \in Nat, r \in Nat :
            /\ strip(t) = SubSeq(t, l + 1, r) /\ l + 1 <= r /\ r <= Len(t)
            /\ \A i \in 1 .. l : t[i] = space
      <3>1. ~\A i \in 1 .. Len(t) : t[i] = space
        BY <1>2, <2>4, CloseBrace
      <3> QED
        BY <3>1, StripWindow
    <2>6. l = 0
      BY <2>4, <2>5, CloseBrace
    <2>7. Reading(strip(t)) = Upto(t, r)
      BY <2>5, <2>6 DEF Upto
    <2>8. r <= Len(w) /\ r <= n /\ \A i \in 1 .. r : t[i] = w[i]
      <3>1. \A i \in 1 .. r : i \in 1 .. n /\ o + i = i
        BY <1>6, <2>5
      <3> QED
        BY <1>2, <1>4, <1>6, <2>5, <3>1
    <2>9. Upto(t, r) = Upto(w, r)
      BY <1>2, <2>5, <2>8, UptoSame
    <2>10. Upto(w, r).next # "nothing"
      BY <1>2, <2>8, WrittenOpen
    <2> QED
      BY <1>1, <2>3, <2>7, <2>9, <2>10 DEF model_validate_json
  <1>7. CASE o # 0
    <2>1. 1 \in 1 .. Len(t) /\ t[1] # space /\ t[1] \notin Openers /\ t # <<>>
      BY <1>2, <1>4, <1>7
    <2>2. \E p \in 1 .. Len(t) : /\ t[p] # space /\ t[p] # brace /\ p \notin I
                                 /\ \A i \in 1 .. p - 1 : t[i] = space \/ i \in I
      <3>1. CASE ~trails(t, 1)
        <4>1. 1 \notin I /\ t[1] # brace
          BY <2>1, <3>1, TokenKinds
        <4> HIDE DEF I
        <4> QED
          BY <2>1, <4>1
      <3>2. CASE trails(t, 1)
        <4>1. PICK p \in 1 + 1 .. Len(t) :
                t[p] \in Closers /\ \A k \in 1 + 1 .. p - 1 : t[k] = space
          BY <2>1, <3>2, TrailsFacts
        <4>2. p \in 1 .. Len(t) /\ 1 \in I
          BY <1>2, <2>1, <3>2
        <4>3. p \notin I
          <5>1. t[p] # comma
            BY <4>1, TokenKinds
          <5> QED
            BY <4>2, <5>1, TrailsFacts
        <4>4. t[p] # space /\ t[p] # brace
          BY <4>1, TokenKinds
        <4>5. \A i \in 1 .. p - 1 : i = 1 \/ i \in 1 + 1 .. p - 1
          BY <4>1
        <4> HIDE DEF I
        <4> QED
          BY <4>1, <4>2, <4>3, <4>4, <4>5
      <3> QED
        BY <3>1, <3>2
    <2> HIDE DEF I
    <2>3. PICK p \in 1 .. Len(t) : /\ t[p] # space /\ t[p] # brace /\ p \notin I
                                   /\ \A i \in 1 .. p - 1 : t[i] = space \/ i \in I
      BY <2>2
    <2>4. PICK q \in 1 .. Len(u) : u[q] = t[p] /\ \A i \in 1 .. q - 1 : u[i] = space
      BY <2>3, FirstKept
    <2> HIDE DEF u
    <2> QED
      BY <1>1, <1>3, <2>3, <2>4, NoObject
  <1> QED
    BY <1>5, <1>6, <1>7

-------------------------------------------------------------------------------
(***************************************************************************)
(* A reply, and how much of the document is in it.                         *)
(***************************************************************************)
Whole(w, b, a) == raw = b \o w \o a /\ cut = FALSE
Part(w, b, n) == raw = b \o SubSeq(w, 1, n) /\ cut = TRUE

Reply == /\ meant \in Documents
         /\ \E w \in Written(meant), b \in Before :
              \/ \E a \in After : Whole(w, b, a)
              \/ \E n \in 0 .. Len(w) - 1 : Part(w, b, n)

\* All of it, or what the reply breaks off with.
Ends(t, w, o, n) == IF cut THEN n < Len(w) /\ o + n = Len(t) ELSE n = Len(w)

LEMMA ReplyPlaced ==
    ASSUME Reply
    PROVE  \E w \in Written(meant), o \in Nat, n \in Nat :
             /\ n <= Len(w) /\ Placed(raw, w, o, n) /\ Ends(raw, w, o, n)
             /\ OneFence(raw, 1, o)
             /\ ~cut => FencesApart(raw, o, n)
  <1>1. meant \in Documents /\ Before \subseteq Seq(Token \ Openers) /\ After \subseteq Seq(Token)
    BY RepairAssumption DEF Reply
  <1>2. PICK w \in Written(meant), b \in Before :
          \/ \E a \in After : Whole(w, b, a)
          \/ \E n \in 0 .. Len(w) - 1 : Part(w, b, n)
    BY DEF Reply
  <1> DEFINE o == Len(b)
  <1>3. /\ w \in Seq(Token) /\ Len(w) \in Nat /\ b \in Seq(Token) /\ o \in Nat
        /\ \A i \in 1 .. o : b[i] \notin Openers
    <2>1. Seq(Token \ Openers) \subseteq Seq(Token) /\ b \in Seq(Token \ Openers)
      BY <1>1, SeqMonotonic
    <2>2. b \in Seq(Token)
      BY <2>1
    <2>3. \A i \in 1 .. o : b[i] \in Token \ Openers
      BY <2>1
    <2> QED
      BY <1>1, <2>2, <2>3, TextLength, WrittenFacts
  <1>4. /\ \A i, j \in 1 .. o : b[i] = fence /\ b[j] = fence => i = j
        /\ (\A i \in 1 .. o : b[i] # fence) =>
             \A a \in After : \A i, j \in 1 .. Len(a) : a[i] = fence /\ a[j] = fence => i = j
    <2>1. \A t \in Seq(Token) : Fences(t) = {i \in 1 .. Len(t) : t[i] = fence}
      BY DEF Fences
    <2>2. /\ \A i, j \in Fences(b) : i = j
          /\ Fences(b) = {} => \A a \in After : \A i, j \in Fences(a) : i = j
      BY FencesAssumption
    <2>3. Fences(b) = {i \in 1 .. o : b[i] = fence}
      BY <1>3, <2>1
    <2>4. ASSUME \A i \in 1 .. o : b[i] # fence, NEW a \in After
          PROVE  \A i, j \in 1 .. Len(a) : a[i] = fence /\ a[j] = fence => i = j
      <3>1. Fences(b) = {}
        BY <2>3, <2>4
      <3>2. a \in Seq(Token)
        BY <1>1
      <3>3. Fences(a) = {i \in 1 .. Len(a) : a[i] = fence}
        BY <2>1, <3>2
      <3> QED
        BY <2>2, <3>1, <3>3
    <2> QED
      BY <2>2, <2>3, <2>4
  <1> HIDE DEF o
  <1>5. ASSUME NEW x \in Seq(Token), NEW n \in Nat, n <= Len(w), Len(x) >= n,
               \A i \in 1 .. n : x[i] = w[i], raw = b \o x
        PROVE  /\ Placed(raw, w, o, n) /\ OneFence(raw, 1, o)
               /\ Len(raw) = o + Len(x) /\ \A i \in 1 .. Len(x) : raw[o + i] = x[i]
               /\ \A i \in 1 .. o : raw[i] = b[i]
    <2>1. /\ raw \in Seq(Token) /\ Len(raw) = o + Len(x)
          /\ \A i \in 1 .. o : raw[i] = b[i]
          /\ \A i \in 1 .. Len(x) : raw[o + i] = x[i]
      BY <1>3, <1>5, ConcatFacts DEF o
    <2>2. \A i \in 1 .. n : i \in 1 .. Len(x)
      BY <1>5
    <2>3. o + n <= Len(raw)
      BY <1>3, <1>5, <2>1
    <2> QED
      BY <1>3, <1>4, <1>5, <2>1, <2>2, <2>3 DEF Placed, OneFence
  <1>6. ASSUME NEW a \in After, Whole(w, b, a)
        PROVE  /\ Placed(raw, w, o, Len(w)) /\ Ends(raw, w, o, Len(w))
               /\ OneFence(raw, 1, o) /\ FencesApart(raw, o, Len(w))
    <2> DEFINE x == w \o a
               n == Len(w)
               m == Len(a)
    <2>1. a \in Seq(Token) /\ m \in Nat
      BY <1>1, TextLength
    <2>2. /\ x \in Seq(Token) /\ Len(x) = n + m
          /\ \A i \in 1 .. n : x[i] = w[i]
          /\ \A i \in 1 .. m : x[n + i] = a[i]
      BY <1>3, <2>1, ConcatFacts
    <2>3. raw = b \o x
      BY <1>3, <1>6, <2>1, ConcatAssociative DEF Whole
    <2>4. n \in Nat /\ n <= n /\ Len(x) >= n
      BY <1>3, <2>1, <2>2
    <2> HIDE DEF x, n, m
    <2>5. /\ Placed(raw, w, o, n) /\ OneFence(raw, 1, o)
          /\ Len(raw) = o + Len(x) /\ \A i \in 1 .. Len(x) : raw[o + i] = x[i]
          /\ \A i \in 1 .. o : raw[i] = b[i]
      BY <1>5, <2>2, <2>3, <2>4 DEF n
    <2>6. CASE \E i \in 1 .. o : b[i] = fence
      BY <1>6, <2>5, <2>6 DEF FencesApart, Ends, Whole, n
    <2>7. CASE \A i \in 1 .. o : b[i] # fence
      <3>1. \A i, j \in 1 .. m : a[i] = fence /\ a[j] = fence => i = j
        BY <1>4, <2>7 DEF m
      <3>2. ASSUME NEW i \in o + n + 1 .. Len(raw)
            PROVE  i - (o + n) \in 1 .. m /\ raw[i] = a[i - (o + n)]
        <4> DEFINE k == i - (o + n)
        <4>1. k \in 1 .. m /\ n + k \in 1 .. Len(x) /\ o + (n + k) = i
          BY <1>3, <2>1, <2>2, <2>4, <2>5
        <4> HIDE DEF k
        <4>2. raw[i] = a[k]
          BY <2>2, <2>5, <4>1
        <4> QED
          BY <4>1, <4>2 DEF k
      <3>3. OneFence(raw, o + n + 1, Len(raw))
        <4> SUFFICES ASSUME NEW i \in o + n + 1 .. Len(raw), NEW j \in o + n + 1 .. Len(raw),
                            raw[i] = fence, raw[j] = fence
                     PROVE  i = j
          BY DEF OneFence
        <4>1. i - (o + n) = j - (o + n)
          BY <3>1, <3>2
        <4> QED
          BY <1>3, <2>4, <4>1
      <3> QED
        BY <1>6, <2>5, <3>3 DEF FencesApart, Ends, Whole, n
    <2> QED
      BY <2>6, <2>7
  <1>7. ASSUME NEW n \in 0 .. Len(w) - 1, Part(w, b, n)
        PROVE  n \in Nat /\ n <= Len(w) /\ Placed(raw, w, o, n) /\ Ends(raw, w, o, n)
               /\ OneFence(raw, 1, o)
    <2> DEFINE x == SubSeq(w, 1, n)
    <2>1. n \in Nat /\ n <= Len(w) /\ n < Len(w)
      BY <1>3
    <2>2. x \in Seq(Token) /\ Len(x) = n /\ \A i \in 1 .. n : x[i] = w[i]
      BY <1>3, <2>1, PrefixFacts
    <2>3. raw = b \o x /\ cut
      BY <1>7 DEF Part
    <2> HIDE DEF x
    <2>4. Placed(raw, w, o, n) /\ OneFence(raw, 1, o) /\ Len(raw) = o + n
      BY <1>5, <2>1, <2>2, <2>3
    <2> QED
      BY <2>1, <2>3, <2>4 DEF Ends
  <1>8. CASE \E a \in After : Whole(w, b, a)
    BY <1>3, <1>6, <1>8
  <1>9. CASE \E n \in 0 .. Len(w) - 1 : Part(w, b, n)
    <2>1. PICK n \in 0 .. Len(w) - 1 : Part(w, b, n)
      BY <1>9
    <2>2. cut
      BY <2>1 DEF Part
    <2> QED
      BY <1>3, <1>7, <2>1, <2>2
  <1> QED
    BY <1>2, <1>8, <1>9

\* What a reply that breaks off has of the document, up to its last ink.
LEMMA ReplyCore ==
    ASSUME Plain(meant), meant \in Documents, NEW w \in Written(meant), raw \in Seq(Token),
           NEW o \in Nat, NEW n \in Nat, n # 0, n <= Len(w),
           Placed(raw, w, o, n), Ends(raw, w, o, n), OneFence(raw, 1, o),
           ~cut => FencesApart(raw, o, n)
    PROVE  \E m \in Nat : /\ Core(w, m) /\ Holds(raw, w, o, m) /\ FencesApart(raw, o, m)
                          /\ IF cut THEN m < Len(w) ELSE m = Len(w)
  <1>1. /\ w \in Seq(Token) /\ Len(w) \in Nat /\ Len(w) >= Len(meant) /\ Len(meant) \in Nat
        /\ w[1] = brace /\ w[Len(w)] = close /\ Len(meant) >= 2
    BY DocumentFacts, WrittenFacts
  <1>2. ASSUME NEW i \in 1 .. Len(w) PROVE w[i] # fence
    <2>1. \A k \in 1 .. Len(meant) : meant[k] # fence
      BY DocumentFacts DEF Plain
    <2>2. CASE i <= Len(meant) - 1
      <3>1. i \in 1 .. Len(meant) - 1 /\ i \in 1 .. Len(meant)
        BY <1>1, <2>2
      <3> QED
        BY <2>1, <3>1, WrittenFacts
    <2>3. CASE i \in Len(meant) .. Len(w) - 1
      BY <2>3, WrittenFacts, TokenKinds
    <2>4. CASE i = Len(w)
      BY <1>1, <2>4, CloseBrace
    <2> QED
      BY <1>1, <2>2, <2>3, <2>4
  <1>3. /\ \A i \in 1 .. n : raw[o + i] = w[i]
        /\ \A i \in 1 .. o : raw[i] \notin Openers
        /\ o + n <= Len(raw)
    BY DEF Placed
  <1>4. CASE ~cut
    <2>1. n = Len(w)
      BY <1>4 DEF Ends
    <2>2. Core(w, n)
      BY <1>1, <1>2, <2>1, CloseBrace DEF Core
    <2> QED
      BY <1>4, <2>1, <2>2 DEF Holds, Behind
  <1>5. CASE cut
    <2> DEFINE I == {i \in 1 .. n : w[i] # space}
               m == Max(I)
    <2>1. n < Len(w) /\ o + n = Len(raw)
      BY <1>5 DEF Ends
    <2>2. 1 \in I
      BY <1>1, CloseBrace
    <2>3. m \in I /\ \A k \in I : k <= m
      <3>1. I # {} /\ I \in SUBSET (1 .. n)
        BY <2>2
      <3> HIDE DEF I
      <3> QED
        BY <3>1, LastPosition
    <2>4. m \in 1 .. n /\ w[m] # space
      BY <2>3
    <2>5. ASSUME NEW k \in 1 .. n, m < k PROVE w[k] = space
      <3>1. ~(k <= m)
        <4> HIDE DEF m
        <4> QED
          BY <2>4, <2>5
      <3> QED
        BY <2>3, <3>1
    <2> HIDE DEF m, I
    <2>6. Core(w, m)
      <3>1. m \in Nat \ {0} /\ m <= Len(w) /\ \A i \in 1 .. m : i \in 1 .. Len(w)
        BY <1>1, <2>1, <2>4
      <3> QED
        BY <1>1, <1>2, <2>4, <3>1 DEF Core
    <2>7. Placed(raw, w, o, m)
      <3>1. o + m <= Len(raw) /\ \A i \in 1 .. m : i \in 1 .. n
        BY <2>1, <2>4
      <3> QED
        BY <1>3, <3>1 DEF Placed
    <2>8. ASSUME NEW i \in o + m + 1 .. Len(raw) PROVE raw[i] = space
      <3> DEFINE k == i - o
      <3>1. k \in 1 .. n /\ m < k /\ o + k = i
        BY <2>1, <2>4
      <3> HIDE DEF k
      <3> QED
        BY <1>3, <2>5, <3>1
    <2>9. OneFence(raw, o + m + 1, Len(raw))
      BY <2>8, TokenKinds DEF OneFence
    <2>10. m \in Nat /\ m < Len(w)
      BY <1>1, <2>1, <2>4
    <2> QED
      BY <1>5, <2>6, <2>7, <2>8, <2>9, <2>10 DEF Holds, Behind, FencesApart
  <1> QED
    BY <1>4, <1>5

\* A reply that is accepted as it is is the document, between white space.
LEMMA ParseAccepts ==
    ASSUME meant \in Documents, NEW w \in Written(meant), raw \in Seq(Token),
           NEW o \in Nat, NEW n \in Nat, n <= Len(w),
           Placed(raw, w, o, n), Ends(raw, w, o, n), model_validate_json(raw)
    PROVE  ~cut /\ strip(raw) = meant
  <1>1. /\ w \in Seq(Token) /\ Len(w) \in Nat /\ Len(raw) \in Nat
        /\ meant \in Seq(Token) /\ Len(meant) \in Nat /\ Len(meant) >= 2
        /\ meant[1] = brace /\ meant[Len(meant)] = close
    BY DocumentFacts, WrittenFacts, TextLength
  <1>2. /\ \A i \in 1 .. n : raw[o + i] = w[i]
        /\ \A i \in 1 .. o : raw[i] \notin Openers
        /\ o + n <= Len(raw) /\ o <= Len(raw)
    BY <1>1 DEF Placed
  <1> DEFINE p == first_ink(raw)
  <1>3. /\ p \in 1 .. Len(raw) /\ raw[p] = brace
        /\ \A i \in 1 .. p - 1 : raw[i] = space
        /\ Reading(raw).next = "nothing"
    BY FirstInk DEF model_validate_json
  <1> HIDE DEF p
  <1>4. \A i \in 1 .. o : raw[i] = space
    <2>1. ~(p <= o)
      BY <1>2, <1>3, TokenKinds
    <2>2. \A i \in 1 .. o : i \in 1 .. p - 1
      BY <1>3, <2>1
    <2> QED
      BY <1>3, <2>2
  <1>5. Upto(raw, o + n) = Upto(w, n)
    <2>1. Upto(raw, o) = Fresh
      BY <1>2, <1>4, UptoSpaces
    <2> QED
      BY <1>1, <1>2, <2>1, UptoEqual
  <1>6. Upto(raw, Len(raw)).next = "nothing"
    BY <1>3, UptoEnds
  <1>7. ~cut /\ n = Len(w)
    <2>1. SUFFICES ASSUME cut PROVE FALSE
      BY DEF Ends
    <2>2. n < Len(w) /\ o + n = Len(raw)
      BY <2>1 DEF Ends
    <2>3. Upto(w, n).next = "nothing"
      BY <1>5, <1>6, <2>2
    <2>4. n = Len(w)
      BY <2>3, WrittenOpen
    <2> QED
      BY <2>2, <2>4
  <1>8. w = meant
    <2>1. SUFFICES ASSUME w # meant PROVE FALSE
      OBVIOUS
    <2>2. Len(w) = Len(meant) + 2
      BY <2>1, WrittenFacts
    <2>3. Upto(w, n).next = "error"
      BY <1>7, <2>1, <2>2, TrailingReads
    <2>4. Ended(raw, o + n, Len(raw))
      <3>1. o + n \in Nat /\ Upto(raw, o + n).next \in Done
        BY <1>5, <2>3 DEF Done
      <3> QED
        BY <1>1, <1>2, <3>1, UptoDone
    <2> QED
      BY <1>5, <1>6, <2>3, <2>4 DEF Ended
  <1>9. \A i \in o + n + 1 .. Len(raw) : raw[i] = space
    <2>1. Upto(raw, o + n).next \in Done
      <3>1. Upto(meant, Len(meant)).next = "nothing"
        BY DocumentFacts
      <3> QED
        BY <1>5, <1>7, <1>8, <3>1 DEF Done
    <2>2. Ended(raw, o + n, Len(raw))
      <3>1. o + n \in Nat
        OBVIOUS
      <3> QED
        BY <1>1, <1>2, <2>1, <3>1, UptoDone
    <2> QED
      BY <1>6, <2>2 DEF Ended
  <1>10. strip(raw) = meant
    <2>1. n >= 2 /\ raw[o + 1] = brace /\ raw[o + n] = close
      BY <1>1, <1>2, <1>7, <1>8
    <2>2. o + 1 \in 1 .. Len(raw) /\ o + n \in 1 .. Len(raw)
      BY <1>1, <1>2, <2>1
    <2>3. PICK l \in Nat, r \in Nat :
            /\ strip(raw) = SubSeq(raw, l + 1, r)
            /\ l + 1 <= r /\ r <= Len(raw)
            /\ raw[l + 1] # space /\ raw[r] # space
            /\ \A i \in 1 .. l : raw[i] = space
            /\ \A i \in r + 1 .. Len(raw) : raw[i] = space
      BY <2>1, <2>2, CloseBrace, StripWindow
    <2>4. l = o
      <3>1. ~(o + 1 <= l)
        BY <2>1, <2>3, CloseBrace
      <3>2. ~(l + 1 <= o)
        BY <1>4, <2>3
      <3> QED
        BY <3>1, <3>2
    <2>5. r = o + n
      <3>1. ~(r + 1 <= o + n)
        BY <2>1, <2>2, <2>3, CloseBrace
      <3>2. ~(o + n + 1 <= r)
        BY <1>1, <1>9, <2>3
      <3> QED
        BY <3>1, <3>2
    <2>6. /\ strip(raw) \in Seq(Token) /\ Len(strip(raw)) = n
          /\ \A i \in 1 .. n : strip(raw)[i] = raw[o + i]
      <3>1. o <= r /\ r - o = n
        BY <2>1, <2>5
      <3> QED
        BY <2>3, <2>4, <2>5, <3>1, WindowFacts
    <2> QED
      BY <1>1, <1>2, <1>7, <1>8, <2>6, SameText
  <1> QED
    BY <1>7, <1>10

-------------------------------------------------------------------------------
(***************************************************************************)
(* The repair of a reply.                                                  *)
(***************************************************************************)

\* A text with the document still in it, or with what the reply breaks off with.
HeldAt(t, w, o, n) == n <= Len(w) /\ Placed(t, w, o, n) /\ Ends(t, w, o, n)

Held(t) == /\ t \in Seq(Token)
           /\ t = <<>> \/ t[1] # space
           /\ \E w \in Written(meant), o \in Nat, n \in Nat : HeldAt(t, w, o, n)

\* The scan is in it, and from the last brace of the document on one level deep.
ScannedAt(w, o, n) ==
    /\ HeldAt(text, w, o, n)
    /\ scan.start = o + 1
    /\ scan.at - scan.start <= n
    /\ ~cut => scan.at - scan.start < n
    /\ scan.at - scan.start >= Len(meant) - 1 => scan.depth = 1 /\ ~scan.in_string

Scanned == \E w \in Written(meant), o \in Nat, n \in Nat : ScannedAt(w, o, n)

\* How far the repair of a plain document has come.
Story ==
    /\ pc \in {"parse", "fences", "open", "scan", "commas", "reparse", "accepted", "rejected"}
    /\ pc = "fences" => text = strip(raw)
    /\ pc \in {"open", "scan"} => Held(text)
    /\ pc = "scan" => Scanned
    /\ pc = "commas" => IF cut THEN Held(text) ELSE text \in Written(meant)
    /\ pc = "reparse" => IF cut THEN ~model_validate_json(text)
                         ELSE model_validate_json(text) /\ ink(text) = ink(meant)
    /\ pc = "accepted" => ~cut /\ ink(text) = ink(meant)
    /\ pc = "rejected" => cut

StoryInv == Reply /\ (Plain(meant) => Story)

\* strip leaves nothing, or a text that begins with ink.
LEMMA StripStarts ==
    ASSUME NEW t \in Seq(Token)
    PROVE  strip(t) = <<>> \/ strip(t)[1] # space
  <1>1. SUFFICES ASSUME NEW l \in Nat, NEW r \in Nat, strip(t) = SubSeq(t, l + 1, r),
                        l + 1 <= r, r <= Len(t), t[l + 1] # space
                 PROVE  strip(t)[1] # space
    BY StripWindow
  <1>2. \A i \in 1 .. r - l : strip(t)[i] = t[l + i]
    <2>1. l <= r
      BY <1>1
    <2> QED
      BY <1>1, <2>1, WindowFacts
  <1>3. 1 \in 1 .. r - l
    BY <1>1
  <1> QED
    BY <1>1, <1>2, <1>3

LEMMA FencesStep ==
    ASSUME Reply, Plain(meant), raw \in Seq(Token)
    PROVE  Held(strip_fences(strip(raw)))
  <1> DEFINE t == strip(raw)
             u == strip_fences(t)
  <1>1. PICK w \in Written(meant), o \in Nat, n \in Nat :
             /\ n <= Len(w) /\ Placed(raw, w, o, n) /\ Ends(raw, w, o, n)
             /\ OneFence(raw, 1, o)
             /\ ~cut => FencesApart(raw, o, n)
    BY ReplyPlaced
  <1>2. meant \in Documents /\ Len(w) \in Nat /\ Len(w) >= 2
    BY DocumentFacts, WrittenFacts DEF Reply
  <1>3. t \in Seq(Token)
    BY StripTyped
  <1>4. u \in Seq(Token) /\ (u = <<>> \/ u[1] # space)
    <2> HIDE DEF t
    <2>1. PICK x \in Seq(Token) : u = strip(x)
      BY <1>3, FencesTyped
    <2> QED
      BY <2>1, StripTyped, StripStarts
  <1>5. CASE n = 0
    <2> DEFINE S == Token \ Openers
    <2>1. cut /\ o = Len(raw)
      BY <1>1, <1>2, <1>5 DEF Ends
    <2>2. raw \in Seq(S)
      <3>1. \A i \in 1 .. Len(raw) : raw[i] \in S
        BY <1>1, <2>1 DEF Placed
      <3> HIDE DEF S
      <3> QED
        BY <3>1
    <2>3. t \in Seq(S)
      <3> HIDE DEF S
      <3> QED
        BY <2>2, StripTyped
    <2>4. u \in Seq(S)
      <3> HIDE DEF S, t
      <3>1. PICK x \in Seq(S) : u = strip(x)
        BY <2>3, FencesTyped
      <3> QED
        BY <3>1, StripTyped
    <2> HIDE DEF u
    <2>5. \A i \in 1 .. Len(u) : u[i] \notin Openers
      BY <2>4
    <2>6. HeldAt(u, w, Len(u), 0)
      <3>1. Len(u) \in Nat /\ Len(u) + 0 = Len(u) /\ 1 .. 0 = {} /\ 0 < Len(w) /\ 0 <= Len(w)
        BY <1>2, <1>4, TextLength
      <3> QED
        BY <2>1, <2>5, <3>1 DEF HeldAt, Placed, Ends
    <2>7. Len(u) \in Nat /\ 0 \in Nat
      BY <1>4, TextLength
    <2> QED
      BY <1>4, <2>6, <2>7 DEF Held, u
  <1>6. CASE n # 0
    <2>1. PICK m \in Nat : /\ Core(w, m) /\ Holds(raw, w, o, m) /\ FencesApart(raw, o, m)
                           /\ IF cut THEN m < Len(w) ELSE m = Len(w)
      BY <1>1, <1>2, <1>6, ReplyCore
    <2>2. PICK q \in Nat : Holds(t, w, q, m) /\ FencesApart(t, q, m)
      BY <2>1, StripHolds
    <2> HIDE DEF t
    <2>3. PICK k \in Nat : Holds(u, w, k, m) /\ (cut => k + m = Len(u))
      BY <1>3, <2>1, <2>2, FencesHold
    <2>4. HeldAt(u, w, k, m)
      BY <1>2, <2>1, <2>3 DEF HeldAt, Holds, Ends
    <2> QED
      BY <1>4, <2>4 DEF Held, t
  <1> QED
    BY <1>5, <1>6

\* Where the scan is, and what the parser has read there.
LEMMA ScanPlace ==
    ASSUME Texts, ScanInv, pc = "scan", meant \in Documents, NEW w \in Written(meant),
           NEW o \in Nat, NEW n \in Nat, ScannedAt(w, o, n)
    PROVE  LET x == scan.at - scan.start IN
           /\ text \in Seq(Token) /\ scan \in Scan /\ x \in Nat /\ x <= n
           /\ scan.start = o + 1 /\ scan.at = o + x + 1
           /\ o + n <= Len(text) /\ Len(text) \in Nat
           /\ \A i \in 1 .. n : text[o + i] = w[i]
           /\ w \in Seq(Token) /\ Len(w) \in Nat /\ n <= Len(w)
           /\ n # 0 => open_ch = brace /\ close_ch = close
           /\ reader = Upto(w, x)
           /\ x # 0 => Together(reader, scan, open_ch)
           /\ x = 0 => scan.depth = 0
  <1> DEFINE x == scan.at - scan.start
  <1>1. /\ text \in Seq(Token) /\ scan \in Scan /\ Len(text) \in Nat
        /\ scan.start \in 1 .. Len(text) /\ scan.at \in scan.start .. Len(text) + 1
    BY TextLength DEF Texts, ScanInv
  <1>2. /\ scan.start = o + 1 /\ x <= n /\ n <= Len(w) /\ o + n <= Len(text)
        /\ \A i \in 1 .. n : text[o + i] = w[i]
    BY DEF ScannedAt, HeldAt, Placed
  <1>3. w \in Seq(Token) /\ Len(w) \in Nat /\ w[1] = brace
    BY WrittenFacts
  <1>4. x \in Nat /\ scan.at = o + x + 1
    <2>1. scan.at \in Nat /\ scan.start \in Nat /\ scan.start <= scan.at
      BY <1>1 DEF Scan
    <2>2. scan.start = o + 1
      BY <1>2
    <2> QED
      BY <2>1, <2>2
  <1> HIDE DEF x
  <1>5. n # 0 => open_ch = brace /\ close_ch = close
    <2>1. n # 0 => 1 \in 1 .. n
      OBVIOUS
    <2>2. n # 0 => text[o + 1] = brace
      BY <1>2, <1>3, <2>1
    <2> QED
      BY <1>2, <2>2 DEF open_ch, close_ch, close
  <1>6. reader = Upto(w, x)
    <2>1. reader = Reading(SubSeq(text, o + 1, o + x))
      <3>1. scan.at - 1 = o + x
        BY <1>4
      <3> QED
        BY <1>2, <3>1 DEF reader
    <2> DEFINE r == o + x
               s == SubSeq(text, o + 1, r)
               u == SubSeq(w, 1, x)
    <2>2. r \in Nat /\ o <= r /\ r <= Len(text) /\ r - o = x /\ x <= Len(w)
      BY <1>2, <1>3, <1>4
    <2> HIDE DEF r
    <2>3. s \in Seq(Token) /\ Len(s) = x /\ \A i \in 1 .. x : s[i] = text[o + i]
      BY <1>1, <2>2, WindowFacts
    <2>4. u \in Seq(Token) /\ Len(u) = x /\ \A i \in 1 .. x : u[i] = w[i]
      BY <1>3, <1>4, <2>2, PrefixFacts
    <2>5. \A i \in 1 .. x : i \in 1 .. n
      BY <1>2, <1>4
    <2>6. \A i \in 1 .. x : s[i] = u[i]
      BY <1>2, <2>3, <2>4, <2>5
    <2>7. s = u
      <3> HIDE DEF s, u
      <3> QED
        BY <2>3, <2>4, <2>6, SameText
    <2> QED
      BY <2>1, <2>7 DEF Upto, r
  <1>7. scan.at = scan.start <=> x = 0
    BY <1>2, <1>4
  <1> QED
    BY <1>1, <1>2, <1>3, <1>4, <1>5, <1>6, <1>7 DEF ScanInv, x

\* Inside of the document the scan does not come back to its first level.
LEMMA NoEarlyEnd ==
    ASSUME NEW d \in Documents, NEW x \in Nat, x + 1 < Len(d), NEW s,
           Together(Upto(d, x), s, brace), ~s.in_string, s.depth = 1
    PROVE  d[x + 1] # close
  <1> SUFFICES ASSUME d[x + 1] = close PROVE FALSE
    OBVIOUS
  <1> DEFINE r == Upto(d, x)
             new == Read(r, close)
             o == r.open
  <1>1. d \in Seq(Token) /\ Len(d) \in Nat /\ x < Len(d) /\ x <= Len(d) /\ x + 1 <= Len(d)
        /\ x + 1 \in Nat
    BY DocumentFacts
  <1>2. r \in Parser /\ r.next \notin Done
    BY <1>1, UptoTyped, DocumentOpen
  <1>3. Upto(d, x + 1) = new
    BY <1>1, UptoNext
  <1>4. new.next \notin Done
    BY <1>1, <1>3, DocumentOpen
  <1> HIDE DEF r
  <1>5. /\ r.next \notin {"string", "escape"} /\ Count(o, brace) = 1 /\ o # <<>> /\ o[1] = brace
    BY <1>2 DEF Together, Agrees, Done, r
  <1>6. o \in Seq(Openers)
    BY <1>2, ParserFields
  <1>7. close = close_of[Last(o)] /\ new = Closed(r, Front(o))
    BY <1>2, <1>4, <1>5, OutsideOfStrings, CloseBrace DEF Done
  <1> HIDE DEF new, o
  <1> DEFINE f == Front(o)
             m == Len(o) - 1
  <1>8. /\ f \in Seq(Openers) /\ m \in Nat /\ Len(f) = m
        /\ \A i \in 1 .. m : f[i] = o[i]
        /\ Last(o) \in Openers
    BY <1>5, <1>6, FrontFacts
  <1>9. Last(o) = brace
    BY <1>7, <1>8, TokenKinds DEF close
  <1>10. Count(f, brace) = 0
    <2>1. Count(o, brace) = Count(f, brace) + 1
      BY <1>5, <1>6, <1>9, CountFront
    <2>2. Count(f, brace) \in Nat
      BY <1>8, CountFinite
    <2> QED
      BY <1>5, <2>1, <2>2
  <1> HIDE DEF f, m
  <1>11. f = <<>>
    <2>1. SUFFICES ASSUME f # <<>> PROVE FALSE
      OBVIOUS
    <2>2. 1 \in 1 .. m
      BY <1>8, <2>1
    <2>3. 1 \in Places(f, brace)
      BY <1>5, <1>8, <2>2 DEF Places
    <2>4. IsFiniteSet(Places(f, brace))
      BY <1>8, CountFinite
    <2>5. Places(f, brace) = {}
      BY <1>10, <2>4, FS_EmptySet DEF Count
    <2> QED
      BY <2>3, <2>5
  <1>12. new.next = "nothing"
    BY <1>7, <1>8, <1>11, ClosedParser DEF f, o
  <1> QED
    BY <1>4, <1>12 DEF Done

\* Before its last brace it is there.
LEMMA LastLevel ==
    ASSUME NEW d \in Documents, NEW s, Together(Upto(d, Len(d) - 1), s, brace)
    PROVE  s.depth = 1 /\ ~s.in_string
  <1> DEFINE r == Upto(d, Len(d) - 1)
  <1>1. r \in Parser /\ r.next \in {"first", "more"} /\ r.open = <<brace>>
    BY DocumentLast
  <1> HIDE DEF r
  <1>2. (s.in_string <=> r.next \in {"string", "escape"}) /\ s.depth = Count(r.open, brace)
    BY <1>1 DEF Together, Agrees, r
  <1>3. Count(<<brace>>, brace) = 1
    <2>1. <<>> \in Seq(Openers) /\ <<brace>> = Append(<<>>, brace) /\ brace \in Openers
      BY TokenKinds
    <2>2. Count(<<brace>>, brace) = Count(<<>>, brace) + 1
      BY <2>1, CountAppend
    <2> QED
      BY <2>2, CountNothing
  <1> QED
    BY <1>1, <1>2, <1>3

\* A turn before the last brace of the document: the scan goes on.
LEMMA ScanInside ==
    ASSUME Texts, ScanInv, Reply, Scanning, NEW w \in Written(meant),
           NEW o \in Nat, NEW n \in Nat, ScannedAt(w, o, n), n # 0,
           scan.at - scan.start < n, scan.at - scan.start < Len(meant) - 1
    PROVE  pc' = "scan" /\ ScannedAt(w, o, n)'
  <1> DEFINE x == scan.at - scan.start
             ch == text[scan.at]
  <1>1. /\ meant \in Documents /\ pc = "scan" /\ scan.at <= Len(text)
        /\ UNCHANGED <<meant, cut, raw>>
    BY DEF Reply, Scanning
  <1>2. /\ text \in Seq(Token) /\ scan \in Scan /\ x \in Nat /\ x <= n
        /\ scan.start = o + 1 /\ scan.at = o + x + 1
        /\ \A i \in 1 .. n : text[o + i] = w[i]
        /\ w \in Seq(Token) /\ Len(w) \in Nat /\ n <= Len(w)
        /\ open_ch = brace /\ close_ch = close
        /\ reader = Upto(w, x)
        /\ x # 0 => Together(reader, scan, open_ch)
        /\ x = 0 => scan.depth = 0
    BY <1>1, ScanPlace
  <1>3. /\ Len(meant) \in Nat /\ Len(meant) >= 2 /\ Len(w) >= Len(meant)
        /\ \A i \in 1 .. Len(meant) - 1 : w[i] = meant[i]
    BY <1>1, DocumentFacts, WrittenFacts
  <1>4. x < n /\ x < Len(meant) - 1
    OBVIOUS
  <1> HIDE DEF x
  <1>5. ch = meant[x + 1] /\ reader = Upto(meant, x)
    <2>1. x + 1 \in 1 .. n /\ x + 1 \in 1 .. Len(meant) - 1 /\ o + (x + 1) = scan.at
          /\ x < Len(meant)
      BY <1>2, <1>3, <1>4
    <2>2. ch = w[x + 1]
      BY <1>2, <2>1
    <2>3. Upto(w, x) = Upto(meant, x)
      BY <1>1, <1>2, <2>1, WrittenReads
    <2> QED
      BY <1>2, <1>3, <2>1, <2>2, <2>3
  <1>6. ~(~scan.in_string /\ ch = close_ch /\ scan.depth = 1)
    <2>1. SUFFICES ASSUME ~scan.in_string, ch = close, scan.depth = 1 PROVE FALSE
      BY <1>2
    <2>2. x # 0
      BY <1>2, <2>1
    <2>3. Together(Upto(meant, x), scan, brace)
      BY <1>2, <1>5, <2>2
    <2>4. x + 1 < Len(meant)
      BY <1>2, <1>3, <1>4
    <2> QED
      BY <1>1, <1>2, <1>5, <2>1, <2>3, <2>4, NoEarlyEnd
  <1>7. pc' = "scan" /\ text' = text
    BY <1>1, <1>6 DEF Scanning, ScanString, ScanCode
  <1>8. scan'.start = scan.start /\ scan'.at = scan.at + 1
    <2>1. CASE scan.in_string
      BY <1>2, <2>1 DEF Scanning, ScanString, ScanCode, Scan
    <2>2. CASE ~scan.in_string
      BY <1>2, <1>6, <2>2 DEF Scanning, ScanString, ScanCode, Scan
    <2> QED
      BY <2>1, <2>2
  <1>9. scan'.at - scan'.start = x + 1
    BY <1>2, <1>8
  <1>10. ASSUME x + 1 >= Len(meant) - 1 PROVE scan'.depth = 1 /\ ~scan'.in_string
    <2>1. x + 1 = Len(meant) - 1
      BY <1>2, <1>3, <1>4, <1>10
    <2>2. ScanInv'
      BY <1>7, ScanTurn
    <2>3. open_ch' = open_ch
      BY <1>7, <1>8 DEF open_ch
    <2>4. scan'.at # scan'.start
      BY <1>2, <1>8
    <2>5. Together(reader', scan', brace)
      BY <1>2, <1>7, <2>2, <2>3, <2>4 DEF ScanInv
    <2>6. reader' = Read(reader, ch)
      BY <1>1, <1>7, <1>8, ReaderNext
    <2>7. Upto(meant, x + 1) = Read(Upto(meant, x), ch)
      <3>1. meant \in Seq(Token) /\ x + 1 <= Len(meant)
        BY <1>1, <1>3, <2>1, DocumentFacts
      <3> QED
        BY <1>2, <1>5, <3>1, UptoNext
    <2>8. reader' = Upto(meant, Len(meant) - 1)
      BY <1>5, <2>1, <2>6, <2>7
    <2> DEFINE s == scan'
    <2>9. Together(Upto(meant, Len(meant) - 1), s, brace)
      BY <2>5, <2>8
    <2> HIDE DEF s
    <2>10. s.depth = 1 /\ ~s.in_string
      BY <1>1, <2>9, LastLevel
    <2> QED
      BY <2>10 DEF s
  <1>11. HeldAt(text, w, o, n)'
    BY <1>1, <1>7 DEF ScannedAt, HeldAt, Placed, Ends
  <1>12. /\ scan'.start = o + 1 /\ x + 1 <= n
         /\ ~cut => x + 1 < n
    <2>1. ~cut => n = Len(w)
      BY DEF ScannedAt, HeldAt, Ends
    <2> QED
      BY <1>2, <1>3, <1>4, <1>8, <2>1
  <1> QED
    BY <1>1, <1>7, <1>9, <1>10, <1>11, <1>12 DEF ScannedAt

\* A turn behind it: a comma, white space, or the brace with which it ends.
LEMMA ScanEnd ==
    ASSUME Texts, ScanInv, Reply, Scanning, NEW w \in Written(meant),
           NEW o \in Nat, NEW n \in Nat, ScannedAt(w, o, n), n # 0,
           scan.at - scan.start < n, scan.at - scan.start >= Len(meant) - 1
    PROVE  \/ pc' = "scan" /\ text' = text /\ ScannedAt(w, o, n)'
           \/ pc' = "commas" /\ ~cut /\ text' = w
  <1> DEFINE x == scan.at - scan.start
             ch == text[scan.at]
  <1>1. /\ meant \in Documents /\ pc = "scan" /\ scan.at <= Len(text)
        /\ UNCHANGED <<meant, cut, raw>>
    BY DEF Reply, Scanning
  <1>2. /\ text \in Seq(Token) /\ scan \in Scan /\ x \in Nat /\ x <= n
        /\ scan.start = o + 1 /\ scan.at = o + x + 1
        /\ o + n <= Len(text) /\ Len(text) \in Nat
        /\ \A i \in 1 .. n : text[o + i] = w[i]
        /\ w \in Seq(Token) /\ Len(w) \in Nat /\ n <= Len(w)
        /\ open_ch = brace /\ close_ch = close
    BY <1>1, ScanPlace
  <1>3. /\ Len(meant) \in Nat /\ Len(meant) >= 2 /\ Len(w) >= Len(meant)
        /\ w[Len(w)] = close
        /\ \A i \in Len(meant) .. Len(w) - 1 : w[i] \in {comma, space}
    BY <1>1, DocumentFacts, WrittenFacts
  <1>4. x < n /\ x >= Len(meant) - 1 /\ scan.depth = 1 /\ ~scan.in_string
    BY DEF ScannedAt
  <1> HIDE DEF x
  <1>5. ch = w[x + 1]
    <2>1. x + 1 \in 1 .. n /\ o + (x + 1) = scan.at
      BY <1>2, <1>4
    <2> QED
      BY <1>2, <2>1
  <1>6. /\ ch = close => /\ pc' = "commas"
                         /\ text' = SubSeq(text, scan.start, scan.at)
        /\ ch # close =>
             /\ pc' = "scan" /\ text' = text
             /\ scan' = [scan EXCEPT !.at = @ + 1, !.in_string = ch = quote,
                                     !.depth = CASE ch = brace -> @ + 1
                                                 [] ch = close -> @ - 1
                                                 [] OTHER -> @]
    BY <1>1, <1>2, <1>4 DEF Scanning, ScanString, ScanCode
  <1>7. CASE x + 1 < Len(w)
    <2>1. x + 1 \in Len(meant) .. Len(w) - 1
      BY <1>2, <1>3, <1>4, <1>7
    <2>2. ch # close /\ ch # brace /\ ch # quote
      BY <1>3, <1>5, <2>1, CloseBrace, TokenKinds
    <2>3. /\ scan'.start = scan.start /\ scan'.at = scan.at + 1
          /\ scan'.depth = 1 /\ ~scan'.in_string
      <3>1. scan' = [scan EXCEPT !.at = scan.at + 1, !.in_string = FALSE, !.depth = scan.depth]
        BY <1>6, <2>2
      <3> QED
        BY <1>2, <1>4, <3>1 DEF Scan
    <2>4. scan'.at - scan'.start = x + 1
      BY <1>2, <2>3
    <2>5. HeldAt(text, w, o, n)'
      BY <1>1, <1>6, <2>2 DEF ScannedAt, HeldAt, Placed, Ends
    <2>6. scan'.start = o + 1 /\ x + 1 <= n /\ (~cut => x + 1 < n)
      <3>1. ~cut => n = Len(w)
        BY DEF ScannedAt, HeldAt, Ends
      <3> QED
        BY <1>2, <1>4, <1>7, <2>3, <3>1
    <2> QED
      BY <1>1, <1>6, <2>2, <2>3, <2>4, <2>5, <2>6 DEF ScannedAt
  <1>8. CASE ~(x + 1 < Len(w))
    <2>1. x + 1 = Len(w) /\ n = Len(w) /\ n = x + 1
      BY <1>2, <1>4, <1>8
    <2>2. ch = close
      BY <1>3, <1>5, <2>1
    <2>3. ~cut
      BY <1>2, <2>1 DEF ScannedAt, HeldAt, Ends
    <2> DEFINE r == o + n
               s == SubSeq(text, o + 1, r)
    <2>4. text' = s
      <3>1. scan.at = r
        <4>1. x \in Nat /\ scan.at = o + x + 1
          BY <1>2
        <4> QED
          BY <2>1, <4>1
      <3> QED
        BY <1>2, <1>6, <2>2, <3>1
    <2>5. r \in Nat /\ o <= r /\ r <= Len(text) /\ r - o = n
      BY <1>2
    <2> HIDE DEF r
    <2>6. s \in Seq(Token) /\ Len(s) = n /\ \A i \in 1 .. n : s[i] = text[o + i]
      BY <1>2, <2>5, WindowFacts
    <2> HIDE DEF s
    <2>7. s = w
      BY <1>2, <2>1, <2>6, SameText
    <2> QED
      BY <1>6, <2>2, <2>3, <2>4, <2>7
  <1> QED
    BY <1>7, <1>8

\* The first delimiter is the brace of the document.
LEMMA FindOpenStep ==
    ASSUME Reply, FindOpen, Held(text)
    PROVE  \/ pc' = "commas" /\ cut
           \/ pc' = "scan" /\ Scanned'
  <1> DEFINE m == Len(text)
             I == {i \in 1 .. m : text[i] \in Openers}
             start == IF I # {} THEN Min(I) ELSE 0
  <1>1. /\ scan' = [NoScan EXCEPT !.start = start, !.at = start]
        /\ pc' = IF start = 0 THEN "commas" ELSE "scan"
        /\ UNCHANGED <<meant, cut, raw, text>>
    BY DEF FindOpen, SelectInSeq
  <1>2. PICK w \in Written(meant), o \in Nat, n \in Nat : HeldAt(text, w, o, n)
    BY DEF Held
  <1>3. meant \in Documents /\ m \in Nat /\ Len(w) \in Nat /\ w[1] = brace
        /\ Len(meant) \in Nat /\ Len(meant) >= 2 /\ Len(w) >= Len(meant)
    BY DocumentFacts, WrittenFacts, TextLength DEF Reply, Held
  <1>4. /\ n <= Len(w) /\ o + n <= m
        /\ \A i \in 1 .. n : text[o + i] = w[i]
        /\ \A i \in 1 .. o : text[i] \notin Openers
        /\ IF cut THEN n < Len(w) /\ o + n = m ELSE n = Len(w)
    BY <1>2 DEF HeldAt, Placed, Ends
  <1>5. start # 0 => start \in 1 .. m /\ text[start] \in Openers
                     /\ \A k \in I : start <= k
    <2>1. I # {} => Min(I) \in I /\ \A k \in I : Min(I) <= k
      <3>1. I \in SUBSET (1 .. m)
        OBVIOUS
      <3> HIDE DEF I, m
      <3> QED
        BY <1>3, <3>1, FirstPosition
    <2> QED
      BY <2>1
  <1>6. CASE n = 0
    <2>1. cut /\ o = m
      BY <1>3, <1>4, <1>6
    <2>2. start = 0
      <3> HIDE DEF start
      <3> QED
        BY <1>4, <1>5, <2>1
    <2> QED
      BY <1>1, <2>1, <2>2
  <1>7. CASE n # 0
    <2>1. 1 \in 1 .. n /\ o + 1 \in 1 .. m
      BY <1>3, <1>4, <1>7
    <2>2. o + 1 \in I
      BY <1>3, <1>4, <2>1, TokenKinds
    <2>3. start # 0
      <3>1. I # {}
        BY <2>2
      <3>2. Min(I) \in I
        <4>1. I \in SUBSET (1 .. m)
          OBVIOUS
        <4> HIDE DEF I, m
        <4> QED
          BY <1>3, <3>1, <4>1, FirstPosition
      <3>3. Min(I) \in 1 .. m
        BY <3>2
      <3> QED
        BY <3>1, <3>3
    <2> HIDE DEF start, I
    <2>4. start \in 1 .. m /\ text[start] \in Openers /\ start <= o + 1
      BY <1>5, <2>2, <2>3
    <2>5. start = o + 1
      <3>1. ~(start <= o)
        BY <1>4, <2>4
      <3> QED
        BY <2>4, <3>1
    <2>6. pc' = "scan"
      BY <1>1, <2>3
    <2>7. scan' = [start |-> o + 1, at |-> o + 1, depth |-> 0,
                   in_string |-> FALSE, escape |-> FALSE]
      BY <1>1, <2>5 DEF NoScan
    <2>8. /\ scan'.start = o + 1 /\ scan'.at - scan'.start = 0
      BY <2>7
    <2>9. 0 <= n /\ (~cut => 0 < n) /\ ~(0 >= Len(meant) - 1)
      BY <1>3, <1>7
    <2>10. ScannedAt(w, o, n)'
      <3>1. HeldAt(text, w, o, n)'
        BY <1>1, <1>2 DEF HeldAt, Placed, Ends
      <3> QED
        BY <1>1, <2>8, <2>9, <3>1 DEF ScannedAt
    <2>11. w \in Written(meant)'
      BY <1>1 DEF Written
    <2> QED
      BY <2>6, <2>10, <2>11 DEF Scanned
  <1> QED
    BY <1>6, <1>7

\* There is a turn left as long as the document is not over.
LEMMA ScanStep ==
    ASSUME Texts, ScanInv, Reply, Scanning, Scanned
    PROVE  \/ pc' = "scan" /\ text' = text /\ Scanned'
           \/ pc' = "commas" /\ ~cut /\ text' \in Written(meant)
  <1>1. PICK w \in Written(meant), o \in Nat, n \in Nat : ScannedAt(w, o, n)
    BY DEF Scanned
  <1>2. pc = "scan" /\ meant \in Documents /\ scan.at <= Len(text) /\ meant' = meant
    BY DEF Scanning, Reply
  <1> DEFINE x == scan.at - scan.start
  <1>3. /\ x \in Nat /\ x <= n /\ scan.at = o + x + 1 /\ Len(text) \in Nat
        /\ Len(meant) \in Nat
    BY <1>1, <1>2, ScanPlace, DocumentFacts
  <1>4. IF cut THEN o + n = Len(text) ELSE x < n
    BY <1>1 DEF ScannedAt, HeldAt, Ends
  <1>5. x < n /\ n # 0
    <2> HIDE DEF x
    <2> QED
      BY <1>2, <1>3, <1>4
  <1>6. \/ pc' = "scan" /\ text' = text /\ ScannedAt(w, o, n)'
        \/ pc' = "commas" /\ ~cut /\ text' = w
    <2>1. CASE x < Len(meant) - 1
      <3>1. pc' = "scan" /\ ScannedAt(w, o, n)'
        BY <1>1, <1>5, <2>1, ScanInside
      <3>2. text' = text
        BY <3>1 DEF Scanning, ScanString, ScanCode
      <3> QED
        BY <3>1, <3>2
    <2>2. CASE x >= Len(meant) - 1
      BY <1>1, <1>5, <2>2, ScanEnd
    <2> HIDE DEF x
    <2> QED
      BY <1>3, <2>1, <2>2
  <1>7. w \in Written(meant)'
    BY <1>2 DEF Written
  <1> QED
    BY <1>1, <1>6, <1>7 DEF Scanned

\* When it has run to the end of the text, the reply breaks off.
LEMMA UnbalancedStep ==
    ASSUME Texts, ScanInv, Reply, Unbalanced, Scanned
    PROVE  cut
  <1>1. PICK w \in Written(meant), o \in Nat, n \in Nat : ScannedAt(w, o, n)
    BY DEF Scanned
  <1>2. pc = "scan" /\ meant \in Documents /\ scan.at > Len(text)
    BY DEF Unbalanced, Reply
  <1> DEFINE x == scan.at - scan.start
  <1>3. /\ x \in Nat /\ scan.at = o + x + 1 /\ Len(text) \in Nat /\ o + n <= Len(text)
    BY <1>1, <1>2, ScanPlace
  <1>4. ~cut => x < n
    BY <1>1 DEF ScannedAt
  <1> HIDE DEF x
  <1> QED
    BY <1>2, <1>3, <1>4

LEMMA CommasStep ==
    ASSUME Reply, Plain(meant), RemoveCommas,
           IF cut THEN Held(text) ELSE text \in Written(meant)
    PROVE  IF cut THEN ~model_validate_json(text')
           ELSE model_validate_json(text') /\ ink(text') = ink(meant)
  <1> DEFINE u == strip(remove_trailing_commas(text))
  <1>1. meant \in Documents /\ text' = u
    BY DEF Reply, RemoveCommas
  <1>2. ASSUME cut PROVE ~model_validate_json(u)
    <2>1. PICK w \in Written(meant), o \in Nat, n \in Nat : HeldAt(text, w, o, n)
      BY <1>2 DEF Held
    <2>2. /\ text \in Seq(Token) /\ (text = <<>> \/ text[1] # space)
          /\ n < Len(w) /\ o + n = Len(text) /\ Placed(text, w, o, n)
      BY <1>2, <2>1 DEF Held, HeldAt, Ends
    <2> QED
      BY <1>1, <2>2, CutRejected
  <1>3. ASSUME ~cut PROVE model_validate_json(u) /\ ink(u) = ink(meant)
    <2>1. CASE text = meant
      BY <1>1, <2>1, DocumentKept
    <2>2. CASE text # meant
      BY <1>1, <1>3, <2>2, CommaGoes
    <2> QED
      BY <2>1, <2>2
  <1> HIDE DEF u
  <1> QED
    BY <1>1, <1>2, <1>3

LEMMA StoryInit == Init => StoryInv
  <1> SUFFICES ASSUME Init PROVE StoryInv
    OBVIOUS
  <1>1. Reply
    BY DEF Init, Reply, Whole, Part
  <1>2. Story
    BY DEF Init, Story
  <1> QED
    BY <1>1, <1>2 DEF StoryInv

LEMMA StoryKept == Texts /\ ScanInv /\ StoryInv /\ [Next]_vars => StoryInv'
  <1> SUFFICES ASSUME Texts, ScanInv, StoryInv, [Next]_vars PROVE StoryInv'
    OBVIOUS
  <1>1. UNCHANGED <<meant, cut, raw>>
    BY DEF Next, vars, Parse, StripFences, FindOpen, Scanning, Unbalanced, RemoveCommas, Reparse
  <1>2. Reply /\ Reply'
    BY <1>1 DEF StoryInv, Reply, Whole, Part, Written
  <1>3. SUFFICES ASSUME Plain(meant) PROVE Story'
    BY <1>1, <1>2 DEF StoryInv, Plain
  <1>4. Story
    BY <1>3 DEF StoryInv
  <1>5. raw \in Seq(Token)
    BY DEF Texts
  <1>6. CASE Parse
    <2>1. /\ pc' = IF model_validate_json(raw) THEN "accepted" ELSE "fences"
          /\ text' = strip(raw)
      BY <1>6 DEF Parse
    <2>2. ASSUME model_validate_json(raw) PROVE ~cut /\ strip(raw) = meant
      <3>1. PICK w \in Written(meant), o \in Nat, n \in Nat :
               n <= Len(w) /\ Placed(raw, w, o, n) /\ Ends(raw, w, o, n)
        BY <1>2, ReplyPlaced
      <3> QED
        BY <1>2, <1>5, <2>2, <3>1, ParseAccepts DEF Reply
    <2>3. CASE model_validate_json(raw)
      BY <1>1, <2>1, <2>2, <2>3 DEF Story
    <2>4. CASE ~model_validate_json(raw)
      BY <1>1, <2>1, <2>4 DEF Story
    <2> QED
      BY <2>3, <2>4
  <1>7. CASE StripFences
    <2>1. pc = "fences" /\ pc' = "open" /\ text' = strip_fences(text) /\ text = strip(raw)
      BY <1>4, <1>7 DEF StripFences, Story
    <2>2. Held(strip_fences(strip(raw)))
      BY <1>2, <1>3, <1>5, FencesStep
    <2>3. Held(text')
      BY <2>1, <2>2
    <2>4. Held(text)'
      BY <1>1, <2>3 DEF Held, HeldAt, Placed, Ends, Written
    <2> QED
      BY <2>1, <2>4 DEF Story
  <1>8. CASE FindOpen
    <2>1. Held(text) /\ text' = text
      BY <1>4, <1>8 DEF FindOpen, Story
    <2>2. Held(text)'
      BY <1>1, <2>1 DEF Held, HeldAt, Placed, Ends, Written
    <2>3. \/ pc' = "commas" /\ cut
          \/ pc' = "scan" /\ Scanned'
      BY <1>2, <1>8, <2>1, FindOpenStep
    <2> QED
      BY <1>1, <2>2, <2>3 DEF Story
  <1>9. CASE Scanning
    <2>1. Held(text) /\ Scanned
      BY <1>4, <1>9 DEF Scanning, Story
    <2>2. \/ pc' = "scan" /\ text' = text /\ Scanned'
          \/ pc' = "commas" /\ ~cut /\ text' \in Written(meant)
      BY <1>2, <1>9, <2>1, ScanStep
    <2>3. text' = text => Held(text)'
      BY <1>1, <2>1 DEF Held, HeldAt, Placed, Ends, Written
    <2>4. (text' \in Written(meant)) => (text \in Written(meant))'
      BY <1>1 DEF Written
    <2> QED
      BY <1>1, <2>2, <2>3, <2>4 DEF Story
  <1>10. CASE Unbalanced
    <2>1. Held(text) /\ Scanned /\ text' = text /\ pc' = "commas"
      BY <1>4, <1>10 DEF Unbalanced, Story
    <2>2. cut
      BY <1>2, <1>10, <2>1, UnbalancedStep
    <2>3. Held(text)'
      BY <1>1, <2>1 DEF Held, HeldAt, Placed, Ends, Written
    <2> QED
      BY <1>1, <2>1, <2>2, <2>3 DEF Story
  <1>11. CASE RemoveCommas
    <2>1. pc' = "reparse" /\ IF cut THEN Held(text) ELSE text \in Written(meant)
      BY <1>4, <1>11 DEF RemoveCommas, Story
    <2>2. IF cut THEN ~model_validate_json(text')
          ELSE model_validate_json(text') /\ ink(text') = ink(meant)
      BY <1>2, <1>3, <1>11, <2>1, CommasStep
    <2> QED
      BY <1>1, <2>1, <2>2 DEF Story
  <1>12. CASE Reparse
    <2>1. /\ pc' = IF model_validate_json(text) THEN "accepted" ELSE "rejected"
          /\ text' = text
          /\ IF cut THEN ~model_validate_json(text)
             ELSE model_validate_json(text) /\ ink(text) = ink(meant)
      BY <1>4, <1>12 DEF Reparse, Story
    <2> QED
      BY <1>1, <2>1 DEF Story
  <1>13. CASE UNCHANGED vars
    <2>1. UNCHANGED <<meant, cut, raw, text, scan, pc>>
      BY <1>13 DEF vars
    <2>2. Held(text)' = Held(text) /\ Scanned' = Scanned
      BY <2>1 DEF Held, HeldAt, Placed, Ends, Written, Scanned, ScannedAt
    <2>3. (text \in Written(meant))' = (text \in Written(meant))
      BY <2>1 DEF Written
    <2> QED
      BY <1>4, <2>1, <2>2, <2>3 DEF Story
  <1> QED
    BY <1>6, <1>7, <1>8, <1>9, <1>10, <1>11, <1>12, <1>13 DEF Next

LEMMA StoryHolds == Spec => []StoryInv
  <1>1. Init => Texts /\ ScanInv /\ StoryInv
    BY RawTyped, StoryInit DEF Init, Texts, ScanInv
  <1>2. Texts /\ ScanInv /\ StoryInv /\ [Next]_vars => (Texts /\ ScanInv /\ StoryInv)'
    BY TextsKept, ScanKept, StoryKept
  <1> QED
    BY <1>1, <1>2, PTL DEF Spec

\* _parse_json (services/llm.py:789-830) returns the object that the model sent, all of
\* it, whatever fences, prose without brackets and trailing comma are around it.
THEOREM NeverPartialHolds == Spec => []NeverPartial
  <1>1. StoryInv => NeverPartial
    BY DEF StoryInv, Story, NeverPartial
  <1> QED
    BY <1>1, StoryHolds, PTL

\* And it does return it: only a reply that breaks off is rejected.
THEOREM WrappedHolds == Spec => []WrappedAccepted
  <1>1. StoryInv => WrappedAccepted
    BY DEF StoryInv, Story, WrappedAccepted
  <1> QED
    BY <1>1, StoryHolds, PTL

===============================================================================
