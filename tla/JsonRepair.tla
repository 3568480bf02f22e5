------------------------------ MODULE JsonRepair ------------------------------
(***************************************************************************)
(* What complete_json makes of a reply (_parse_json, _repair_json and      *)
(* _extract_balanced of src/app/services/llm.py): the reply is parsed as   *)
(* it is, and if that fails stripped of Markdown fences, reduced to its    *)
(* first balanced region, rid of trailing commas, and parsed once more.    *)
(*                                                                         *)
(* A text is a sequence of tokens: the structural characters, the fence    *)
(* ```, "a" for a run of letters or digits and " " for white space.  The   *)
(* key of an object's member and its colon are left out: to this code a    *)
(* key is one more string.  The schema is one that any object satisfies,   *)
(* which lets the most through.                                            *)
(***************************************************************************)
EXTENDS Naturals, Sequences, SequencesExt

CONSTANTS Documents,  \* the objects that the model means to send, as texts
          Before,     \* what it may write in front of one
          After       \* what it may write behind one

brace == "{"
Openers == {brace, "["}
Closers == {"}", "]"}
close_of == [c \in Openers |-> IF c = brace THEN "}" ELSE "]"]
comma == ","
space == " "
quote == "\""
backslash == "\\"
fence == "fence"

Token == Openers \cup Closers \cup {quote, backslash, fence, comma, space, "a"}

\* A bracket in front would be taken for the beginning of the object.
ASSUME RepairAssumption == /\ Documents \subseteq Seq(Token) \ {<<>>}
                           /\ Before \subseteq Seq(Token \ Openers)
                           /\ After \subseteq Seq(Token)

-------------------------------------------------------------------------------
(***************************************************************************)
(* The JSON parser (pydantic's), reading one token: the brackets that are  *)
(* open and what may come next.                                            *)
(***************************************************************************)
Fresh == [open |-> <<>>, next |-> "value"]

\* A value is complete.
Closed(r, open) == [open |-> open, next |-> IF open = <<>> THEN "nothing" ELSE "more"]

ReadString(r, ch) ==
  IF r.next = "escape"
  THEN [r EXCEPT !.next = IF ch \in {quote, backslash} THEN "string" ELSE "error"]
  ELSE CASE ch = quote -> Closed(r, r.open)
         [] ch = backslash -> [r EXCEPT !.next = "escape"]
         [] OTHER -> r

ReadOutside(r, ch) ==
  CASE ch = space -> r
    [] ch = comma /\ r.next = "more" -> [r EXCEPT !.next = "value"]
    [] ch \in Closers /\ r.next \in {"first", "more"} /\ ch = close_of[Last(r.open)]
         -> Closed(r, Front(r.open))
    [] ch = "a" /\ r.next \in {"first", "value"} -> Closed(r, r.open)
    [] ch = quote /\ r.next \in {"first", "value"} -> [r EXCEPT !.next = "string"]
    [] ch \in Openers /\ r.next \in {"first", "value"}
         -> [open |-> Append(r.open, ch), next |-> "first"]
    [] OTHER -> [r EXCEPT !.next = "error"]

Read(r, ch) == IF r.next \in {"string", "escape"} THEN ReadString(r, ch)
               ELSE ReadOutside(r, ch)

Reading(t) == FoldLeft(Read, Fresh, t)

\* What the model means to send is an object, from one brace to the other.
ASSUME ObjectsAssumption ==
  \A d \in Documents : d[1] = brace /\ Last(d) = close_of[brace] /\ Reading(d).next = "nothing"

Fences(t) == {i \in DOMAIN t : t[i] = fence}

\* The first two fences are taken for a wrapping, so they must not both stand in
\* front of the object, nor both behind it.
ASSUME FencesAssumption ==
  \A b \in Before : /\ \A i, j \in Fences(b) : i = j
                    /\ Fences(b) = {} => \A a \in After : \A i, j \in Fences(a) : i = j

first_ink(t) == SelectInSeq(t, LAMBDA ch : ch # space)

\* model_validate_json succeeds: an object and nothing else.
model_validate_json(t) == /\ first_ink(t) # 0
                          /\ t[first_ink(t)] = brace
                          /\ Reading(t).next = "nothing"

-------------------------------------------------------------------------------
\* str.strip.
strip(t) ==
  SubSeq(t, IF first_ink(t) = 0 THEN Len(t) + 1 ELSE first_ink(t),
            SelectLastInSeq(t, LAMBDA ch : ch # space))

\* The info string behind an opening fence, [a-zA-Z0-9_-]*, is skipped.
untagged(t) == LET n == SelectInSeq(t, LAMBDA ch : ch # "a")
               IN  IF n = 0 THEN <<>> ELSE SubSeq(t, n, Len(t))

\* What is between the first two fences, or the text without a fence at an end.
strip_fences(t) ==
  LET i == SelectInSeq(t, LAMBDA ch : ch = fence)
      j == SelectInSubSeq(t, i + 1, Len(t), LAMBDA ch : ch = fence)
      leading == IF i = 1 THEN untagged(Tail(t)) ELSE t
      trailing == IF leading # <<>> /\ Last(leading) = fence
                  THEN Front(leading) ELSE leading
  IN  strip(IF i # 0 /\ j # 0 THEN untagged(SubSeq(t, i + 1, j - 1)) ELSE trailing)

\* MUTANT of trails: white space is not allowed for.
trails_directly(t, i) == t[i] = comma /\ i < Len(t) /\ t[i + 1] \in Closers

\* Only white space between the comma at i and a closing delimiter.
trails(t, i) == LET j == SelectInSubSeq(t, i + 1, Len(t), LAMBDA ch : ch # space)
                IN  t[i] = comma /\ j # 0 /\ t[j] \in Closers

keep(kept, e) == IF e.goes THEN kept ELSE Append(kept, e.ch)

\* The text t without its tokens at the positions I.
without(t, I) == FoldLeft(keep, <<>>, [i \in DOMAIN t |-> [ch |-> t[i], goes |-> i \in I]])

\* MUTANT of remove_trailing_commas: every comma goes.
remove_commas(t) == without(t, {i \in DOMAIN t : t[i] = comma})

\* re.sub(r",(\s*[}\]])", r"\1", text): strings are not spared.
remove_trailing_commas(t) == without(t, {i \in DOMAIN t : trails(t, i)})

-------------------------------------------------------------------------------
VARIABLES meant,  \* the document the model means to send
          cut,    \* the reply breaks off inside it
          raw,    \* the reply
          text,   \* what _repair_json has made of it so far
          scan,   \* the locals of _extract_balanced
          pc      \* where _parse_json is

vars == <<meant, cut, raw, text, scan, pc>>

\* Nothing scanned; in the loop, at is the index of the character to come.
NoScan == [start |-> 0, at |-> 0, depth |-> 0, in_string |-> FALSE, escape |-> FALSE]

\* A document as a model may write it: with or without a trailing comma.
Written(d) == {d, Front(d) \o <<comma, space, Last(d)>>}

\* Any reply: a document with something around it, or the beginning of one.
Init == /\ meant \in Documents
        /\ \E w \in Written(meant), b \in Before :
             \/ \E a \in After : raw = b \o w \o a /\ cut = FALSE
             \/ \E n \in 0 .. Len(w) - 1 : raw = b \o SubSeq(w, 1, n) /\ cut = TRUE
        /\ text = <<>>
        /\ scan = NoScan
        /\ pc = "parse"

\* The reply is tried as it is.
Parse == /\ pc = "parse"
         /\ text' = strip(raw)
         /\ pc' = IF model_validate_json(raw) THEN "accepted" ELSE "fences"
         /\ UNCHANGED <<meant, cut, raw, scan>>

\* The fences go.
StripFences == /\ pc = "fences"
               /\ text' = strip_fences(text)
               /\ pc' = "open"
               /\ UNCHANGED <<meant, cut, raw, scan>>

\* _extract_balanced looks for the first opening delimiter.
FindOpen ==
  /\ pc = "open"
  /\ LET start == SelectInSeq(text, LAMBDA ch : ch \in Openers)
     IN  /\ scan' = [NoScan EXCEPT !.start = start, !.at = start]
         /\ pc' = IF start = 0 THEN "commas" ELSE "scan"
  /\ UNCHANGED <<meant, cut, raw, text>>

open_ch == text[scan.start]
close_ch == close_of[open_ch]

\* MUTANT of ScanString: an escaped quote ends the string.
ScanStringBlind(ch) ==
  /\ scan.in_string
  /\ scan' = [scan EXCEPT !.at = @ + 1, !.in_string = ch # quote]
  /\ UNCHANGED <<text, pc>>

\* One turn of the loop inside a string.
ScanString(ch) ==
  /\ scan.in_string
  /\ scan' = [scan EXCEPT !.at = @ + 1,
                          !.escape = ~scan.escape /\ ch = backslash,
                          !.in_string = scan.escape \/ ch # quote]
  /\ UNCHANGED <<text, pc>>

\* One turn outside of strings; the region ends where depth is 0 again.
ScanCode(ch) ==
  /\ ~scan.in_string
  /\ \/ /\ ch = close_ch
        /\ scan.depth = 1
        /\ text' = SubSeq(text, scan.start, scan.at)
        /\ pc' = "commas"
        /\ scan' = NoScan
     \/ /\ ~(ch = close_ch /\ scan.depth = 1)
        /\ scan' = [scan EXCEPT !.at = @ + 1,
                                !.in_string = ch = quote,
                                !.depth = CASE ch = open_ch -> @ + 1
                                            [] ch = close_ch -> @ - 1
                                            [] OTHER -> @]
        /\ UNCHANGED <<text, pc>>

Scanning == /\ pc = "scan"
            /\ scan.at <= Len(text)
            /\ ScanString(text[scan.at]) \/ ScanCode(text[scan.at])
            /\ UNCHANGED <<meant, cut, raw>>

\* No matching delimiter: the text stays as it is.
Unbalanced == /\ pc = "scan"
              /\ scan.at > Len(text)
              /\ pc' = "commas"
              /\ scan' = NoScan
              /\ UNCHANGED <<meant, cut, raw, text>>

RemoveCommas == /\ pc = "commas"
                /\ text' = strip(remove_trailing_commas(text))
                /\ pc' = "reparse"
                /\ UNCHANGED <<meant, cut, raw, scan>>

\* The second parse decides.
Reparse == /\ pc = "reparse"
           /\ pc' = IF model_validate_json(text) THEN "accepted" ELSE "rejected"
           /\ UNCHANGED <<meant, cut, raw, text, scan>>

Next == \/ Parse \/ StripFences \/ FindOpen \/ Scanning \/ Unbalanced
        \/ RemoveCommas \/ Reparse

Spec == Init /\ [][Next]_vars

-------------------------------------------------------------------------------
\* The repair takes nothing in the strings of the document for structure.
Plain(d) == \A i \in DOMAIN d : d[i] # fence /\ ~trails(d, i)

(***************************************************************************)
(* ScannerAgrees: _extract_balanced, which counts one kind of bracket and  *)
(* knows nothing of JSON, is at every character where a JSON parser that   *)
(* started at the same place would be: in a string or not, behind a        *)
(* backslash or not, and as deep in brackets of its kind; as long as what  *)
(* it has read can be the beginning of JSON with a trailing comma.         *)
(***************************************************************************)
ScannerAgrees ==
  pc = "scan" =>
    LET r == Reading(SubSeq(text, scan.start, scan.at - 1))
    IN  r.next # "error" =>
          /\ scan.in_string <=> r.next \in {"string", "escape"}
          /\ scan.escape <=> r.next = "escape"
          /\ scan.depth = Cardinality({i \in DOMAIN r.open : r.open[i] = open_ch})

(***************************************************************************)
(* NeverPartial: what complete_json returns is the object that the model   *)
(* sent, all of it, up to white space: property P6 (llm.py:790-793), for   *)
(* documents whose strings hold no fence and no comma before a bracket,    *)
(* and prose without brackets in front.                                    *)
(***************************************************************************)
ink(t) == without(t, {i \in DOMAIN t : t[i] = space})

NeverPartial ==
  Plain(meant) /\ pc = "accepted" => ~cut /\ ink(text) = ink(meant)

(***************************************************************************)
(* WrappedAccepted: a whole reply is never rejected for the prose, fences  *)
(* or trailing comma around its object (Req 2.4).                          *)
(***************************************************************************)
WrappedAccepted == Plain(meant) /\ ~cut => pc # "rejected"

(***************************************************************************)
(* TruncatedRejected: of a truncated response _repair_json says that "the  *)
(* fence-stripped text is returned so that the subsequent parse fails      *)
(* cleanly" (llm.py:847-849), whatever its strings hold.                   *)
(***************************************************************************)
TruncatedRejected == cut => pc # "accepted"

===============================================================================
