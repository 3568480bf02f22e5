-------------------------- MODULE MCDocumentBuilder --------------------------
(***************************************************************************)
(* All bodies of up to four lines in one section, and up to two sections   *)
(* of every make, with sizes around the end of a page.                     *)
(***************************************************************************)
EXTENDS DocumentBuilder

BodyLines == 4

Plain == [level |-> 1, body |-> <<>>, bullets |-> 0, headers |-> 0, rows |-> 0,
          chars |-> 0]

Bodies == UNION {[1 .. n -> LineKinds] : n \in 0 .. BodyLines}

\* A heading and body that fill a page exactly, and nearly.
Sizes == {0, 3499, 3500}

Tables == {<<0, 0>>, <<0, 2>>, <<1, 2>>}

Makes == {[level |-> l, body |-> b, bullets |-> n, headers |-> t[1], rows |-> t[2],
           chars |-> c] :
            l \in 1 .. 3, b \in {<<>>, <<"bullet">>}, n \in 0 .. 1,
            t \in Tables, c \in Sizes}

MCInputs == {<<>>} \cup {<<[Plain EXCEPT !.body = b]>> : b \in Bodies}
              \cup {<<s, t>> : s, t \in Makes}

=============================================================================
