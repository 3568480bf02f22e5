---------------------------- MODULE MCJsonRepair ----------------------------
(***************************************************************************)
(* Objects with up to two members, strings that hold what the repair looks *)
(* for, and what models write around an object.                            *)
(***************************************************************************)
EXTENDS JsonRepair

Str(s) == <<quote>> \o s \o <<quote>>

Strings == {Str(s) : s \in {<<"}">>, <<backslash, quote, "}">>,
                            <<backslash, backslash>>, <<comma>>}}

\* Strings that the repair takes for something else.
Treacherous == {Str(<<comma, "]">>), Str(<<fence, brace, "}", fence>>)}

Scalars == {<<"a">>} \cup Strings

List(o, items) == <<o>> \o items \o <<close_of[o]>>

Nested == {List(o, s) : o \in Openers, s \in {<<>>, <<"a">>, Str(<<"]">>)}}

Pair(s, t) == s \o <<comma, space>> \o t

PlainDocuments == {List(brace, s) : s \in {<<>>} \cup Scalars \cup Nested}
                    \cup {List(brace, Pair(s, t)) : s, t \in Scalars \cup Nested}

AllDocuments == PlainDocuments
                  \cup {List(brace, s) : s \in Treacherous}
                  \cup {List(brace, Pair(s, <<"a">>)) : s \in Treacherous}

MCBefore == {<<>>, <<"a", space>>, <<fence, "a", space>>, <<"a", space, fence, space>>}

MCAfter == {<<>>, <<space, "a">>, <<space, fence>>, <<space, fence, "a", "[", "a", "]">>}

=============================================================================
