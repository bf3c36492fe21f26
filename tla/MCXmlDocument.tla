---------------------------- MODULE MCXmlDocument ----------------------------
EXTENDS XmlDocument

Tree(n, d, a, k) == [name |-> n, data |-> d, attrs |-> a, kids |-> k]
Leaf(n) == Tree(n, <<>>, {}, <<>>)

A == <<"a">>
AB == <<"a", "b">>
Names == {A, AB}
Data == {<<"x">>, <<" ", "x", "/">>, <<"<", "]", ">">>, <<"]", ">", " ", "-">>}
Attrs == {{}, {<<A, <<"x", "/">>>>}, {<<A, <<>>>>, <<AB, <<" ", "=">>>>}}

Leaves == {Leaf(A), Leaf(AB)} \cup {Tree(A, d, {}, <<>>) : d \in Data}
          \cup {Tree(AB, d, a, <<>>) : d \in {<<>>, <<"x">>}, a \in Attrs}
Nested == {Tree(A, <<>>, {}, <<Leaf(n)>>) : n \in Names}
Lists == {<<k>> : k \in Leaves \cup Nested} \cup {<<k, Leaf(n)>> : k \in Leaves, n \in Names}

\* Trees for the scanner: every list of children below one root
Trees == {Tree(n, <<>>, {}, k) : n \in Names, k \in Lists} \cup Leaves

\* Trees for the searches: names only, three levels below the root
Kids(S) == {<<>>} \cup {<<k>> : k \in S} \cup {<<k, l>> : k \in S, l \in S}
Low == {Leaf(n) : n \in Names}
Mid == {Tree(n, <<>>, {}, k) : n \in Names, k \in {<<>>} \cup {<<l>> : l \in Low} \cup {<<Leaf(A), Leaf(AB)>>}}
Deep == {Tree(A, <<>>, {}, k) : k \in Kids(Mid)}

\* and some with four levels
Deeper == {Tree(A, <<>>, {}, <<t, Leaf(A)>>) : t \in {Tree(A, <<>>, {}, <<m, l>>) : m \in Mid, l \in Low}}

Gaps == {<<" ">>, <<>>, <<"<", "!", "-", "-", ">", "-", "-", ">">>}
Prologs == {<<>>, <<"<", "?", "a", "?", ">", " ">>, <<"<", "!", "-", "-", "-", "-", "-", ">">>}

\* Where the element ends: what follows it is the gap
WithSize(t, prolog, gap) ==
  LET text == XmlText(t, gap) IN
  [chars |-> prolog \o text, tree |-> t, size |-> Len(prolog) + Len(text) - Len(gap)]

\* Texts that begin inside a tag
Garbage == {[chars |-> c, tree |-> Leaf(A), size |-> 9] : c \in {<<">">>, <<" ", ">">>}}

\* Every beginning of a text
Cuts(d) == {[d EXCEPT !.chars = SubSeq(@, 1, n)] : n \in 0..Len(d.chars)}

\* The texts that are searched: those of the trees, and every beginning of one
MCSearched ==
  {WithSize(t, <<>>, <<" ">>) : t \in Deep \cup Deeper}
  \cup Cuts(WithSize(Tree(A, <<>>, {}, <<Tree(AB, <<>>, {}, <<Leaf(A), Leaf(AB)>>), Leaf(A)>>),
                    <<>>, <<" ">>))

MCDocs ==
  Garbage \cup
  {WithSize(t, p, g) : t \in Trees, p \in Prologs, g \in Gaps}
  \cup MCSearched
  \cup UNION {Cuts(WithSize(t, <<>>, g)) : t \in Trees, g \in Gaps}

\* The searches: each function with the names it takes
Query(k, n, i) == [kind |-> k, names |-> n, index |-> i]
NameLists == {<<>>, <<A, AB, A>>, <<A, A, A>>} \cup {<<n>> : n \in Names} \cup {<<n, m>> : n, m \in Names}
MCQueries ==
  {Query("name", <<n>>, i) : n \in Names, i \in -1..3}
  \cup {Query("pair", <<n, m>>, i) : n, m \in Names, i \in -1..3}
  \cup {Query("names", n, i) : n \in NameLists, i \in -1..3}
MCOlds == {Empty, [Empty EXCEPT !.name = A, !.data = A, !.attrs = {<<A, A>>}, !.kids = <<Empty>>]}
=============================================================================
