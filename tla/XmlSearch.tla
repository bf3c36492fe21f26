------------------------------ MODULE XmlSearch ------------------------------
(***************************************************************************)
(* CXmlSearch::SelectElement (src/XmlParser/XmlSearch.cpp): the searches in *)
(* the element that CXmlElement::Parse read, by one name, by a name and a   *)
(* name below it, and by a list of names.  The functions that search call   *)
(* themselves for the children of an element and share iCount, which is     *)
(* passed by reference.  The calls in progress are a stack, and one step is *)
(* one turn of the innermost loop over a list of children.                  *)
(***************************************************************************)
EXTENDS XmlElement, FiniteSets

CONSTANTS
  Searched,  \* the texts whose element is searched
  Queries    \* the searches: which function, for which names, the how manieth

ASSUME SearchAssumption ==
  \A q \in Queries :
    /\ q.index \in Int /\ q.names \in Seq(Seq(STRING))
    /\ \/ q.kind = "name" /\ Len(q.names) = 1
       \/ q.kind = "pair" /\ Len(q.names) = 2
       \/ q.kind = "names"

VARIABLES
  query,    \* the parameters of the last search
  iCount,   \* the elements counted, one variable for all calls of a search
  calls,    \* the calls of SelectElement in progress, the innermost last
  found     \* what the last search returned

searchVars == <<query, iCount, calls, found>>

-----------------------------------------------------------------------------
(* A pointer to an element is its path, the child numbers from the root.    *)

NotFound == <<>>
NoQuery == [kind |-> "name", names |-> <<>>, index |-> -1]

\* The locals of a call for the list `kids` that looks for the iName-th name
Call(fn, iName, kids) == [fn |-> fn, iName |-> iName, kids |-> kids, itEL |-> 1]

Inner == calls[Len(calls)]
Element == Inner.kids[Inner.itEL]
Path(s) == [j \in 1..Len(s) |-> s[j].itEL]

\* ++itEL
NextChild(s) == [s EXCEPT ![Len(s)].itEL = @ + 1]

Looking == calls # <<>> /\ Inner.itEL <= Len(Inner.kids)
Matches == Element.name = query.names[Inner.iName]
LastName == \/ Inner.fn = "name"
            \/ Inner.fn = "names" /\ Len(query.names) = Inner.iName

-----------------------------------------------------------------------------
(* A search of the application in the element that was read. *)

Select ==
  /\ frames = <<>> /\ result.len # -1 /\ doc \in Searched
  /\ calls = <<>>
  /\ \E q \in Queries :
       /\ query' = q
       /\ calls' = IF q.index < 0 \/ Len(q.names) = 0 THEN <<>>
                   ELSE <<Call(q.kind, 1, result.elem.kids)>>
  /\ iCount' = 0
  /\ found' = NotFound

\* The element sought: every call returns its pointer
Hit == /\ Looking /\ Matches /\ LastName /\ iCount = query.index
       /\ found' = Path(calls)
       /\ calls' = <<>>
       /\ UNCHANGED <<query, iCount>>

\* Mutant, against SearchGoesForward: a child is counted and looked at again
CountAgain == /\ Looking /\ Matches /\ LastName /\ iCount # query.index
              /\ iCount' = iCount + 1
              /\ UNCHANGED <<query, calls, found>>

\* One that is counted; what is below it is not looked at
Count == /\ Looking /\ Matches /\ LastName /\ iCount # query.index
         /\ iCount' = iCount + 1
         /\ calls' = NextChild(calls)
         /\ UNCHANGED <<query, found>>

\* What the call for the children looks for
ForChildren == IF ~Matches THEN Call(Inner.fn, Inner.iName, Element.kids)
               ELSE IF Inner.fn = "pair" THEN Call("name", 2, Element.kids)
               ELSE Call("names", Inner.iName + 1, Element.kids)

Descend == /\ Looking /\ ~(Matches /\ LastName)
           /\ calls' = Append(calls, ForChildren)
           /\ UNCHANGED <<query, iCount, found>>

\* Mutant, against CountsInOrder: iCount passed by value
EndOfListByValue ==
  /\ calls # <<>> /\ ~Looking
  /\ calls' = IF Len(calls) = 1 THEN <<>> ELSE NextChild(SubSeq(calls, 1, Len(calls) - 1))
  /\ iCount' = 0
  /\ UNCHANGED <<query, found>>

\* return NULL: the caller goes on with its next child
EndOfList ==
  /\ calls # <<>> /\ ~Looking
  /\ calls' = IF Len(calls) = 1 THEN <<>> ELSE NextChild(SubSeq(calls, 1, Len(calls) - 1))
  /\ UNCHANGED <<query, iCount, found>>

-----------------------------------------------------------------------------
SearchInit == query = NoQuery /\ iCount = 0 /\ calls = <<>> /\ found = NotFound
SearchNext == Select \/ Hit \/ Count \/ Descend \/ EndOfList

\* Reading and then searching
xmlVars == <<vars, searchVars>>
XmlInit == Init /\ SearchInit
XmlNext == \/ Next /\ UNCHANGED searchVars
           \/ SearchNext /\ UNCHANGED vars
XmlSpec == XmlInit /\ [][XmlNext]_xmlVars

-----------------------------------------------------------------------------
(* What searching should give, without a search. *)

\* An element as a search meets it: its path, the names on the way, its own
\* last, and its children
Root(kids) == [path |-> <<>>, tags |-> <<>>, kids |-> kids]
Beneath(x, i) == [path |-> Append(x.path, i), tags |-> Append(x.tags, x.kids[i].name),
                  kids |-> x.kids[i].kids]

\* The elements below a root, by levels down to `depth`
Levels(kids, depth) ==
  LET level[n \in 0..depth] ==
        IF n = 0 THEN {Root(kids)}
        ELSE UNION {{Beneath(x, i) : i \in DOMAIN x.kids} : x \in level[n - 1]}
  IN level

\* All elements below the one read, which has no more levels than characters
Elements == UNION {Levels(result.elem.kids, result.len)[n] : n \in 1..result.len}

\* The first k names are on the way at the places f, each the first behind the
\* one before it
Greedy(f, tags, names, k) ==
  \A i \in 1..k :
    /\ tags[f[i]] = names[i]
    /\ i > 1 => f[i - 1] < f[i]
    /\ \A n \in 1..f[i] - 1 : tags[n] = names[i] => i > 1 /\ n <= f[i - 1]

\* An element that a list of names means: the last of them is its own
Meant(tags, names) ==
  LET k == Len(names) IN
  k > 0 /\ \E f \in [1..k -> 1..Len(tags)] : f[k] = Len(tags) /\ Greedy(f, tags, names, k)

\* p comes before q in the text: their start tags are in this order
Before(p, q) ==
  \E n \in 1..Len(q) :
    /\ n <= Len(p) + 1
    /\ \A m \in 1..n - 1 : p[m] = q[m]
    /\ n <= Len(p) => p[n] < q[n]

Hits == {x \in Elements : Meant(x.tags, query.names)}
HitsBefore(p) == {x \in Hits : Before(x.path, p)}

\* The index of a search counts, in the order of the text, the elements that its
\* names mean: with one name those with it that are not inside another one with
\* it, with more names each inside such an element of the name before.  This is
\* the same for the three functions, although two of them call themselves and
\* the third one of those, and the counter has to survive every return
\* (XmlSearch.cpp:386, 425, 462).
CountsInOrder ==
  calls = <<>> =>
    IF found = NotFound THEN query.index < 0 \/ Cardinality(Hits) <= query.index
    ELSE /\ \E x \in Hits : x.path = found
         /\ Cardinality(HitsBefore(found)) = query.index

\* A search looks at the elements in the order of the text and at none twice,
\* so it ends: between two turns of a search, also over calls and returns, the
\* path moves forward (XmlSearch.cpp:391, 404, 430, 470).
SearchGoesForward ==
  [][calls # <<>> /\ calls' # <<>> => Before(Path(calls), Path(calls'))]_xmlVars
=============================================================================
