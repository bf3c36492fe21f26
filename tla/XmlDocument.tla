----------------------------- MODULE XmlDocument -----------------------------
(***************************************************************************)
(* What an XML text is written from and what is looked up in it:           *)
(* CXmlElement::InsertElementData and ToString                             *)
(* (src/XmlParser/XmlElement.cpp) and the searches of CXmlSearch           *)
(* (src/XmlParser/XmlSearch.cpp), and what reading has to do with both.    *)
(*                                                                         *)
(* A tree is what an application builds: a name, data or children, and     *)
(* attributes.  The texts parsed are those ToString writes of trees, also  *)
(* with what an editor puts around elements, and each of them cut short.   *)
(***************************************************************************)
EXTENDS XmlSearch, SequencesExt

-----------------------------------------------------------------------------
(* Writing. *)

\* InsertElementData: data that holds a tag's characters becomes a section
Wrapped(data) ==
  IF \E i \in DOMAIN data : data[i] \in {"<", ">"}
  THEN <<"C">> \o data \o <<"]", "]", ">">> ELSE data

WriteAttributes(attrs) ==
  FlattenSeq([i \in DOMAIN SetToSeq(attrs) |->
    LET a == SetToSeq(attrs)[i] IN <<" ">> \o a[1] \o <<"=", "q">> \o a[2] \o <<"q">>])

\* ToString, where `gap` is what it writes behind every tag that ends a line,
\* a newline, or what a person put there
RECURSIVE XmlText(_, _)
XmlText(t, gap) ==
  <<"<">> \o t.name \o WriteAttributes(t.attrs)
  \o CASE t.data # <<>> -> <<">">> \o Wrapped(t.data) \o <<"<", "/">> \o t.name \o <<">">> \o gap
     [] t.data = <<>> /\ t.kids # <<>> ->
          <<">">> \o gap \o FlattenSeq([i \in DOMAIN t.kids |-> XmlText(t.kids[i], gap)])
          \o <<"<", "/">> \o t.name \o <<">">> \o gap
     [] OTHER -> <<"/", ">">> \o gap

-----------------------------------------------------------------------------
(* What reading should give. *)

\* The element a tree means: data hides children, as ToString does
RECURSIVE Meaning(_)
Meaning(t) == [name |-> t.name, data |-> t.data, attrs |-> t.attrs,
               kids |-> IF t.data # <<>> THEN <<>>
                        ELSE [i \in DOMAIN t.kids |-> Meaning(t.kids[i])]]

Parsed == frames = <<>> /\ result.len # -1
Whole == doc.size <= TextLen

\* What was read is part of what was written: nothing invented, nothing half
\* read, and only the last child of an element may itself be incomplete.  A
\* text that is cut behind the "<" of an end tag adds a child that has no name
\* (XmlElement.cpp:176), which no search finds.
RECURSIVE PartOf(_, _)
PartOf(e, t) ==
  LET kids == IF e.kids # <<>> /\ Last(e.kids) = Empty THEN Front(e.kids) ELSE e.kids IN
  /\ e.name \in {<<>>, t.name}
  /\ e.data \in {<<>>, t.data}
  /\ e.attrs \subseteq t.attrs
  /\ Len(kids) <= Len(t.kids)
  /\ \A i \in DOMAIN kids :
       IF i < Len(kids) THEN kids[i] = t.kids[i] ELSE PartOf(kids[i], t.kids[i])

\* Reading what was written gives the element that was written, whatever an
\* editor put between the elements or in front of the first, whatever the
\* object held before (XmlElement.cpp:69), and however the text goes on behind
\* it: the length returned (XmlElement.cpp:243) is that of the element alone.
Faithful ==
  frames = <<>> /\ Whole => result = [len |-> doc.size, elem |-> Meaning(doc.tree)]

\* A text that was cut short, a setup file read while it is being written, is
\* either refused or read as a part of the element: a name, a value or data
\* that was not read to its end is left empty (XmlElement.cpp:243 accepts it).
CutNeverLies == Parsed => PartOf(result.elem, Meaning(doc.tree))
=============================================================================
