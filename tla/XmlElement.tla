----------------------------- MODULE XmlElement -----------------------------
(***************************************************************************)
(* CXmlElement::Parse (src/XmlParser/XmlElement.cpp): the scanner that     *)
(* reads a setup file.  It walks the text one character at a time; on a    *)
(* start tag inside an element it calls itself for the rest of the text    *)
(* and goes on behind the part the call consumed.  The calls in progress   *)
(* are a stack of frames, and one step is one turn of the innermost loop.  *)
(*                                                                         *)
(* A character is a string.  Those the scanner tells apart are             *)
(*      < > / = ! ? - ] and q, the double quote, and " ", white space,     *)
(* and "C" is the nine characters that open a CDATA section.  The others   *)
(* only name and fill elements.                                            *)
(***************************************************************************)
EXTENDS Integers, Sequences

CONSTANTS
  Docs,     \* the texts to parse: [chars: a sequence of characters, and what
            \* the text was written from, which the scanner does not look at]
  Olds      \* what the object may hold when Parse is called

ASSUME XmlAssumption ==
  /\ \A d \in Docs : d.chars \in Seq(STRING)
  /\ \A e \in Olds : DOMAIN e = {"name", "data", "attrs", "kids"}

VARIABLES
  doc,      \* the text being parsed
  iPos,     \* the character the innermost loop is at, counted from 0
  frames,   \* the calls of Parse in progress, the innermost last
  result    \* what the outermost call left behind

vars == <<doc, iPos, frames, result>>

-----------------------------------------------------------------------------
(* Characters of the text; behind the last one is the terminating zero. *)

TextLen == Len(doc.chars)
At(i) == IF i < TextLen THEN doc.chars[i + 1] ELSE "end"
Slice(i, j) == SubSeq(doc.chars, i + 1, j)

\* strncmp(pszText + i, s, strlen(s)) == 0
Has(i, s) == i + Len(s) <= TextLen /\ Slice(i, i + Len(s)) = s

Space == {" ", "/"}
Types == {"NULL", "NAME", "ATTR", "DATA", "NAME_END", "DATA_PARSE",
          "COMMENT", "CDATA", "DECLARATION"}

-----------------------------------------------------------------------------
(* Elements and frames. *)

\* Mutant, against Faithful: Clear without the list of children
ClearNoList(e) == [e EXCEPT !.name = <<>>, !.data = <<>>, !.attrs = {}]

\* Clear
Clear(e) == [e EXCEPT !.name = <<>>, !.data = <<>>, !.attrs = {}, !.kids = <<>>]

\* std::map::insert: a name that is there keeps its value
InsertAttr(attrs, n, v) ==
  IF \E a \in attrs : a[1] = n THEN attrs ELSE attrs \cup {<<n, v>>}

\* The locals of a call of Parse whose text starts at character `base`
Frame(base, e) ==
  [base |-> base, cType |-> "NULL", cTypeOld |-> "NULL", start |-> -1,
   attr |-> <<>>, elem |-> Clear(e)]

Empty == [name |-> <<>>, data |-> <<>>, attrs |-> {}, kids |-> <<>>]
Running == [len |-> 0, elem |-> Empty]

Top == frames[Len(frames)]
Ch == At(iPos)

\* The innermost loop goes on with locals f at character n
Go(f, n) == /\ frames' = [frames EXCEPT ![Len(frames)] = f]
            /\ iPos' = n
            /\ UNCHANGED <<doc, result>>

\* The caller adds the element it got to its children
Adopt(f, e) == [f EXCEPT !.elem.kids = Append(@, e), !.cType = "DATA_PARSE"]

\* The innermost call returns at character n with its element and the caller
\* goes on behind it; the outermost call is over.
Return(f, n) ==
  /\ IF Len(frames) = 1
     THEN result' = [len |-> n, elem |-> f.elem] /\ frames' = <<>>
     ELSE LET rest == SubSeq(frames, 1, Len(frames) - 1) IN
          /\ frames' = [rest EXCEPT ![Len(rest)] = Adopt(@, f.elem)]
          /\ UNCHANGED result
  /\ iPos' = n
  /\ UNCHANGED doc

\* return -1: every caller returns -1 as well
Fail == /\ result' = [len |-> -1, elem |-> Empty]
        /\ frames' = <<>>
        /\ UNCHANGED <<doc, iPos>>

\* m_strData.append of the characters from `start` to here
TakeData(f) == [f EXCEPT !.elem.data = @ \o Slice(f.start, iPos)]

-----------------------------------------------------------------------------
(* The cases of the loop, each with the condition that leads to it. *)

Scanning == frames # <<>> /\ iPos < TextLen
In(types) == Scanning /\ Top.cType \in types
Plain == In(Types \ {"COMMENT", "DECLARATION"})
Markup == Plain /\ Top.cType # "CDATA" /\ Ch \notin Space

\* Mutant, against CutNeverLies: data that was not ended is taken at the end
EndOfTextTakes == /\ frames # <<>> /\ iPos >= TextLen
                  /\ Return(IF Top.cType = "DATA" THEN TakeData(Top) ELSE Top, iPos)

\* for( ... ; iPos < iTextLen; ... ): what is open at the end counts as read
EndOfText == /\ frames # <<>> /\ iPos >= TextLen
             /\ Return(Top, iPos)

\* "-->" ends a comment, unless it ends the text
CommentEnds == iPos + 3 < TextLen /\ Has(iPos, <<"-", "-", ">">>)

Comment ==
  /\ In({"COMMENT"})
  /\ \/ CommentEnds /\ Go([Top EXCEPT !.cType = Top.cTypeOld], iPos + 3)
     \/ ~CommentEnds /\ Go(Top, iPos + 1)

Declaration ==
  /\ In({"DECLARATION"})
  /\ Go([Top EXCEPT !.cType = IF Ch = ">" THEN "NULL" ELSE @], iPos + 1)

\* the end of the name of a start tag
TakeName(f) == [f EXCEPT !.elem.name = @ \o Slice(f.start, iPos)]

Blank ==
  /\ Plain /\ Ch \in Space
  /\ \/ /\ Top.cType = "NAME"
        /\ Go([TakeName(Top) EXCEPT !.cType = "ATTR", !.start = -1, !.attr = <<>>],
              iPos + 1)
     \/ Top.cType # "NAME" /\ Go(Top, iPos + 1)

\* "]]>" ends a CDATA section, unless it ends the text
CDataEnds == iPos + 3 < TextLen /\ Has(iPos, <<"]", "]", ">">>)

CData ==
  /\ In({"CDATA"}) /\ Ch \notin Space
  /\ \/ /\ CDataEnds
        /\ Go([TakeData(Top) EXCEPT !.cType = "DATA", !.start = iPos + 3], iPos + 3)
     \/ ~CDataEnds /\ Go(Top, iPos + 1)

-----------------------------------------------------------------------------
(* The character "<". *)

CommentBegins == iPos + 4 < TextLen /\ Has(iPos, <<"<", "!", "-", "-">>)
CDataBegins == Ch = "C" /\ iPos + 1 < TextLen
DeclarationBegins == \/ Ch = "C" /\ ~CDataBegins
                     \/ Ch = "<" /\ At(iPos + 1) \in {"?", "!"} /\ ~CommentBegins
TagBegins == Ch = "<" /\ At(iPos + 1) \notin {"?", "!"}

BeginComment == /\ Markup /\ CommentBegins
                /\ Go([Top EXCEPT !.cTypeOld = Top.cType, !.cType = "COMMENT"], iPos + 1)

\* Mutant, against InBounds: the section taken to start one character later
BeginCDataLate ==
  /\ Markup /\ CDataBegins
  /\ Go([Top EXCEPT !.cTypeOld = Top.cType, !.cType = "CDATA", !.start = iPos + 2], iPos + 1)

BeginCData ==
  /\ Markup /\ CDataBegins
  /\ LET f == IF Top.cType = "DATA" THEN TakeData(Top) ELSE Top IN
     Go([f EXCEPT !.cTypeOld = Top.cType, !.cType = "CDATA", !.start = iPos + 1], iPos + 1)

BeginDeclaration ==
  /\ Markup /\ DeclarationBegins
  /\ Go([Top EXCEPT !.cTypeOld = Top.cType, !.cType = "DECLARATION"], iPos + 1)

\* Mutant, against Advances: the state NAME entered without passing the "<"
BeginNameHere == /\ Markup /\ TagBegins /\ Top.cType = "NULL"
                 /\ Go([Top EXCEPT !.cType = "NAME", !.start = iPos], iPos)

BeginName == /\ Markup /\ TagBegins /\ Top.cType = "NULL"
             /\ Go([Top EXCEPT !.cType = "NAME", !.start = iPos + 1], iPos + 1)

\* The end tag is compared with the name over the name's length only
EndTagFits(f) == LET n == Len(f.elem.name) IN
  /\ TextLen - (iPos + 2) >= n + 1
  /\ Slice(iPos + 2, iPos + 2 + n) = f.elem.name

EndTag ==
  /\ Markup /\ TagBegins /\ Top.cType # "NULL" /\ At(iPos + 1) = "/"
  /\ LET f == IF Top.cType = "DATA" THEN TakeData(Top) ELSE Top IN
     \/ /\ EndTagFits(f)
        /\ Go([f EXCEPT !.cType = "NAME_END"], iPos + 2 + Len(f.elem.name))
     \/ ~EndTagFits(f) /\ Fail

\* A start tag inside the element: Parse calls itself at this character, and
\* the new call's first turn sees the "<" in the state NULL
Child ==
  /\ Markup /\ TagBegins /\ Top.cType # "NULL" /\ At(iPos + 1) # "/"
  /\ frames' = Append(frames, Frame(iPos, Empty))
  /\ UNCHANGED <<doc, iPos, result>>

-----------------------------------------------------------------------------
(* The character ">". *)

Closed == \/ Top.cType = "NAME_END"
          \/ /\ Top.cType # "NAME"
             /\ iPos - Top.base >= 2
             /\ At(iPos - 1) = "/"

Greater ==
  /\ Markup /\ Ch = ">"
  /\ \/ Closed /\ Return(Top, iPos + 1)
     \/ Top.cType \notin {"NAME", "NAME_END"} /\ iPos - Top.base < 2 /\ Fail
     \/ /\ ~Closed
        /\ Top.cType = "NAME" \/ iPos - Top.base >= 2
        /\ LET f == IF Top.cType = "NAME" THEN TakeName(Top) ELSE Top IN
           Go([f EXCEPT !.cType = "DATA", !.start = iPos + 1], iPos + 1)

-----------------------------------------------------------------------------
(* Any other character. *)

Other == Markup /\ Ch \notin {"<", "C", ">"}
Equals == Ch = "=" /\ Top.attr = <<>>

\* The quoted value ends: the attribute is complete
TakeAttribute(f) ==
  [f EXCEPT !.elem.attrs = InsertAttr(@, f.attr, Slice(f.start, iPos)),
            !.attr = <<>>, !.start = -1]

Attribute ==
  /\ Other /\ Top.cType = "ATTR"
  /\ \/ Top.start = -1 /\ Go([Top EXCEPT !.start = iPos], iPos + 1)
     \/ /\ Top.start # -1 /\ Equals
        /\ \/ At(iPos + 1) # "q" /\ Fail
           \/ /\ At(iPos + 1) = "q"
              /\ Go([Top EXCEPT !.attr = Slice(Top.start, iPos), !.start = iPos + 2],
                    iPos + 2)
     \/ Top.start # -1 /\ ~Equals /\ Ch = "q" /\ Go(TakeAttribute(Top), iPos + 1)
     \/ Top.start # -1 /\ ~Equals /\ Ch # "q" /\ Go(Top, iPos + 1)

Skip == Other /\ Top.cType # "ATTR" /\ Go(Top, iPos + 1)

-----------------------------------------------------------------------------
Init == /\ doc \in Docs
        /\ \E e \in Olds : frames = <<Frame(0, e)>>
        /\ iPos = 0
        /\ result = Running

Next ==
  \/ EndOfText \/ Comment \/ Declaration \/ Blank \/ CData
  \/ BeginComment \/ BeginCData \/ BeginDeclaration \/ BeginName
  \/ EndTag \/ Child \/ Greater \/ Attribute \/ Skip

Spec == Init /\ [][Next]_vars

-----------------------------------------------------------------------------
\* The position never leaves the text, although a turn may skip several
\* characters (XmlElement.cpp:79, 115, 166, 184, 227), and every start that a
\* slice is taken from lies in front of the position: no length handed to
\* append (XmlElement.cpp:100, 113, 131, 152, 191, 226, 232) is negative.
InBounds ==
  /\ iPos \in 0..TextLen
  /\ \A k \in DOMAIN frames :
       LET f == frames[k] IN
       /\ f.cType \in Types /\ f.cTypeOld \in Types
       /\ f.base \in 0..iPos
       /\ f.start \in -1..iPos
       /\ f.cType \in {"NAME", "DATA", "CDATA"} => f.start # -1

\* Every turn of a loop gets on: the position moves forward, or a call is made
\* at a "<" that the caller does not see again, or a call returns.
Advances ==
  [][ \/ iPos' > iPos
      \/ Len(frames') < Len(frames)
      \/ Len(frames') = Len(frames) + 1 /\ frames'[Len(frames')].cType = "NULL"
    ]_vars

=============================================================================
