------------------------------ MODULE XmlProofs ------------------------------
(***************************************************************************)
(* Proofs about the XML parser, for any texts and any searches: the scanner *)
(* stays inside its text, each of its turns gets on, and what it returns is *)
(* in the text; a search looks at every element once, in the order of the   *)
(* text, counts those its names mean and has the one right answer.          *)
(***************************************************************************)
EXTENDS XmlSearch, SequenceTheorems, FiniteSetTheorems, WellFoundedInduction, TLAPS

-----------------------------------------------------------------------------
(* The invariant                                                           *)

\* An element has its four parts, and its name is a text.
ElementOK(e) == /\ DOMAIN e = {"name", "data", "attrs", "kids"}
                /\ e.name \in Seq(STRING)

\* What holds of the locals of a call while the position is n.  A type that will
\* slice from the start has one, also when the end of a comment gives it back.
FrameOK(f, n) ==
  /\ DOMAIN f = {"base", "cType", "cTypeOld", "start", "attr", "elem"}
  /\ ElementOK(f.elem)
  /\ f.cType \in Types /\ f.cTypeOld \in Types
  /\ f.base \in 0..n /\ f.start \in -1..n
  /\ f.cType \in {"NAME", "DATA", "CDATA"} => f.start # -1
  /\ f.cType = "COMMENT" /\ f.cTypeOld \in {"NAME", "DATA", "CDATA"} => f.start # -1

\* The calls in progress are a sequence, of whatever they are elements of.
IsStack == \E F : frames \in Seq(F)

IInv ==
  /\ doc.chars \in Seq(STRING)
  /\ iPos \in 0..TextLen
  /\ IsStack
  /\ \A k \in 1..Len(frames) : FrameOK(frames[k], iPos)

\* What a turn may do, as Advances says.
Progress == \/ iPos' > iPos
            \/ Len(frames') < Len(frames)
            \/ Len(frames') = Len(frames) + 1 /\ frames'[Len(frames')].cType = "NULL"

-----------------------------------------------------------------------------
(* Stacks                                                                  *)

\* A sequence without its last element.
LEMMA FrontOfSeq ==
    ASSUME NEW S, NEW s \in Seq(S), s # <<>>
    PROVE  /\ Len(s) \in Nat \ {0} /\ s[Len(s)] \in S
           /\ SubSeq(s, 1, Len(s) - 1) \in Seq(S)
           /\ Len(SubSeq(s, 1, Len(s) - 1)) = Len(s) - 1
           /\ \A i \in 1..Len(s) - 1 : SubSeq(s, 1, Len(s) - 1)[i] = s[i]
<1>1. Len(s) \in Nat \ {0}
  BY EmptySeq, LenProperties
<1>2. s[Len(s)] \in S
  BY <1>1, ElementOfSeq
<1>3. \A i \in 1..Len(s) - 1 : s[i] \in S
  BY <1>1, ElementOfSeq
<1>4. 1 \in Int /\ Len(s) - 1 \in Int
  BY <1>1
<1>5. SubSeq(s, 1, Len(s) - 1) \in Seq(S)
  BY <1>3, <1>4, SubSeqProperties
<1>6. Len(SubSeq(s, 1, Len(s) - 1)) = Len(s) - 1
  <2>1. \A n \in 0..Len(s) : Len(SubSeq(s, 1, n)) = n
    OBVIOUS
  <2>2. Len(s) - 1 \in 0..Len(s)
    BY <1>1
  <2>3. Len(SubSeq(s, 1, Len(s) - 1)) = Len(s) - 1
    BY <2>1, <2>2, Zenon
  <2>4. QED
    BY <2>3
<1>7. \A i \in 1..Len(s) - 1 : SubSeq(s, 1, Len(s) - 1)[i] = s[i]
  BY <1>1, <1>3, <1>4, SubSeqProperties
<1>8. QED
  BY <1>1, <1>2, <1>5, <1>6, <1>7

\* The innermost call.
LEMMA TopOK ==
  ASSUME IInv, frames # <<>>
  PROVE  Len(frames) \in Nat \ {0} /\ FrameOK(Top, iPos)
<1>1. PICK F : frames \in Seq(F)
  BY DEF IInv, IsStack
<1>2. Len(frames) \in Nat \ {0}
  BY <1>1, EmptySeq
<1>3. QED
  BY <1>2 DEF IInv, Top

\* What holds at a position holds further on.
LEMMA FrameLater ==
  ASSUME NEW f, NEW m \in Nat, NEW n \in Nat, m <= n, FrameOK(f, m)
  PROVE  FrameOK(f, n)
BY DEF FrameOK

\* A caller that adds a child stays right.
LEMMA AdoptOK ==
  ASSUME NEW f, NEW e, NEW n \in Nat, FrameOK(f, n)
  PROVE  FrameOK(Adopt(f, e), n)
BY DEF FrameOK, ElementOK, Adopt, Types

\* The innermost call goes on at n with locals that are right there.
LEMMA GoKeeps ==
  ASSUME IInv, frames # <<>>, NEW f, NEW n \in Nat, iPos < n, n <= TextLen,
         FrameOK(f, n), Go(f, n)
  PROVE  IInv' /\ Progress
<1>1. PICK F : frames \in Seq(F)
  BY DEF IInv, IsStack
<1>2. Len(frames) \in Nat \ {0}
  BY <1>1, EmptySeq
<1>3. frames \in Seq(F \cup {f}) /\ f \in F \cup {f} /\ Len(frames) \in 1..Len(frames)
  BY <1>1, <1>2, SeqDef
<1>4. /\ frames' \in Seq(F \cup {f})
      /\ Len(frames') = Len(frames)
      /\ \A k \in 1..Len(frames) : frames'[k] = IF k = Len(frames) THEN f ELSE frames[k]
  BY <1>3, ExceptSeq DEF Go
<1>5. UNCHANGED doc /\ iPos' = n
  BY DEF Go
<1>6. \A k \in 1..Len(frames') : FrameOK(frames'[k], n)
  BY <1>4, FrameLater DEF IInv, TextLen
<1>7. QED
  BY <1>4, <1>5, <1>6 DEF IInv, IsStack, TextLen, Progress

\* The innermost call returns at n.
LEMMA ReturnKeeps ==
  ASSUME IInv, frames # <<>>, NEW f, NEW n \in Nat, iPos <= n, n <= TextLen, Return(f, n)
  PROVE  IInv' /\ Progress
<1>1. PICK F : frames \in Seq(F)
  BY DEF IInv, IsStack
<1>2. Len(frames) \in Nat \ {0}
  BY <1>1, EmptySeq
<1>3. UNCHANGED doc /\ iPos' = n
  BY DEF Return
<1>4. CASE Len(frames) = 1
  <2>1. frames' = <<>>
    BY <1>4 DEF Return
  <2>2. frames' \in Seq(F) /\ Len(frames') = 0
    BY <2>1, EmptySeq
  <2>3. QED
    BY <1>2, <1>3, <2>2 DEF IInv, IsStack, TextLen, Progress
<1>5. CASE Len(frames) # 1
  <2> DEFINE rest == SubSeq(frames, 1, Len(frames) - 1)
             caller == rest[Len(rest)]
             back == Adopt(caller, f.elem)
  <2>1. /\ rest \in Seq(F) /\ Len(rest) = Len(frames) - 1
        /\ \A k \in 1..Len(frames) - 1 : rest[k] = frames[k]
    BY <1>1, FrontOfSeq
  <2>2. frames' = [rest EXCEPT ![Len(rest)] = back]
    BY <1>5 DEF Return
  <2>3. FrameOK(caller, iPos) /\ Len(rest) \in 1..Len(rest)
    BY <1>2, <1>5, <2>1 DEF IInv
  <2>4. FrameOK(back, n)
    <3>1. FrameOK(caller, n)
      BY <2>3, FrameLater DEF IInv, TextLen
    <3>2. QED
      BY <3>1, AdoptOK
  <2>5. /\ frames' \in Seq(F \cup {back}) /\ Len(frames') = Len(rest)
        /\ \A k \in 1..Len(rest) : frames'[k] = IF k = Len(rest) THEN back ELSE rest[k]
    <3> HIDE DEF rest, back, caller
    <3>1. rest \in Seq(F \cup {back}) /\ back \in F \cup {back}
      BY <2>1, SeqDef
    <3>2. QED
      BY <2>2, <2>3, <3>1, ExceptSeq
  <2>6. \A k \in 1..Len(frames') : FrameOK(frames'[k], n)
    <3> HIDE DEF rest, back, caller
    <3>1. SUFFICES ASSUME NEW k \in 1..Len(frames') PROVE FrameOK(frames'[k], n)
      OBVIOUS
    <3>2. k \in 1..Len(rest)
      BY <2>5
    <3>3. CASE k = Len(rest)
      BY <2>4, <2>5, <3>2, <3>3
    <3>4. CASE k # Len(rest)
      <4>1. frames'[k] = rest[k]
        BY <2>5, <3>2, <3>4
      <4>2. k \in 1..Len(frames) - 1
        BY <2>1, <3>2
      <4>3. frames'[k] = frames[k]
        BY <2>1, <4>1, <4>2
      <4>4. k \in 1..Len(frames)
        BY <1>2, <4>2
      <4>5. FrameOK(frames[k], iPos) /\ iPos \in Nat
        BY <4>4 DEF IInv, TextLen
      <4>6. QED
        BY <4>3, <4>5, FrameLater
    <3>5. QED
      BY <3>3, <3>4
  <2>7. QED
    BY <1>2, <1>3, <2>1, <2>5, <2>6 DEF IInv, IsStack, TextLen, Progress
<1>6. QED
  BY <1>4, <1>5

\* return -1 leaves no call.
LEMMA FailKeeps ==
  ASSUME IInv, frames # <<>>, Fail
  PROVE  IInv' /\ Progress
<1>1. frames' = <<>> /\ UNCHANGED <<doc, iPos>>
  BY DEF Fail
<1>2. frames' \in Seq({}) /\ Len(frames') = 0
  BY <1>1, EmptySeq
<1>3. QED
  BY <1>1, <1>2, TopOK DEF IInv, IsStack, TextLen, Progress

-----------------------------------------------------------------------------
(* Slices and the locals the cases of the loop leave                       *)

\* What a slice from the start to the position holds is text.
LEMMA SliceIsText ==
  ASSUME IInv, NEW a \in 0..iPos
  PROVE  Slice(a, iPos) \in Seq(STRING)
<1>1. \A i \in a + 1..iPos : doc.chars[i] \in STRING
  BY ElementOfSeq DEF IInv, TextLen
<1>2. a + 1 \in Int /\ iPos \in Int
  BY DEF IInv
<1>3. SubSeq(doc.chars, a + 1, iPos) \in Seq(STRING)
  BY <1>1, <1>2, SubSeqProperties DEF IInv
<1>4. QED
  BY <1>3 DEF Slice

\* The length of the text, and the character at a position in front of its end.
LEMMA TextOK ==
  ASSUME IInv
  PROVE  /\ TextLen \in Nat /\ iPos \in Nat /\ iPos <= TextLen
         /\ \A i \in Nat : At(i) # "end" => i < TextLen
BY LenProperties DEF IInv, TextLen, At

\* What TakeName leaves is right.
LEMMA TakeNameOK ==
  ASSUME IInv, NEW f, FrameOK(f, iPos), f.cType = "NAME"
  PROVE  FrameOK(TakeName(f), iPos) /\ TakeName(f).cType = f.cType
<1>1. f.start \in 0..iPos
  BY TextOK DEF FrameOK
<1>2. f.elem.name \o Slice(f.start, iPos) \in Seq(STRING)
  BY <1>1, SliceIsText, ConcatProperties DEF FrameOK, ElementOK
<1>3. QED
  BY <1>2 DEF FrameOK, ElementOK, TakeName, Types

\* What TakeData leaves is right.
LEMMA TakeDataOK ==
  ASSUME NEW f, FrameOK(f, iPos)
  PROVE  /\ FrameOK(TakeData(f), iPos)
         /\ TakeData(f).cType = f.cType /\ TakeData(f).elem.name = f.elem.name
BY DEF FrameOK, ElementOK, TakeData, Types

\* The locals with which data, when it ends here, has been taken.
LEMMA EndDataOK ==
  ASSUME IInv, frames # <<>>
  PROVE  LET f == IF Top.cType = "DATA" THEN TakeData(Top) ELSE Top IN
         FrameOK(f, iPos) /\ f.cType = Top.cType
BY TopOK, TakeDataOK

\* What holds of the locals in a case of the loop.
LEMMA TurnOK ==
  ASSUME IInv, Scanning
  PROVE  /\ frames # <<>> /\ FrameOK(Top, iPos) /\ iPos \in Nat /\ TextLen \in Nat
         /\ iPos + 1 \in Nat /\ iPos < iPos + 1 /\ iPos + 1 <= TextLen
BY TopOK, TextOK DEF Scanning

-----------------------------------------------------------------------------
(* The cases of the loop                                                   *)

LEMMA EndOfTextStep == ASSUME IInv, EndOfText PROVE IInv' /\ Progress
BY ReturnKeeps, TextOK DEF EndOfText

LEMMA CommentStep == ASSUME IInv, Comment PROVE IInv' /\ Progress
<1>1. Scanning /\ Top.cType = "COMMENT"
  BY DEF Comment, In
<1>2. CASE CommentEnds /\ Go([Top EXCEPT !.cType = Top.cTypeOld], iPos + 3)
  <2>1. iPos + 3 \in Nat /\ iPos < iPos + 3 /\ iPos + 3 <= TextLen
    BY <1>1, <1>2, TurnOK DEF CommentEnds
  <2>2. FrameOK([Top EXCEPT !.cType = Top.cTypeOld], iPos + 3)
    BY <1>1, TurnOK DEF FrameOK, ElementOK, Types
  <2>3. QED
    BY <1>1, <1>2, <2>1, <2>2, TurnOK, GoKeeps
<1>3. CASE ~CommentEnds /\ Go(Top, iPos + 1)
  <2>1. FrameOK(Top, iPos + 1)
    BY <1>1, TurnOK, FrameLater
  <2>2. QED
    BY <1>1, <1>3, <2>1, TurnOK, GoKeeps
<1>4. QED
  BY <1>2, <1>3 DEF Comment

LEMMA DeclarationStep == ASSUME IInv, Declaration PROVE IInv' /\ Progress
<1>1. Scanning /\ Top.cType = "DECLARATION"
  BY DEF Declaration, In
<1> DEFINE f == [Top EXCEPT !.cType = IF Ch = ">" THEN "NULL" ELSE @]
<1>2. FrameOK(f, iPos + 1)
  BY <1>1, TurnOK DEF FrameOK, ElementOK, Types
<1>3. Go(f, iPos + 1)
  BY DEF Declaration
<1>4. QED
  BY <1>1, <1>2, <1>3, TurnOK, GoKeeps

LEMMA BlankStep == ASSUME IInv, Blank PROVE IInv' /\ Progress
<1>1. Scanning
  BY DEF Blank, Plain, In
<1>2. CASE /\ Top.cType = "NAME"
           /\ Go([TakeName(Top) EXCEPT !.cType = "ATTR", !.start = -1, !.attr = <<>>],
                 iPos + 1)
  <2> DEFINE g == TakeName(Top)
             f == [g EXCEPT !.cType = "ATTR", !.start = -1, !.attr = <<>>]
  <2>1. FrameOK(g, iPos)
    BY <1>1, <1>2, TurnOK, TakeNameOK
  <2>2. Go(f, iPos + 1)
    BY <1>2
  <2>3. FrameOK(f, iPos + 1)
    <3> HIDE DEF g
    <3>1. QED
      BY <1>1, <2>1, TurnOK DEF FrameOK, ElementOK, Types
  <2>4. QED
    BY <1>1, <2>2, <2>3, TurnOK, GoKeeps
<1>3. CASE Top.cType # "NAME" /\ Go(Top, iPos + 1)
  <2>1. FrameOK(Top, iPos + 1)
    BY <1>1, TurnOK, FrameLater
  <2>2. QED
    BY <1>1, <1>3, <2>1, TurnOK, GoKeeps
<1>4. QED
  BY <1>2, <1>3 DEF Blank

LEMMA CDataStep == ASSUME IInv, CData PROVE IInv' /\ Progress
<1>1. Scanning
  BY DEF CData, In
<1>2. CASE /\ CDataEnds
           /\ Go([TakeData(Top) EXCEPT !.cType = "DATA", !.start = iPos + 3], iPos + 3)
  <2> DEFINE g == TakeData(Top)
             f == [g EXCEPT !.cType = "DATA", !.start = iPos + 3]
  <2>1. FrameOK(g, iPos)
    BY <1>1, TurnOK, TakeDataOK
  <2>2. iPos + 3 \in Nat /\ iPos < iPos + 3 /\ iPos + 3 <= TextLen
    BY <1>1, <1>2, TurnOK DEF CDataEnds
  <2>3. Go(f, iPos + 3)
    BY <1>2
  <2>4. FrameOK(f, iPos + 3)
    <3> HIDE DEF g
    <3>1. QED
      BY <1>1, <2>1, TurnOK DEF FrameOK, ElementOK, Types
  <2>5. QED
    BY <1>1, <2>2, <2>3, <2>4, TurnOK, GoKeeps
<1>3. CASE ~CDataEnds /\ Go(Top, iPos + 1)
  <2>1. FrameOK(Top, iPos + 1)
    BY <1>1, TurnOK, FrameLater
  <2>2. QED
    BY <1>1, <1>3, <2>1, TurnOK, GoKeeps
<1>4. QED
  BY <1>2, <1>3 DEF CData

LEMMA BeginCommentStep == ASSUME IInv, BeginComment PROVE IInv' /\ Progress
<1>1. Scanning /\ Top.cType # "COMMENT"
  BY DEF BeginComment, Markup, Plain, In
<1> DEFINE f == [Top EXCEPT !.cTypeOld = Top.cType, !.cType = "COMMENT"]
<1>2. FrameOK(f, iPos + 1)
  BY <1>1, TurnOK DEF FrameOK, ElementOK, Types
<1>3. Go(f, iPos + 1)
  BY DEF BeginComment
<1>4. QED
  BY <1>1, <1>2, <1>3, TurnOK, GoKeeps

LEMMA BeginCDataStep == ASSUME IInv, BeginCData PROVE IInv' /\ Progress
<1>1. Scanning
  BY DEF BeginCData, Markup, Plain, In
<1> DEFINE g == IF Top.cType = "DATA" THEN TakeData(Top) ELSE Top
           f == [g EXCEPT !.cTypeOld = Top.cType, !.cType = "CDATA", !.start = iPos + 1]
<1>2. FrameOK(g, iPos) /\ Top.cType \in Types
  BY <1>1, TurnOK, EndDataOK DEF FrameOK
<1>3. Go(f, iPos + 1)
  BY DEF BeginCData
<1>4. FrameOK(f, iPos + 1)
  <2> HIDE DEF g
  <2>1. QED
    BY <1>1, <1>2, TurnOK DEF FrameOK, ElementOK, Types
<1>5. QED
  BY <1>1, <1>3, <1>4, TurnOK, GoKeeps

LEMMA BeginDeclarationStep == ASSUME IInv, BeginDeclaration PROVE IInv' /\ Progress
<1>1. Scanning
  BY DEF BeginDeclaration, Markup, Plain, In
<1> DEFINE f == [Top EXCEPT !.cTypeOld = Top.cType, !.cType = "DECLARATION"]
<1>2. FrameOK(f, iPos + 1)
  BY <1>1, TurnOK DEF FrameOK, ElementOK, Types
<1>3. Go(f, iPos + 1)
  BY DEF BeginDeclaration
<1>4. QED
  BY <1>1, <1>2, <1>3, TurnOK, GoKeeps

LEMMA BeginNameStep == ASSUME IInv, BeginName PROVE IInv' /\ Progress
<1>1. Scanning
  BY DEF BeginName, Markup, Plain, In
<1> DEFINE f == [Top EXCEPT !.cType = "NAME", !.start = iPos + 1]
<1>2. FrameOK(f, iPos + 1)
  BY <1>1, TurnOK DEF FrameOK, ElementOK, Types
<1>3. Go(f, iPos + 1)
  BY DEF BeginName
<1>4. QED
  BY <1>1, <1>2, <1>3, TurnOK, GoKeeps

LEMMA EndTagStep == ASSUME IInv, EndTag PROVE IInv' /\ Progress
<1>1. Scanning
  BY DEF EndTag, Markup, Plain, In
<1> DEFINE g == IF Top.cType = "DATA" THEN TakeData(Top) ELSE Top
           n == iPos + 2 + Len(g.elem.name)
           f == [g EXCEPT !.cType = "NAME_END"]
<1>2. FrameOK(g, iPos)
  BY <1>1, TurnOK, EndDataOK
<1>3. CASE EndTagFits(g) /\ Go(f, n)
  <2>1. Len(g.elem.name) \in Nat
    BY <1>2, LenProperties DEF FrameOK, ElementOK
  <2>2. TextLen - (iPos + 2) >= Len(g.elem.name) + 1
    BY <1>3 DEF EndTagFits
  <2>3. n \in Nat /\ iPos < n /\ n <= TextLen
    <3> HIDE DEF g
    <3>1. QED
      BY <1>1, <2>1, <2>2, TurnOK
  <2>4. FrameOK(g, n)
    BY <1>1, <1>2, <2>3, TurnOK, FrameLater
  <2>5. FrameOK(f, n)
    <3> HIDE DEF g, n
    <3>1. QED
      BY <2>3, <2>4 DEF FrameOK, ElementOK, Types
  <2>6. QED
    <3> HIDE DEF f, n
    <3>1. QED
      BY <1>1, <1>3, <2>3, <2>5, TurnOK, GoKeeps
<1>4. CASE ~EndTagFits(g) /\ Fail
  BY <1>1, <1>4, TurnOK, FailKeeps
<1>5. (EndTagFits(g) /\ Go(f, n)) \/ (~EndTagFits(g) /\ Fail)
  BY DEF EndTag
<1>6. QED
  BY <1>3, <1>4, <1>5

\* The locals of a new call are right at its first character.
LEMMA FrameIsOK ==
  ASSUME NEW base \in Nat, NEW e, DOMAIN e = {"name", "data", "attrs", "kids"}
  PROVE  FrameOK(Frame(base, e), base) /\ Frame(base, e).cType = "NULL"
<1>1. <<>> \in Seq(STRING)
  BY EmptySeq
<1>2. ElementOK(Clear(e))
  BY <1>1 DEF ElementOK, Clear
<1>3. QED
  BY <1>2 DEF FrameOK, Frame, Types

LEMMA ChildStep == ASSUME IInv, Child PROVE IInv' /\ Progress
<1>1. Scanning
  BY DEF Child, Markup, Plain, In
<1>2. PICK F : frames \in Seq(F)
  BY DEF IInv, IsStack
<1> DEFINE f == Frame(iPos, Empty)
<1>3. FrameOK(f, iPos) /\ f.cType = "NULL"
  <2>1. DOMAIN Empty = {"name", "data", "attrs", "kids"}
    BY DEF Empty
  <2>2. QED
    BY <1>1, <2>1, TurnOK, FrameIsOK
<1>4. frames' = Append(frames, f) /\ UNCHANGED <<doc, iPos>>
  BY DEF Child
<1> HIDE DEF f
<1>5. frames \in Seq(F \cup {f}) /\ f \in F \cup {f} /\ Len(frames) \in Nat
  BY <1>2, SeqDef, LenProperties
<1>6. /\ frames' \in Seq(F \cup {f}) /\ Len(frames') = Len(frames) + 1
      /\ \A k \in 1..Len(frames) : frames'[k] = frames[k]
      /\ frames'[Len(frames) + 1] = f
  BY <1>4, <1>5, AppendProperties
<1>7. \A k \in 1..Len(frames') : FrameOK(frames'[k], iPos)
  BY <1>3, <1>5, <1>6 DEF IInv
<1>8. IInv'
  BY <1>4, <1>6, <1>7 DEF IInv, IsStack, TextLen
<1>9. QED
  BY <1>3, <1>6, <1>8 DEF Progress

LEMMA GreaterStep == ASSUME IInv, Greater PROVE IInv' /\ Progress
<1>1. Scanning
  BY DEF Greater, Markup, Plain, In
<1>2. CASE Closed /\ Return(Top, iPos + 1)
  BY <1>1, <1>2, TurnOK, ReturnKeeps
<1>3. CASE Fail
  BY <1>1, <1>3, TurnOK, FailKeeps
<1> DEFINE g == IF Top.cType = "NAME" THEN TakeName(Top) ELSE Top
           f == [g EXCEPT !.cType = "DATA", !.start = iPos + 1]
<1>4. CASE Go(f, iPos + 1)
  <2>1. FrameOK(g, iPos)
    BY <1>1, TurnOK, TakeNameOK
  <2>2. FrameOK(f, iPos + 1)
    <3> HIDE DEF g
    <3>1. QED
      BY <1>1, <2>1, TurnOK DEF FrameOK, ElementOK, Types
  <2>3. QED
    BY <1>1, <1>4, <2>2, TurnOK, GoKeeps
<1>5. (Closed /\ Return(Top, iPos + 1)) \/ Fail \/ Go(f, iPos + 1)
  BY DEF Greater
<1>6. QED
  BY <1>2, <1>3, <1>4, <1>5

LEMMA AttributeStep == ASSUME IInv, Attribute PROVE IInv' /\ Progress
<1>1. Scanning /\ Top.cType = "ATTR"
  BY DEF Attribute, Other, Markup, Plain, In
<1>2. CASE Go([Top EXCEPT !.start = iPos], iPos + 1)
  <2>1. FrameOK([Top EXCEPT !.start = iPos], iPos + 1)
    BY <1>1, TurnOK DEF FrameOK, ElementOK, Types
  <2>2. QED
    BY <1>1, <1>2, <2>1, TurnOK, GoKeeps
<1>3. CASE Fail
  BY <1>1, <1>3, TurnOK, FailKeeps
<1>4. CASE /\ At(iPos + 1) = "q"
           /\ Go([Top EXCEPT !.attr = Slice(Top.start, iPos), !.start = iPos + 2], iPos + 2)
  <2>1. iPos + 2 \in Nat /\ iPos < iPos + 2 /\ iPos + 2 <= TextLen
    BY <1>1, <1>4, TurnOK, TextOK
  <2>2. FrameOK([Top EXCEPT !.attr = Slice(Top.start, iPos), !.start = iPos + 2], iPos + 2)
    BY <1>1, TurnOK DEF FrameOK, ElementOK, Types
  <2>3. QED
    BY <1>1, <1>4, <2>1, <2>2, TurnOK, GoKeeps
<1>5. CASE Go(TakeAttribute(Top), iPos + 1)
  <2>1. FrameOK(TakeAttribute(Top), iPos + 1)
    BY <1>1, TurnOK DEF FrameOK, ElementOK, TakeAttribute, Types
  <2>2. QED
    BY <1>1, <1>5, <2>1, TurnOK, GoKeeps
<1>6. CASE Go(Top, iPos + 1)
  <2>1. FrameOK(Top, iPos + 1)
    BY <1>1, TurnOK, FrameLater
  <2>2. QED
    BY <1>1, <1>6, <2>1, TurnOK, GoKeeps
<1>7. QED
  BY <1>2, <1>3, <1>4, <1>5, <1>6 DEF Attribute

LEMMA SkipStep == ASSUME IInv, Skip PROVE IInv' /\ Progress
<1>1. Scanning /\ Go(Top, iPos + 1)
  BY DEF Skip, Other, Markup, Plain, In
<1>2. FrameOK(Top, iPos + 1)
  BY <1>1, TurnOK, FrameLater
<1>3. QED
  BY <1>1, <1>2, TurnOK, GoKeeps

-----------------------------------------------------------------------------
(* The theorems                                                            *)

LEMMA InitIInv == Init => IInv
<1> SUFFICES ASSUME Init PROVE IInv
  OBVIOUS
<1>1. doc.chars \in Seq(STRING) /\ iPos = 0
  BY XmlAssumption DEF Init
<1>2. TextLen \in Nat
  BY <1>1, LenProperties DEF TextLen
<1>3. PICK e \in Olds : frames = <<Frame(0, e)>>
  BY DEF Init
<1>4. FrameOK(Frame(0, e), 0)
  BY XmlAssumption, FrameIsOK
<1> DEFINE f == Frame(0, e)
<1> HIDE DEF f
<1>5. <<f>> \in Seq({f}) /\ Len(<<f>>) = 1 /\ <<f>>[1] = f
  OBVIOUS
<1>6. frames \in Seq({f}) /\ Len(frames) = 1 /\ frames[1] = f
  BY <1>3, <1>5 DEF f
<1>7. \A k \in 1..Len(frames) : FrameOK(frames[k], iPos)
  BY <1>1, <1>4, <1>6 DEF f
<1>8. QED
  BY <1>1, <1>2, <1>6, <1>7 DEF IInv, IsStack

LEMMA NextIInv == IInv /\ [Next]_vars => IInv' /\ (Progress \/ UNCHANGED vars)
<1> SUFFICES ASSUME IInv, [Next]_vars PROVE IInv' /\ (Progress \/ UNCHANGED vars)
  OBVIOUS
<1>1. CASE Next
  BY <1>1, EndOfTextStep, CommentStep, DeclarationStep, BlankStep, CDataStep,
     BeginCommentStep, BeginCDataStep, BeginDeclarationStep, BeginNameStep,
     EndTagStep, ChildStep, GreaterStep, AttributeStep, SkipStep DEF Next
<1>2. CASE UNCHANGED vars
  BY <1>2 DEF vars, IInv, IsStack, TextLen
<1>3. QED
  BY <1>1, <1>2

LEMMA IInvHolds == Spec => []IInv
BY InitIInv, NextIInv, PTL DEF Spec

\* The position stays in the text, and what is sliced from it too, for any text and
\* whatever the object held (XmlElement.cpp:60-243).
THEOREM StaysInText == Spec => []InBounds
<1>1. IInv => InBounds
  <2> SUFFICES ASSUME IInv PROVE InBounds
    OBVIOUS
  <2>1. DOMAIN frames = 1..Len(frames)
    BY LenProperties DEF IInv, IsStack
  <2>2. \A k \in DOMAIN frames : FrameOK(frames[k], iPos)
    BY <2>1 DEF IInv
  <2>3. QED
    BY <2>2 DEF IInv, InBounds, FrameOK
<1>2. QED
  BY <1>1, IInvHolds, PTL

\* No turn of a loop leaves everything as it was: what the loop and the recursion of
\* Parse rest on to end, for any text (XmlElement.cpp:71, 178).
THEOREM EveryTurnAdvances == Spec => Advances
<1>1. IInv /\ [Next]_vars => [Progress]_vars
  BY NextIInv
<1>2. QED
  BY <1>1, IInvHolds, PTL DEF Spec, Advances, Progress

-----------------------------------------------------------------------------
(* What is read is in the text                                             *)

\* s is part of the text t between p and q, in its order, perhaps with gaps.
Within(t, s, p, q) ==
  /\ p \in Nat /\ q \in Nat /\ p <= q /\ s \in Seq(STRING)
  /\ \E at \in [1..Len(s) -> p + 1..q] :
        /\ \A i, j \in 1..Len(s) : i < j => at[i] < at[j]
        /\ \A i \in 1..Len(s) : s[i] = t[at[i]]

\* The name, the data and the attributes of e are between p and q, each value behind
\* its name.
Own(t, e, p, q) ==
  /\ Within(t, e.name, p, q) /\ Within(t, e.data, p, q)
  /\ \A a \in e.attrs : \E m \in Nat : Within(t, a[1], p, m) /\ Within(t, a[2], m, q)

\* Children come from parts between p and q that follow one another.
Chain(kids, parts, p, q) ==
  /\ kids = [k \in 1..Len(parts) |-> parts[k].elem]
  /\ \A k \in 1..Len(parts) :
        /\ p < parts[k].from /\ parts[k].to <= q
        /\ \A j \in 1..k - 1 : parts[j].to <= parts[k].from

\* Elements with the parts of the text they come from, and with them their children.
Nested(t, S) ==
  \A x \in S : /\ x.from \in Nat /\ x.to \in Nat /\ x.from <= x.to
               /\ Own(t, x.elem, x.from, x.to)
               /\ \E parts \in Seq(S) : Chain(x.elem.kids, parts, x.from, x.to)

\* e is an element of the text t between p and q.
ReadIn(t, e, p, q) == \E S : Nested(t, S) /\ [elem |-> e, from |-> p, to |-> q] \in S

\* The children of a call that began at p and is at q.
KidsIn(t, kids, p, q) ==
  \E S : Nested(t, S) /\ \E parts \in Seq(S) : Chain(kids, parts, p, q)

\* Nothing is part of any text.
LEMMA WithinNothing ==
  ASSUME NEW t, NEW p \in Nat, NEW q \in Nat, p <= q
  PROVE  Within(t, <<>>, p, q)
<1>1. <<>> \in Seq(STRING) /\ Len(<<>>) = 0
  BY EmptySeq
<1> DEFINE n == Len(<<>>)
           at == [i \in 1..n |-> q]
<1>2. n = 0
  BY <1>1
<1> HIDE DEF n
<1>3. at \in [1..n -> p + 1..q] /\ \A i \in 1..n : FALSE
  BY <1>2
<1> HIDE DEF at
<1>4. \E f \in [1..n -> p + 1..q] :
        /\ \A i, j \in 1..n : i < j => f[i] < f[j]
        /\ \A i \in 1..n : <<>>[i] = t[f[i]]
  BY <1>3
<1>5. QED
  BY <1>1, <1>4 DEF Within, n

\* What is read up to m is read up to any later character.
LEMMA WithinLater ==
  ASSUME NEW t, NEW s, NEW p, NEW m, NEW q \in Nat, m <= q, Within(t, s, p, m)
  PROVE  Within(t, s, p, q)
<1>1. PICK at \in [1..Len(s) -> p + 1..m] :
        /\ \A i, j \in 1..Len(s) : i < j => at[i] < at[j]
        /\ \A i \in 1..Len(s) : s[i] = t[at[i]]
  BY DEF Within
<1>2. p \in Nat /\ m \in Nat /\ p <= m
  BY DEF Within
<1>3. at \in [1..Len(s) -> p + 1..q] /\ p <= q
  BY <1>1, <1>2
<1>4. QED
  BY <1>1, <1>3 DEF Within

\* A slice behind a part makes a longer part.
LEMMA WithinLonger ==
  ASSUME NEW t \in Seq(STRING), NEW s, NEW p, NEW m, Within(t, s, p, m),
         NEW a \in Nat, NEW b \in Nat, m <= a, a <= b, b <= Len(t)
  PROVE  Within(t, s \o SubSeq(t, a + 1, b), p, b)
<1> DEFINE new == SubSeq(t, a + 1, b)
           long == s \o new
<1>1. PICK at \in [1..Len(s) -> p + 1..m] :
        /\ \A i, j \in 1..Len(s) : i < j => at[i] < at[j]
        /\ \A i \in 1..Len(s) : s[i] = t[at[i]]
  BY DEF Within
<1>2. p \in Nat /\ m \in Nat /\ p <= m /\ s \in Seq(STRING) /\ Len(s) \in Nat
  BY LenProperties DEF Within
<1>3. /\ new \in Seq(STRING) /\ Len(new) = b - a
      /\ \A i \in 1..b - a : new[i] = t[a + i]
  <2>1. Len(t) \in Nat
    BY LenProperties
  <2>2. \A i \in a + 1..b : i \in 1..Len(t)
    BY <2>1
  <2>3. \A i \in a + 1..b : t[i] \in STRING
    BY <2>2, ElementOfSeq
  <2>4. /\ new \in Seq(STRING) /\ Len(new) = IF a + 1 <= b THEN b - (a + 1) + 1 ELSE 0
        /\ \A i \in 1..b - (a + 1) + 1 : new[i] = t[a + 1 + i - 1]
    <3>1. a + 1 \in Int /\ b \in Int
      OBVIOUS
    <3>2. QED
      BY <2>3, <3>1, SubSeqProperties
  <2> HIDE DEF new
  <2>5. b - (a + 1) + 1 = b - a /\ \A i \in 1..b - a : a + 1 + i - 1 = a + i
    OBVIOUS
  <2>6. QED
    BY <2>4, <2>5
<1> HIDE DEF new
<1>4. /\ long \in Seq(STRING) /\ Len(long) = Len(s) + (b - a)
      /\ \A i \in 1..Len(s) + (b - a) : long[i] = IF i <= Len(s) THEN s[i] ELSE new[i - Len(s)]
  <2>1. /\ long \in Seq(STRING) /\ Len(long) = Len(s) + Len(new)
        /\ \A i \in 1..Len(s) + Len(new) :
             long[i] = IF i <= Len(s) THEN s[i] ELSE new[i - Len(s)]
    BY <1>2, <1>3, ConcatProperties
  <2> HIDE DEF long
  <2>2. QED
    BY <1>3, <2>1
<1> HIDE DEF long
<1> DEFINE n == Len(s)
           to == [i \in 1..n + (b - a) |-> IF i <= n THEN at[i] ELSE a + (i - n)]
<1>n. /\ n \in Nat /\ Len(long) = n + (b - a) /\ Len(long) \in Nat
      /\ \A i \in 1..n : at[i] \in Nat /\ p + 1 <= at[i] /\ at[i] <= m
      /\ \A i \in 1..Len(long) : long[i] = IF i <= n THEN s[i] ELSE new[i - n]
  <2>1. \A i \in 1..Len(s) : at[i] \in p + 1..m
    BY <1>1
  <2>2. n \in Nat /\ b - a \in Nat
    BY <1>2
  <2>3. Len(long) = n + (b - a) /\ Len(long) \in Nat
    BY <1>4, <2>2
  <2>4. \A i \in 1..n : at[i] \in Nat /\ p + 1 <= at[i] /\ at[i] <= m
    BY <1>2, <2>1
  <2>5. \A i \in 1..Len(long) : long[i] = IF i <= n THEN s[i] ELSE new[i - n]
    BY <1>4
  <2>6. QED
    BY <2>2, <2>3, <2>4, <2>5
<1>a. /\ \A i, j \in 1..n : i < j => at[i] < at[j]
      /\ \A i \in 1..n : s[i] = t[at[i]]
  BY <1>1
<1> HIDE DEF n
<1>t. /\ \A i \in 1..Len(long) : to[i] = IF i <= n THEN at[i] ELSE a + (i - n)
      /\ DOMAIN to = 1..Len(long) /\ to = [i \in 1..Len(long) |-> to[i]]
  BY <1>n
<1> HIDE DEF to
<1>5. to \in [1..Len(long) -> p + 1..b]
  <2>1. ASSUME NEW i \in 1..Len(long) PROVE to[i] \in p + 1..b
    <3>1. CASE i <= n
      BY <1>2, <1>n, <1>t, <3>1
    <3>2. CASE i > n
      BY <1>2, <1>n, <1>t, <3>2
    <3>3. QED
      BY <1>n, <3>1, <3>2
  <2>2. QED
    BY <1>t, <2>1
<1>6. ASSUME NEW i \in 1..Len(long), NEW j \in 1..Len(long), i < j
      PROVE  to[i] < to[j]
  <2>1. CASE j <= n
    <3>1. i \in 1..n /\ j \in 1..n /\ i <= n
      BY <1>n, <1>6, <2>1
    <3>2. to[i] = at[i] /\ to[j] = at[j]
      BY <1>t, <2>1, <3>1
    <3>3. QED
      BY <1>a, <1>6, <3>1, <3>2
  <2>2. CASE i > n
    BY <1>n, <1>t, <1>6, <2>2
  <2>3. CASE i <= n /\ j > n
    <3>1. i \in 1..n /\ ~(j <= n) /\ j - n \in Nat /\ j - n >= 1
      BY <1>n, <2>3
    <3>2. to[i] = at[i] /\ to[j] = a + (j - n)
      BY <1>t, <2>3, <3>1
    <3>3. at[i] \in Nat /\ at[i] <= m
      BY <1>n, <3>1
    <3>4. QED
      BY <1>2, <3>1, <3>2, <3>3
  <2>4. QED
    BY <1>n, <2>1, <2>2, <2>3
<1>7. ASSUME NEW i \in 1..Len(long) PROVE long[i] = t[to[i]]
  <2>1. CASE i <= n
    <3>1. i \in 1..n /\ long[i] = s[i]
      BY <1>n, <2>1
    <3>2. to[i] = at[i]
      BY <1>t, <2>1
    <3>3. s[i] = t[at[i]]
      BY <1>a, <3>1
    <3>4. QED
      BY <3>1, <3>2, <3>3
  <2>2. CASE i > n
    <3>1. i - n \in 1..b - a /\ to[i] = a + (i - n) /\ long[i] = new[i - n]
      BY <1>n, <1>t, <2>2
    <3>2. QED
      BY <1>3, <3>1
  <2>3. QED
    BY <1>n, <2>1, <2>2
<1>8. p \in Nat /\ p <= b
  BY <1>2
<1>9. Within(t, long, p, b)
  BY <1>4, <1>5, <1>6, <1>7, <1>8 DEF Within
<1>10. QED
  BY <1>9 DEF long, new

\* A slice is part of the text.
LEMMA SliceWithin ==
  ASSUME NEW t \in Seq(STRING), NEW a \in Nat, NEW b \in Nat, a <= b, b <= Len(t)
  PROVE  Within(t, SubSeq(t, a + 1, b), a, b)
<1>1. Within(t, <<>>, a, a)
  BY WithinNothing
<1>2. Within(t, <<>> \o SubSeq(t, a + 1, b), a, b)
  <2>1. a \in Nat /\ a <= a
    OBVIOUS
  <2>2. QED
    BY <1>1, <2>1, WithinLonger, Zenon
<1>3. SubSeq(t, a + 1, b) \in Seq(STRING)
  <2>1. Len(t) \in Nat
    BY LenProperties
  <2>2. \A i \in a + 1..b : i \in 1..Len(t)
    BY <2>1
  <2>3. \A i \in a + 1..b : t[i] \in STRING
    BY <2>2, ElementOfSeq
  <2>4. a + 1 \in Int /\ b \in Int
    OBVIOUS
  <2>5. QED
    BY <2>3, <2>4, SubSeqProperties
<1> DEFINE new == SubSeq(t, a + 1, b)
<1> HIDE DEF new
<1>4. <<>> \o new = new
  BY <1>3, ConcatEmptySeq DEF new
<1>5. QED
  BY <1>2, <1>4 DEF new

\* Two trees, each with its parts, are a forest with its parts.
LEMMA NestedTogether ==
  ASSUME NEW t, NEW S, NEW R, Nested(t, S), Nested(t, R)
  PROVE  Nested(t, S \cup R)
<1> SUFFICES ASSUME NEW x \in S \cup R
             PROVE  /\ x.from \in Nat /\ x.to \in Nat /\ x.from <= x.to
                    /\ Own(t, x.elem, x.from, x.to)
                    /\ \E parts \in Seq(S \cup R) : Chain(x.elem.kids, parts, x.from, x.to)
  BY DEF Nested
<1>1. /\ x.from \in Nat /\ x.to \in Nat /\ x.from <= x.to
      /\ Own(t, x.elem, x.from, x.to)
      /\ (\E parts \in Seq(S) : Chain(x.elem.kids, parts, x.from, x.to))
         \/ (\E parts \in Seq(R) : Chain(x.elem.kids, parts, x.from, x.to))
  BY DEF Nested
<1>2. Seq(S) \subseteq Seq(S \cup R) /\ Seq(R) \subseteq Seq(S \cup R)
  BY SeqMonotonic
<1>3. QED
  BY <1>1, <1>2

\* A call that has just begun has no children.
LEMMA KidsNone ==
  ASSUME NEW t, NEW p, NEW q
  PROVE  KidsIn(t, <<>>, p, q)
<1>1. <<>> \in Seq({}) /\ Len(<<>>) = 0
  BY EmptySeq
<1>2. Nested(t, {})
  BY DEF Nested
<1> DEFINE n == Len(<<>>)
<1>3. <<>> = [k \in 1..n |-> <<>>[k].elem]
  BY <1>1
<1>4. \A k \in 1..n : FALSE
  BY <1>1
<1>5. Chain(<<>>, <<>>, p, q)
  BY <1>3, <1>4 DEF Chain
<1>6. QED
  BY <1>1, <1>2, <1>5 DEF KidsIn

\* Children are where they are, however far the call gets.
LEMMA KidsLater ==
  ASSUME NEW t, NEW kids, NEW p \in Nat, NEW m \in Nat, NEW q \in Nat, m <= q,
         KidsIn(t, kids, p, m)
  PROVE  KidsIn(t, kids, p, q)
<1>1. PICK S : Nested(t, S) /\ \E parts \in Seq(S) : Chain(kids, parts, p, m)
  BY DEF KidsIn
<1>2. PICK parts \in Seq(S) : Chain(kids, parts, p, m)
  BY <1>1
<1>3. \A k \in 1..Len(parts) : parts[k].to \in Nat
  BY <1>1, ElementOfSeq DEF Nested
<1>4. Chain(kids, parts, p, q)
  BY <1>2, <1>3 DEF Chain
<1>5. QED
  BY <1>1, <1>4 DEF KidsIn

\* A child read from behind the others is one more.
LEMMA KidsOneMore ==
  ASSUME NEW t, NEW kids, NEW p \in Nat, NEW m \in Nat, KidsIn(t, kids, p, m),
         NEW e, NEW a \in Nat, NEW b \in Nat, ReadIn(t, e, a, b), p < a, m <= a
  PROVE  KidsIn(t, Append(kids, e), p, b)
<1>1. PICK S : Nested(t, S) /\ \E parts \in Seq(S) : Chain(kids, parts, p, m)
  BY DEF KidsIn
<1>2. PICK parts \in Seq(S) : Chain(kids, parts, p, m)
  BY <1>1
<1> DEFINE x == [elem |-> e, from |-> a, to |-> b]
<1>3. PICK R : Nested(t, R) /\ x \in R
  BY DEF ReadIn
<1> DEFINE T == S \cup R
<1>4. Nested(t, T) /\ parts \in Seq(T) /\ x \in T
  BY <1>1, <1>3, NestedTogether, SeqMonotonic
<1>5. x.elem = e /\ x.from = a /\ x.to = b /\ a <= b
  BY <1>3 DEF Nested
<1> HIDE DEF x, T
<1> DEFINE more == Append(parts, x)
           n == Len(parts)
<1>6. /\ more \in Seq(T) /\ Len(more) = n + 1 /\ n \in Nat
      /\ \A k \in 1..n : more[k] = parts[k]
      /\ more[n + 1] = x
  BY <1>4, AppendProperties, LenProperties
<1>7. \A k \in 1..n : parts[k].from \in Nat /\ parts[k].to \in Nat
  BY <1>4, ElementOfSeq DEF Nested
<1>8. /\ kids = [k \in 1..n |-> parts[k].elem]
      /\ \A k \in 1..n : /\ p < parts[k].from /\ parts[k].to <= m
                         /\ \A j \in 1..k - 1 : parts[j].to <= parts[k].from
  BY <1>2 DEF Chain
<1> HIDE DEF more
<1>9. Append(kids, e) = [k \in 1..Len(more) |-> more[k].elem]
  <2> DEFINE E == {parts[k].elem : k \in 1..n} \cup {e}
             all == Append(kids, e)
             new == [k \in 1..n + 1 |-> more[k].elem]
  <2>1. kids \in Seq(E) /\ Len(kids) = n
    <3>1. kids \in [1..n -> E]
      BY <1>8
    <3> HIDE DEF E, n
    <3>2. kids \in Seq(E)
      BY <1>6, <3>1, SeqDef
    <3>3. DOMAIN kids = 1..n /\ DOMAIN kids = 1..Len(kids) /\ Len(kids) \in Nat
      BY <3>1, <3>2, LenProperties
    <3>4. QED
      BY <1>6, <3>2, <3>3
  <2>2. /\ all \in Seq(E) /\ Len(all) = n + 1
        /\ \A k \in 1..n : all[k] = kids[k]
        /\ all[n + 1] = e
    <3>1. e \in E
      OBVIOUS
    <3> HIDE DEF E
    <3>2. QED
      BY <2>1, <3>1, AppendProperties
  <2>3. \A k \in 1..n + 1 : new[k] = all[k]
    <3> HIDE DEF all, n
    <3>1. SUFFICES ASSUME NEW k \in 1..n + 1 PROVE more[k].elem = all[k]
      OBVIOUS
    <3>2. CASE k \in 1..n
      BY <1>6, <1>8, <2>2, <3>2
    <3>3. CASE k = n + 1
      BY <1>5, <1>6, <2>2, <3>3
    <3>4. QED
      BY <1>6, <3>2, <3>3
  <2>4. all = [k \in 1..n + 1 |-> all[k]]
    <3> HIDE DEF all, E, n
    <3>1. all \in [1..Len(all) -> E]
      BY <2>2, LenProperties
    <3>2. QED
      BY <2>2, <3>1
  <2>5. all = new
    <3> HIDE DEF all, E, n
    <3>1. QED
      BY <2>3, <2>4
  <2>6. QED
    BY <1>6, <2>5
<1>10. ASSUME NEW k \in 1..Len(more)
       PROVE  /\ p < more[k].from /\ more[k].to <= b
              /\ \A j \in 1..k - 1 : more[j].to <= more[k].from
  <2> HIDE DEF n
  <2>1. CASE k \in 1..n
    <3>1. more[k] = parts[k] /\ parts[k].to <= m /\ p < parts[k].from
      BY <1>6, <1>8, <2>1
    <3>2. parts[k].to <= b
      BY <1>5, <1>7, <2>1, <3>1
    <3>3. ASSUME NEW j \in 1..k - 1 PROVE more[j].to <= more[k].from
      <4>1. j \in 1..n
        BY <1>6, <2>1
      <4>2. QED
        BY <1>6, <1>8, <2>1, <3>1, <4>1
    <3>4. QED
      BY <3>1, <3>2, <3>3
  <2>2. CASE k = n + 1
    <3>1. more[k].from = a /\ more[k].to = b
      BY <1>5, <1>6, <2>2
    <3>2. ASSUME NEW j \in 1..k - 1 PROVE more[j].to <= a
      <4>1. j \in 1..n
        BY <1>6, <2>2
      <4>2. more[j].to = parts[j].to /\ parts[j].to \in Nat /\ parts[j].to <= m
        BY <1>6, <1>7, <1>8, <4>1
      <4>3. QED
        BY <4>2
    <3>3. QED
      BY <3>1, <3>2
  <2>3. QED
    BY <1>6, <2>1, <2>2
<1>11. Chain(Append(kids, e), more, p, b)
  BY <1>9, <1>10 DEF Chain
<1>12. QED
  BY <1>4, <1>6, <1>11 DEF KidsIn

\* What a call returns is an element with the children it collected.
LEMMA CallRead ==
  ASSUME NEW t, NEW e, NEW p \in Nat, NEW q \in Nat, p <= q, Own(t, e, p, q),
         KidsIn(t, e.kids, p, q)
  PROVE  ReadIn(t, e, p, q)
<1>1. PICK S : Nested(t, S) /\ \E parts \in Seq(S) : Chain(e.kids, parts, p, q)
  BY DEF KidsIn
<1> DEFINE x == [elem |-> e, from |-> p, to |-> q]
           T == S \cup {x}
<1>2. x.elem = e /\ x.from = p /\ x.to = q /\ x \in T
  OBVIOUS
<1>3. Seq(S) \subseteq Seq(T)
  BY SeqMonotonic
<1> HIDE DEF x
<1>4. ASSUME NEW y \in T
      PROVE  /\ y.from \in Nat /\ y.to \in Nat /\ y.from <= y.to
             /\ Own(t, y.elem, y.from, y.to)
             /\ \E parts \in Seq(T) : Chain(y.elem.kids, parts, y.from, y.to)
  <2>1. CASE y = x
    BY <1>1, <1>2, <1>3, <2>1
  <2>2. CASE y \in S
    BY <1>1, <1>3, <2>2 DEF Nested
  <2>3. QED
    BY <2>1, <2>2
<1> HIDE DEF T
<1>5. Nested(t, T)
  BY <1>4 DEF Nested
<1>6. QED
  BY <1>2, <1>5 DEF ReadIn, x

-----------------------------------------------------------------------------
(* What the calls in progress have read                                    *)

\* What a call reads, also behind a comment.
Kind(f) == IF f.cType = "COMMENT" THEN f.cTypeOld ELSE f.cType

\* What a call has read until n.
PartsRead(t, f, n) ==
  /\ f.base \in Nat /\ n \in Nat /\ f.base <= n
  /\ Own(t, f.elem, f.base, n)
  /\ Within(t, f.attr, f.base, n)
  /\ KidsIn(t, f.elem.kids, f.base, n)

\* What a call has read ends in front of what it is reading.
Started(t, f) ==
  /\ Kind(f) = "NAME" => Within(t, f.elem.name, f.base, f.start)
  /\ Kind(f) \in {"DATA", "CDATA"} => Within(t, f.elem.data, f.base, f.start)
  /\ Kind(f) = "ATTR" /\ f.start # -1 => Within(t, f.attr, f.base, f.start)

\* All of it, and a call that has looked at its first character is behind it.
FrameRead(t, f, n) ==
  PartsRead(t, f, n) /\ Started(t, f) /\ (f.cType # "NULL" => f.base < n)

\* A call that waits for another has read until where that one began.
ReadInv ==
  /\ frames # <<>> =>
        frames[1].base = 0 /\ FrameRead(doc.chars, frames[Len(frames)], iPos)
  /\ \A k \in 1..Len(frames) - 1 :
        /\ FrameRead(doc.chars, frames[k], frames[k + 1].base)
        /\ frames[k].base < frames[k + 1].base
  /\ frames = <<>> /\ result.len # -1 => ReadIn(doc.chars, result.elem, 0, result.len)

\* What an element holds is where it is, however far the call gets.
LEMMA OwnLater ==
  ASSUME NEW t, NEW e, NEW p, NEW m \in Nat, NEW n \in Nat, m <= n, Own(t, e, p, m)
  PROVE  Own(t, e, p, n)
<1>1. Within(t, e.name, p, n) /\ Within(t, e.data, p, n)
  BY WithinLater DEF Own
<1>2. ASSUME NEW a \in e.attrs
      PROVE  \E k \in Nat : Within(t, a[1], p, k) /\ Within(t, a[2], k, n)
  <2>1. PICK k \in Nat : Within(t, a[1], p, k) /\ Within(t, a[2], k, m)
    BY DEF Own
  <2>2. Within(t, a[2], k, n)
    BY <2>1, WithinLater
  <2>3. QED
    BY <2>1, <2>2
<1>3. QED
  BY <1>1, <1>2 DEF Own

\* What a call has read is where it is, however far it gets.
LEMMA PartsLater ==
  ASSUME NEW t, NEW f, NEW m, NEW n \in Nat, m <= n, PartsRead(t, f, m)
  PROVE  PartsRead(t, f, n)
<1>1. m \in Nat /\ f.base \in Nat /\ f.base <= n
  BY DEF PartsRead
<1>2. Own(t, f.elem, f.base, n) /\ Within(t, f.attr, f.base, n)
  BY <1>1, OwnLater, WithinLater DEF PartsRead
<1>3. KidsIn(t, f.elem.kids, f.base, n)
  BY <1>1, KidsLater DEF PartsRead
<1>4. QED
  BY <1>1, <1>2, <1>3 DEF PartsRead

\* A call that goes on without taking anything.
LEMMA Moved ==
  ASSUME NEW t, NEW f, NEW g, NEW m, NEW n \in Nat, m < n, PartsRead(t, f, m),
         g.base = f.base, g.elem = f.elem, g.attr = f.attr, Started(t, g)
  PROVE  FrameRead(t, g, n)
<1>1. m \in Nat /\ f.base <= m /\ f.base \in Nat
  BY DEF PartsRead
<1>2. PartsRead(t, f, n)
  BY <1>1, PartsLater
<1>3. PartsRead(t, g, n)
  BY <1>2 DEF PartsRead
<1>4. g.base < n
  BY <1>1
<1>5. QED
  BY <1>3, <1>4 DEF FrameRead

\* A caller that adopts what its call returned.
LEMMA AdoptRead ==
  ASSUME NEW t, NEW f, NEW a, NEW b \in Nat, FrameRead(t, f, a), f.base < a, a <= b,
         NEW c, FrameOK(f, c), NEW e, ReadIn(t, e, a, b)
  PROVE  FrameRead(t, Adopt(f, e), b)
<1> DEFINE g == Adopt(f, e)
<1>1. /\ g.base = f.base /\ g.attr = f.attr /\ g.cType = "DATA_PARSE"
      /\ g.elem.name = f.elem.name /\ g.elem.data = f.elem.data /\ g.elem.attrs = f.elem.attrs
      /\ g.elem.kids = Append(f.elem.kids, e)
  BY DEF Adopt, FrameOK, ElementOK
<1>2. a \in Nat /\ f.base \in Nat /\ PartsRead(t, f, a)
  BY DEF FrameRead, PartsRead
<1>3. PartsRead(t, f, b)
  BY <1>2, PartsLater
<1>4. KidsIn(t, Append(f.elem.kids, e), f.base, b)
  <2>1. KidsIn(t, f.elem.kids, f.base, a)
    BY <1>2 DEF PartsRead
  <2>2. QED
    BY <1>2, <2>1, KidsOneMore
<1> HIDE DEF g
<1>5. PartsRead(t, g, b)
  BY <1>1, <1>3, <1>4 DEF PartsRead, Own
<1>6. Started(t, g)
  BY <1>1 DEF Started, Kind
<1>7. g.base < b
  BY <1>1, <1>2
<1>8. QED
  BY <1>5, <1>6, <1>7 DEF FrameRead, g

\* Taking a name, data or an attribute takes a slice from behind what was taken before.
LEMMA TakeNameRead ==
  ASSUME IInv, NEW f, FrameOK(f, iPos), PartsRead(doc.chars, f, iPos),
         Within(doc.chars, f.elem.name, f.base, f.start)
  PROVE  PartsRead(doc.chars, TakeName(f), iPos)
<1> DEFINE t == doc.chars
           g == TakeName(f)
           name == f.elem.name \o Slice(f.start, iPos)
<1>1. /\ g.base = f.base /\ g.attr = f.attr /\ g.elem.name = name
      /\ g.elem.data = f.elem.data /\ g.elem.attrs = f.elem.attrs /\ g.elem.kids = f.elem.kids
  BY DEF TakeName, FrameOK, ElementOK
<1>2. Within(t, name, f.base, iPos)
  <2>1. /\ t \in Seq(STRING) /\ f.start \in Nat /\ iPos \in Nat /\ f.start <= f.start
        /\ f.start <= iPos /\ iPos <= Len(t)
    BY TextOK DEF IInv, FrameOK, TextLen, Within
  <2>2. QED
    BY <2>1, WithinLonger DEF Slice
<1> HIDE DEF g, name, t
<1>3. PartsRead(t, g, iPos)
  BY <1>1, <1>2 DEF PartsRead, Own, t
<1>4. QED
  BY <1>3 DEF g, t

LEMMA TakeDataRead ==
  ASSUME IInv, NEW f, FrameOK(f, iPos), PartsRead(doc.chars, f, iPos),
         Within(doc.chars, f.elem.data, f.base, f.start)
  PROVE  PartsRead(doc.chars, TakeData(f), iPos)
<1> DEFINE t == doc.chars
           g == TakeData(f)
           data == f.elem.data \o Slice(f.start, iPos)
<1>1. /\ g.base = f.base /\ g.attr = f.attr /\ g.elem.data = data
      /\ g.elem.name = f.elem.name /\ g.elem.attrs = f.elem.attrs /\ g.elem.kids = f.elem.kids
  BY DEF TakeData, FrameOK, ElementOK
<1>2. Within(t, data, f.base, iPos)
  <2>1. /\ t \in Seq(STRING) /\ f.start \in Nat /\ iPos \in Nat /\ f.start <= f.start
        /\ f.start <= iPos /\ iPos <= Len(t)
    BY TextOK DEF IInv, FrameOK, TextLen, Within
  <2>2. QED
    BY <2>1, WithinLonger DEF Slice
<1> HIDE DEF g, data, t
<1>3. PartsRead(t, g, iPos)
  BY <1>1, <1>2 DEF PartsRead, Own, t
<1>4. QED
  BY <1>3 DEF g, t

LEMMA TakeAttributeRead ==
  ASSUME IInv, NEW f, FrameOK(f, iPos), PartsRead(doc.chars, f, iPos), f.start # -1,
         Within(doc.chars, f.attr, f.base, f.start)
  PROVE  PartsRead(doc.chars, TakeAttribute(f), iPos)
<1> DEFINE t == doc.chars
           g == TakeAttribute(f)
           value == Slice(f.start, iPos)
           attrs == InsertAttr(f.elem.attrs, f.attr, value)
<1>1. /\ g.base = f.base /\ g.attr = <<>> /\ g.elem.attrs = attrs
      /\ g.elem.name = f.elem.name /\ g.elem.data = f.elem.data /\ g.elem.kids = f.elem.kids
  BY DEF TakeAttribute, FrameOK, ElementOK
<1>2. /\ t \in Seq(STRING) /\ f.start \in Nat /\ iPos \in Nat /\ f.start <= iPos
      /\ iPos <= Len(t) /\ f.base \in Nat /\ f.base <= iPos
  BY TextOK DEF IInv, FrameOK, TextLen, Within
<1>3. Within(t, value, f.start, iPos)
  BY <1>2, SliceWithin DEF Slice
<1>4. Within(t, g.attr, f.base, iPos)
  BY <1>1, <1>2, WithinNothing
<1>5. attrs \subseteq f.elem.attrs \cup {<<f.attr, value>>}
  BY DEF InsertAttr
<1> HIDE DEF value, attrs
<1>6. ASSUME NEW a \in attrs
      PROVE  \E m \in Nat : Within(t, a[1], f.base, m) /\ Within(t, a[2], m, iPos)
  <2>1. CASE a \in f.elem.attrs
    BY <2>1 DEF PartsRead, Own
  <2>2. CASE a = <<f.attr, value>>
    BY <1>2, <1>3, <2>2
  <2>3. QED
    BY <1>5, <2>1, <2>2
<1> HIDE DEF g, t
<1>7. PartsRead(t, g, iPos)
  BY <1>1, <1>4, <1>6 DEF PartsRead, Own, t
<1>8. QED
  BY <1>7 DEF g, t

\* The innermost call.
LEMMA TopRead ==
  ASSUME IInv, ReadInv, frames # <<>>
  PROVE  /\ Len(frames) \in Nat \ {0} /\ FrameOK(Top, iPos)
         /\ FrameRead(doc.chars, Top, iPos) /\ PartsRead(doc.chars, Top, iPos)
         /\ Started(doc.chars, Top)
         /\ doc.chars \in Seq(STRING) /\ iPos \in Nat /\ iPos + 1 \in Nat
         /\ TextLen = Len(doc.chars) /\ iPos <= TextLen
BY TopOK, TextOK DEF ReadInv, FrameRead, Top, IInv, TextLen

\* The innermost call goes on, those that wait for it do not change.
LEMMA GoRead ==
  ASSUME IInv, ReadInv, frames # <<>>, NEW f, NEW n \in Nat, Go(f, n),
         f.base = Top.base, FrameRead(doc.chars, f, n)
  PROVE  ReadInv'
<1>1. PICK F : frames \in Seq(F)
  BY DEF IInv, IsStack
<1> DEFINE l == Len(frames)
<1>2. l \in Nat \ {0} /\ l \in 1..l
  BY <1>1, EmptySeq
<1>3. frames \in Seq(F \cup {f}) /\ f \in F \cup {f}
  BY <1>1, SeqMonotonic
<1>4. /\ Len(frames') = l
      /\ \A k \in 1..l : frames'[k] = IF k = l THEN f ELSE frames[k]
  BY <1>2, <1>3, ExceptSeq DEF Go
<1>5. UNCHANGED <<doc, result>> /\ iPos' = n
  BY DEF Go
<1>6. /\ frames[1].base = 0 /\ f.base = frames[l].base
      /\ \A k \in 1..l - 1 : /\ FrameRead(doc.chars, frames[k], frames[k + 1].base)
                             /\ frames[k].base < frames[k + 1].base
  BY DEF ReadInv, Top
<1> HIDE DEF l
<1>7. \A k \in 1..l : frames'[k].base = frames[k].base
  BY <1>4, <1>6
<1>8. frames'[1].base = 0 /\ frames' # <<>>
  <2>1. 1 \in 1..l /\ Len(<<>>) = 0
    BY <1>2, EmptySeq
  <2>2. QED
    BY <1>2, <1>4, <1>6, <1>7, <2>1
<1>9. FrameRead(doc.chars, frames'[Len(frames')], n)
  BY <1>2, <1>4
<1>10. ASSUME NEW k \in 1..l - 1
       PROVE  /\ FrameRead(doc.chars, frames'[k], frames'[k + 1].base)
              /\ frames'[k].base < frames'[k + 1].base
  <2>1. k \in 1..l /\ k + 1 \in 1..l /\ k # l
    BY <1>2
  <2>2. frames'[k] = frames[k] /\ frames'[k + 1].base = frames[k + 1].base
    BY <1>4, <1>7, <2>1
  <2>3. QED
    BY <1>6, <2>2
<1>11. QED
  BY <1>4, <1>5, <1>8, <1>9, <1>10 DEF ReadInv

\* The innermost call returns, and the caller adopts what it read.
LEMMA ReturnRead ==
  ASSUME IInv, ReadInv, frames # <<>>, NEW f, NEW n \in Nat, iPos <= n, Return(f, n),
         f.base = Top.base, PartsRead(doc.chars, f, iPos)
  PROVE  ReadInv'
<1>1. PICK F : frames \in Seq(F)
  BY DEF IInv, IsStack
<1> DEFINE l == Len(frames)
<1>2. l \in Nat \ {0} /\ l \in 1..l
  BY <1>1, EmptySeq
<1>3. UNCHANGED doc /\ iPos' = n
  BY DEF Return
<1>4. /\ frames[1].base = 0 /\ f.base = frames[l].base
      /\ \A k \in 1..l - 1 : /\ FrameRead(doc.chars, frames[k], frames[k + 1].base)
                             /\ frames[k].base < frames[k + 1].base
  BY DEF ReadInv, Top
<1>5. ReadIn(doc.chars, f.elem, f.base, n) /\ f.base \in Nat /\ f.base <= n
  <2>1. PartsRead(doc.chars, f, n)
    BY PartsLater
  <2>2. QED
    BY <2>1, CallRead DEF PartsRead
<1>6. CASE l = 1
  <2>1. result' = [len |-> n, elem |-> f.elem] /\ frames' = <<>>
    BY <1>6 DEF Return
  <2>2. result'.len = n /\ result'.elem = f.elem /\ Len(frames') = 0
    BY <2>1, EmptySeq
  <2>3. ReadIn(doc.chars, result'.elem, 0, result'.len)
    BY <1>4, <1>5, <1>6, <2>2
  <2>4. \A k \in 1..Len(frames') - 1 : FALSE
    BY <2>2
  <2>5. QED
    BY <1>3, <2>1, <2>3, <2>4 DEF ReadInv
<1>7. CASE l # 1
  <2> DEFINE rest == SubSeq(frames, 1, Len(frames) - 1)
             m == Len(rest)
             caller == rest[m]
             back == Adopt(caller, f.elem)
  <2>1. /\ rest \in Seq(F) /\ m = l - 1
        /\ \A k \in 1..l - 1 : rest[k] = frames[k]
    BY <1>1, FrontOfSeq
  <2>2. frames' = [rest EXCEPT ![m] = back] /\ UNCHANGED result
    BY <1>7 DEF Return
  <2>m. m \in Nat \ {0} /\ m \in 1..m /\ m \in 1..l - 1 /\ m + 1 = l
    <3> HIDE DEF m, l
    <3>1. QED
      BY <1>2, <1>7, <2>1
  <2>3. FrameOK(caller, iPos) /\ FrameRead(doc.chars, caller, f.base) /\ caller.base < f.base
        /\ caller = frames[m]
    <3>1. caller = frames[m] /\ m \in 1..Len(frames)
      <4> HIDE DEF rest, m
      <4>1. QED
        BY <1>2, <2>1, <2>m
    <3> HIDE DEF caller, rest, m, l
    <3>2. FrameOK(frames[m], iPos)
      BY <3>1 DEF IInv
    <3>3. FrameRead(doc.chars, frames[m], f.base) /\ frames[m].base < f.base
      BY <1>4, <2>m
    <3>4. QED
      BY <3>1, <3>2, <3>3
  <2> HIDE DEF rest, m, caller
  <2>4. FrameRead(doc.chars, back, n) /\ back.base = caller.base
    <3>1. back.base = caller.base
      BY <2>3 DEF FrameOK, Adopt
    <3>2. FrameRead(doc.chars, back, n)
      BY <1>5, <2>3, AdoptRead
    <3>3. QED
      BY <3>1, <3>2
  <2> HIDE DEF back
  <2>5. /\ frames' \in Seq(F \cup {back}) /\ Len(frames') = m
        /\ \A k \in 1..m : frames'[k] = IF k = m THEN back ELSE rest[k]
    <3>1. rest \in Seq(F \cup {back}) /\ back \in F \cup {back} /\ m = Len(rest)
      BY <2>1, SeqMonotonic DEF m
    <3>2. QED
      BY <2>2, <2>m, <3>1, ExceptSeq
  <2>6. \A k \in 1..m : frames'[k].base = frames[k].base
    <3>1. SUFFICES ASSUME NEW k \in 1..m PROVE frames'[k].base = frames[k].base
      OBVIOUS
    <3>2. k \in 1..l - 1
      BY <2>1
    <3>3. CASE k = m
      BY <2>3, <2>4, <2>5, <3>3
    <3>4. CASE k # m
      BY <2>1, <2>5, <3>2, <3>4
    <3>5. QED
      BY <3>3, <3>4
  <2> HIDE DEF l
  <2>7. frames' # <<>> /\ frames'[1].base = 0
    <3>1. Len(<<>>) = 0 /\ 1 \in 1..m
      BY <2>m, EmptySeq
    <3>2. QED
      BY <1>4, <2>m, <2>5, <2>6, <3>1
  <2>8. FrameRead(doc.chars, frames'[Len(frames')], n)
    BY <2>m, <2>4, <2>5
  <2>9. ASSUME NEW k \in 1..m - 1
        PROVE  /\ FrameRead(doc.chars, frames'[k], frames'[k + 1].base)
               /\ frames'[k].base < frames'[k + 1].base
    <3>1. k \in 1..m /\ k + 1 \in 1..m /\ k # m /\ k \in 1..l - 1
      BY <2>m, <2>1
    <3>2. frames'[k] = frames[k] /\ frames'[k + 1].base = frames[k + 1].base
      BY <2>1, <2>5, <2>6, <3>1
    <3>3. QED
      BY <1>4, <3>1, <3>2
  <2>10. QED
    BY <1>3, <2>2, <2>5, <2>7, <2>8, <2>9 DEF ReadInv
<1>8. QED
  BY <1>6, <1>7

\* A text that is refused gives nothing.
LEMMA FailRead ==
  ASSUME Fail
  PROVE  ReadInv'
<1>1. frames' = <<>> /\ result'.len = -1
  BY DEF Fail
<1>2. Len(frames') = 0
  BY <1>1, EmptySeq
<1>3. \A k \in 1..Len(frames') - 1 : FALSE
  BY <1>2
<1>4. QED
  BY <1>1, <1>3 DEF ReadInv

\* A call that begins has read nothing, whatever its object held.
LEMMA BeginRead ==
  ASSUME NEW t, NEW p \in Nat, NEW e, DOMAIN e = {"name", "data", "attrs", "kids"}
  PROVE  FrameRead(t, Frame(p, e), p) /\ Frame(p, e).base = p
<1> DEFINE f == Frame(p, e)
<1>1. /\ f.base = p /\ f.cType = "NULL" /\ f.attr = <<>>
      /\ f.elem.name = <<>> /\ f.elem.data = <<>> /\ f.elem.attrs = {} /\ f.elem.kids = <<>>
  BY DEF Frame, Clear
<1> HIDE DEF f
<1>2. Within(t, <<>>, p, p) /\ KidsIn(t, <<>>, p, p)
  BY WithinNothing, KidsNone
<1>3. PartsRead(t, f, p)
  BY <1>1, <1>2 DEF PartsRead, Own
<1>4. Started(t, f)
  BY <1>1 DEF Started, Kind
<1>5. QED
  BY <1>1, <1>3, <1>4 DEF FrameRead, f

\* A call begins behind what its caller has read.
LEMMA ChildRead == ASSUME IInv, ReadInv, Child PROVE ReadInv'
<1>1. PICK F : frames \in Seq(F)
  BY DEF IInv, IsStack
<1> DEFINE f == Frame(iPos, Empty)
           l == Len(frames)
<1>2. /\ frames # <<>> /\ Top.cType # "NULL" /\ frames' = Append(frames, f)
      /\ UNCHANGED <<doc, iPos, result>>
  BY DEF Child, Markup, Plain, In, Scanning
<1>3. l \in Nat \ {0} /\ FrameRead(doc.chars, Top, iPos) /\ Top.base < iPos /\ iPos \in Nat
  BY <1>2, TopRead DEF FrameRead
<1>4. FrameRead(doc.chars, f, iPos) /\ f.base = iPos
  <2>1. DOMAIN Empty = {"name", "data", "attrs", "kids"}
    BY DEF Empty
  <2>2. QED
    BY <1>3, <2>1, BeginRead
<1> HIDE DEF f
<1>5. frames \in Seq(F \cup {f}) /\ f \in F \cup {f}
  BY <1>1, SeqMonotonic
<1>6. /\ Len(frames') = l + 1 /\ \A k \in 1..l : frames'[k] = frames[k]
      /\ frames'[l + 1] = f
  BY <1>2, <1>5, AppendProperties
<1>7. /\ frames[1].base = 0 /\ Top = frames[l]
      /\ \A k \in 1..l - 1 : /\ FrameRead(doc.chars, frames[k], frames[k + 1].base)
                             /\ frames[k].base < frames[k + 1].base
  BY <1>2 DEF ReadInv, Top
<1> HIDE DEF l
<1>8. frames' # <<>> /\ frames'[1].base = 0
  <2>1. 1 \in 1..l /\ Len(<<>>) = 0
    BY <1>3, EmptySeq
  <2>2. QED
    BY <1>3, <1>6, <1>7, <2>1
<1>9. ASSUME NEW k \in 1..l
      PROVE  /\ FrameRead(doc.chars, frames'[k], frames'[k + 1].base)
             /\ frames'[k].base < frames'[k + 1].base
  <2>1. CASE k = l
    BY <1>3, <1>4, <1>6, <1>7, <2>1
  <2>2. CASE k # l
    <3>1. k \in 1..l - 1 /\ k + 1 \in 1..l
      BY <1>3, <2>2
    <3>2. frames'[k] = frames[k] /\ frames'[k + 1] = frames[k + 1]
      BY <1>6, <3>1
    <3>3. QED
      BY <1>7, <3>1, <3>2
  <2>3. QED
    BY <2>1, <2>2
<1>10. 1..Len(frames') - 1 = 1..l
  BY <1>3, <1>6
<1>11. FrameRead(doc.chars, frames'[Len(frames')], iPos)
  BY <1>4, <1>6
<1>12. QED
  BY <1>2, <1>8, <1>9, <1>10, <1>11 DEF ReadInv

\* A turn that takes something, or nothing, and goes on.
LEMMA GoOn ==
  ASSUME IInv, ReadInv, frames # <<>>, NEW g, g.base = Top.base, PartsRead(doc.chars, g, iPos),
         NEW f, f.base = g.base, f.elem = g.elem, f.attr = g.attr, Started(doc.chars, f),
         NEW n \in Nat, iPos < n, Go(f, n)
  PROVE  ReadInv'
<1>1. FrameRead(doc.chars, f, n)
  BY Moved
<1>2. QED
  BY <1>1, GoRead

LEMMA StayRead ==
  ASSUME IInv, ReadInv, frames # <<>>, NEW n \in Nat, iPos < n, Go(Top, n)
  PROVE  ReadInv'
BY TopRead, GoOn

-----------------------------------------------------------------------------
(* The cases of the loop, and what they have read                          *)

LEMMA CommentRead == ASSUME IInv, ReadInv, Comment PROVE ReadInv'
<1>1. frames # <<>> /\ Top.cType = "COMMENT"
  BY DEF Comment, In, Scanning
<1> DEFINE f == [Top EXCEPT !.cType = Top.cTypeOld]
<1>2. CASE Go(f, iPos + 3)
  <2>1. /\ f.base = Top.base /\ f.elem = Top.elem /\ f.attr = Top.attr /\ f.start = Top.start
        /\ f.cType = Top.cTypeOld /\ f.cTypeOld = Top.cTypeOld
    BY <1>1, TopRead DEF FrameOK
  <2> HIDE DEF f
  <2>2. Kind(f) = Kind(Top)
    BY <1>1, <2>1 DEF Kind
  <2>3. Started(doc.chars, f)
    BY <1>1, <2>1, <2>2, TopRead DEF Started
  <2>4. iPos + 3 \in Nat /\ iPos < iPos + 3
    BY <1>1, TopRead
  <2>5. QED
    BY <1>1, <1>2, <2>1, <2>3, <2>4, TopRead, GoOn
<1>3. CASE Go(Top, iPos + 1)
  BY <1>1, <1>3, TopRead, StayRead
<1>4. QED
  BY <1>2, <1>3 DEF Comment

LEMMA DeclarationRead == ASSUME IInv, ReadInv, Declaration PROVE ReadInv'
<1>1. frames # <<>> /\ Top.cType = "DECLARATION"
  BY DEF Declaration, In, Scanning
<1> DEFINE f == [Top EXCEPT !.cType = IF Ch = ">" THEN "NULL" ELSE @]
<1>2. /\ f.base = Top.base /\ f.elem = Top.elem /\ f.attr = Top.attr
      /\ f.cType \in {"NULL", "DECLARATION"}
  BY <1>1, TopRead DEF FrameOK
<1>3. Go(f, iPos + 1)
  BY DEF Declaration
<1> HIDE DEF f
<1>4. Started(doc.chars, f)
  BY <1>2 DEF Started, Kind
<1>5. QED
  BY <1>1, <1>2, <1>3, <1>4, TopRead, GoOn

LEMMA BlankRead == ASSUME IInv, ReadInv, Blank PROVE ReadInv'
<1>1. frames # <<>>
  BY DEF Blank, Plain, In, Scanning
<1> DEFINE h == TakeName(Top)
           f == [h EXCEPT !.cType = "ATTR", !.start = -1, !.attr = <<>>]
<1>2. CASE Top.cType = "NAME" /\ Go(f, iPos + 1)
  <2>1. PartsRead(doc.chars, h, iPos)
    BY <1>1, <1>2, TopRead, TakeNameRead DEF Started, Kind
  <2>2. DOMAIN h = DOMAIN Top /\ h.base = Top.base
    BY <1>1, TopRead DEF TakeName, FrameOK
  <2> HIDE DEF h
  <2>3. /\ f.base = Top.base /\ f.elem = h.elem /\ f.attr = <<>> /\ f.cType = "ATTR"
        /\ f.start = -1
    BY <1>1, <2>2, TopRead DEF FrameOK
  <2> HIDE DEF f
  <2>4. Within(doc.chars, <<>>, f.base, iPos)
    BY <2>1, <2>2, <2>3, WithinNothing DEF PartsRead
  <2>5. PartsRead(doc.chars, f, iPos)
    BY <2>1, <2>2, <2>3, <2>4 DEF PartsRead
  <2>6. Started(doc.chars, f)
    BY <2>3 DEF Started, Kind
  <2>7. QED
    BY <1>1, <1>2, <2>3, <2>5, <2>6, TopRead, GoOn
<1>3. CASE Go(Top, iPos + 1)
  BY <1>1, <1>3, TopRead, StayRead
<1>4. QED
  BY <1>2, <1>3 DEF Blank

\* Data that starts at the new position has been taken before it.
LEMMA DataRead ==
  ASSUME IInv, NEW g, PartsRead(doc.chars, g, iPos), NEW f, NEW n \in Nat, iPos < n,
         f.base = g.base, f.elem = g.elem, f.start = n, f.cType \in {"DATA", "CDATA"}
  PROVE  Started(doc.chars, f)
<1>1. Within(doc.chars, f.elem.data, f.base, iPos)
  BY DEF PartsRead, Own
<1>2. iPos \in Nat
  BY DEF PartsRead
<1>3. Within(doc.chars, f.elem.data, f.base, f.start)
  BY <1>1, <1>2, WithinLater
<1>4. QED
  BY <1>3 DEF Started, Kind

\* Data that ends here has been taken.
LEMMA EndDataRead ==
  ASSUME IInv, ReadInv, frames # <<>>
  PROVE  LET g == IF Top.cType = "DATA" THEN TakeData(Top) ELSE Top IN
         PartsRead(doc.chars, g, iPos) /\ g.base = Top.base /\ DOMAIN g = DOMAIN Top
<1>1. CASE Top.cType = "DATA"
  <2>1. PartsRead(doc.chars, TakeData(Top), iPos)
    BY <1>1, TopRead, TakeDataRead DEF Started, Kind
  <2>2. TakeData(Top).base = Top.base /\ DOMAIN TakeData(Top) = DOMAIN Top
    BY TopRead DEF TakeData, FrameOK
  <2>3. QED
    BY <1>1, <2>1, <2>2
<1>2. CASE Top.cType # "DATA"
  BY <1>2, TopRead
<1>3. QED
  BY <1>1, <1>2

LEMMA CDataRead == ASSUME IInv, ReadInv, CData PROVE ReadInv'
<1>1. frames # <<>> /\ Top.cType = "CDATA"
  BY DEF CData, In, Scanning
<1> DEFINE g == TakeData(Top)
           f == [g EXCEPT !.cType = "DATA", !.start = iPos + 3]
<1>2. CASE Go(f, iPos + 3)
  <2>1. PartsRead(doc.chars, g, iPos)
    BY <1>1, TopRead, TakeDataRead DEF Started, Kind
  <2>2. DOMAIN g = DOMAIN Top /\ g.base = Top.base
    BY <1>1, TopRead DEF TakeData, FrameOK
  <2> HIDE DEF g
  <2>3. /\ f.base = g.base /\ f.elem = g.elem /\ f.attr = g.attr /\ f.cType = "DATA"
        /\ f.start = iPos + 3
    BY <1>1, <2>2, TopRead DEF FrameOK
  <2> HIDE DEF f
  <2>4. iPos + 3 \in Nat /\ iPos < iPos + 3
    BY <1>1, TopRead
  <2>5. Started(doc.chars, f)
    BY <2>1, <2>3, <2>4, DataRead
  <2>6. QED
    BY <1>1, <1>2, <2>1, <2>2, <2>3, <2>4, <2>5, GoOn
<1>3. CASE Go(Top, iPos + 1)
  BY <1>1, <1>3, TopRead, StayRead
<1>4. QED
  BY <1>2, <1>3 DEF CData

LEMMA BeginCommentRead == ASSUME IInv, ReadInv, BeginComment PROVE ReadInv'
<1>1. frames # <<>> /\ Top.cType # "COMMENT"
  BY DEF BeginComment, Markup, Plain, In, Scanning
<1> DEFINE f == [Top EXCEPT !.cTypeOld = Top.cType, !.cType = "COMMENT"]
<1>2. /\ f.base = Top.base /\ f.elem = Top.elem /\ f.attr = Top.attr /\ f.start = Top.start
      /\ f.cType = "COMMENT" /\ f.cTypeOld = Top.cType
  BY <1>1, TopRead DEF FrameOK
<1>3. Go(f, iPos + 1)
  BY DEF BeginComment
<1> HIDE DEF f
<1>4. Kind(f) = Kind(Top)
  BY <1>1, <1>2 DEF Kind
<1>5. Started(doc.chars, f)
  BY <1>1, <1>2, <1>4, TopRead DEF Started
<1>6. QED
  BY <1>1, <1>2, <1>3, <1>5, TopRead, GoOn

LEMMA BeginCDataRead == ASSUME IInv, ReadInv, BeginCData PROVE ReadInv'
<1>1. frames # <<>>
  BY DEF BeginCData, Markup, Plain, In, Scanning
<1> DEFINE g == IF Top.cType = "DATA" THEN TakeData(Top) ELSE Top
           f == [g EXCEPT !.cTypeOld = Top.cType, !.cType = "CDATA", !.start = iPos + 1]
<1>2. PartsRead(doc.chars, g, iPos) /\ g.base = Top.base /\ DOMAIN g = DOMAIN Top
  BY <1>1, EndDataRead
<1>3. Go(f, iPos + 1)
  BY DEF BeginCData
<1> HIDE DEF g
<1>4. /\ f.base = g.base /\ f.elem = g.elem /\ f.attr = g.attr /\ f.cType = "CDATA"
      /\ f.start = iPos + 1
  BY <1>1, <1>2, TopRead DEF FrameOK
<1> HIDE DEF f
<1>5. iPos + 1 \in Nat /\ iPos < iPos + 1
  BY <1>1, TopRead
<1>6. Started(doc.chars, f)
  BY <1>2, <1>4, <1>5, DataRead
<1>7. QED
  BY <1>1, <1>2, <1>3, <1>4, <1>5, <1>6, GoOn

LEMMA BeginDeclarationRead == ASSUME IInv, ReadInv, BeginDeclaration PROVE ReadInv'
<1>1. frames # <<>>
  BY DEF BeginDeclaration, Markup, Plain, In, Scanning
<1> DEFINE f == [Top EXCEPT !.cTypeOld = Top.cType, !.cType = "DECLARATION"]
<1>2. /\ f.base = Top.base /\ f.elem = Top.elem /\ f.attr = Top.attr
      /\ f.cType = "DECLARATION"
  BY <1>1, TopRead DEF FrameOK
<1>3. Go(f, iPos + 1)
  BY DEF BeginDeclaration
<1> HIDE DEF f
<1>4. Started(doc.chars, f)
  BY <1>2 DEF Started, Kind
<1>5. QED
  BY <1>1, <1>2, <1>3, <1>4, TopRead, GoOn

LEMMA BeginNameRead == ASSUME IInv, ReadInv, BeginName PROVE ReadInv'
<1>1. frames # <<>>
  BY DEF BeginName, Markup, Plain, In, Scanning
<1> DEFINE f == [Top EXCEPT !.cType = "NAME", !.start = iPos + 1]
<1>2. /\ f.base = Top.base /\ f.elem = Top.elem /\ f.attr = Top.attr
      /\ f.cType = "NAME" /\ f.start = iPos + 1
  BY <1>1, TopRead DEF FrameOK
<1>3. Go(f, iPos + 1)
  BY DEF BeginName
<1> HIDE DEF f
<1>4. Within(doc.chars, f.elem.name, f.base, f.start)
  <2>1. Within(doc.chars, f.elem.name, f.base, iPos)
    BY <1>1, <1>2, TopRead DEF PartsRead, Own
  <2>2. iPos \in Nat /\ iPos + 1 \in Nat /\ iPos <= iPos + 1
    BY <1>1, TopRead
  <2>3. QED
    BY <1>2, <2>1, <2>2, WithinLater
<1>5. Started(doc.chars, f)
  BY <1>2, <1>4 DEF Started, Kind
<1>6. QED
  BY <1>1, <1>2, <1>3, <1>5, TopRead, GoOn

LEMMA EndTagRead == ASSUME IInv, ReadInv, EndTag PROVE ReadInv'
<1>1. frames # <<>>
  BY DEF EndTag, Markup, Plain, In, Scanning
<1> DEFINE g == IF Top.cType = "DATA" THEN TakeData(Top) ELSE Top
           f == [g EXCEPT !.cType = "NAME_END"]
           n == iPos + 2 + Len(g.elem.name)
<1>2. PartsRead(doc.chars, g, iPos) /\ g.base = Top.base /\ DOMAIN g = DOMAIN Top
  BY <1>1, EndDataRead
<1>3. CASE Go(f, n)
  <2> HIDE DEF g
  <2>1. /\ f.base = g.base /\ f.elem = g.elem /\ f.attr = g.attr /\ f.cType = "NAME_END"
    BY <1>1, <1>2, TopRead DEF FrameOK
  <2> HIDE DEF f
  <2>2. n \in Nat /\ iPos < n
    <3>1. Len(g.elem.name) \in Nat
      BY <1>2, LenProperties DEF PartsRead, Own, Within
    <3>2. QED
      BY <1>1, <3>1, TopRead
  <2>3. Started(doc.chars, f)
    BY <2>1 DEF Started, Kind
  <2> HIDE DEF n
  <2>4. QED
    BY <1>1, <1>2, <1>3, <2>1, <2>2, <2>3, GoOn
<1>4. CASE Fail
  BY <1>4, FailRead
<1>5. Go(f, n) \/ Fail
  BY DEF EndTag
<1>6. QED
  BY <1>3, <1>4, <1>5

LEMMA GreaterRead == ASSUME IInv, ReadInv, Greater PROVE ReadInv'
<1>1. frames # <<>>
  BY DEF Greater, Markup, Plain, In, Scanning
<1>2. CASE Return(Top, iPos + 1)
  BY <1>1, <1>2, TopRead, ReturnRead
<1>3. CASE Fail
  BY <1>3, FailRead
<1> DEFINE g == IF Top.cType = "NAME" THEN TakeName(Top) ELSE Top
           f == [g EXCEPT !.cType = "DATA", !.start = iPos + 1]
<1>4. CASE Go(f, iPos + 1)
  <2>1. PartsRead(doc.chars, g, iPos) /\ g.base = Top.base /\ DOMAIN g = DOMAIN Top
    <3>1. CASE Top.cType = "NAME"
      <4>1. PartsRead(doc.chars, TakeName(Top), iPos)
        BY <1>1, <3>1, TopRead, TakeNameRead DEF Started, Kind
      <4>2. TakeName(Top).base = Top.base /\ DOMAIN TakeName(Top) = DOMAIN Top
        BY <1>1, TopRead DEF TakeName, FrameOK
      <4>3. QED
        BY <3>1, <4>1, <4>2
    <3>2. CASE Top.cType # "NAME"
      BY <1>1, <3>2, TopRead
    <3>3. QED
      BY <3>1, <3>2
  <2> HIDE DEF g
  <2>2. /\ f.base = g.base /\ f.elem = g.elem /\ f.attr = g.attr /\ f.cType = "DATA"
        /\ f.start = iPos + 1
    BY <1>1, <2>1, TopRead DEF FrameOK
  <2> HIDE DEF f
  <2>3. iPos + 1 \in Nat /\ iPos < iPos + 1
    BY <1>1, TopRead
  <2>4. Started(doc.chars, f)
    BY <2>1, <2>2, <2>3, DataRead
  <2>5. QED
    BY <1>1, <1>4, <2>1, <2>2, <2>3, <2>4, GoOn
<1>5. Return(Top, iPos + 1) \/ Fail \/ Go(f, iPos + 1)
  BY DEF Greater
<1>6. QED
  BY <1>2, <1>3, <1>4, <1>5

LEMMA AttributeRead == ASSUME IInv, ReadInv, Attribute PROVE ReadInv'
<1>1. frames # <<>> /\ Top.cType = "ATTR"
  BY DEF Attribute, Other, Markup, Plain, In, Scanning
<1>2. CASE Go([Top EXCEPT !.start = iPos], iPos + 1)
  <2> DEFINE f == [Top EXCEPT !.start = iPos]
  <2>1. /\ f.base = Top.base /\ f.elem = Top.elem /\ f.attr = Top.attr /\ f.cType = "ATTR"
        /\ f.start = iPos
    BY <1>1, TopRead DEF FrameOK
  <2>2. Go(f, iPos + 1)
    BY <1>2
  <2> HIDE DEF f
  <2>3. Started(doc.chars, f)
    BY <1>1, <2>1, TopRead DEF Started, Kind, PartsRead
  <2>4. QED
    BY <1>1, <2>1, <2>2, <2>3, TopRead, GoOn
<1>3. CASE Fail
  BY <1>3, FailRead
<1>4. CASE /\ Top.start # -1 /\ Equals
           /\ Go([Top EXCEPT !.attr = Slice(Top.start, iPos), !.start = iPos + 2], iPos + 2)
  <2> DEFINE name == Slice(Top.start, iPos)
             f == [Top EXCEPT !.attr = name, !.start = iPos + 2]
  <2>1. /\ f.base = Top.base /\ f.elem = Top.elem /\ f.attr = name /\ f.cType = "ATTR"
        /\ f.start = iPos + 2
    BY <1>1, TopRead DEF FrameOK
  <2>2. Go(f, iPos + 2)
    BY <1>4
  <2> HIDE DEF f
  <2>3. /\ Within(doc.chars, <<>>, Top.base, Top.start) /\ Top.start \in Nat
        /\ Top.start <= iPos
    BY <1>1, <1>4, TopRead DEF Started, Kind, Equals, FrameOK, Within
  <2>4. Within(doc.chars, <<>> \o name, Top.base, iPos)
    <3>1. /\ doc.chars \in Seq(STRING) /\ iPos \in Nat /\ iPos <= Len(doc.chars)
          /\ Top.start <= Top.start
      BY <1>1, <2>3, TopRead
    <3>2. QED
      BY <2>3, <3>1, WithinLonger, Zenon DEF Slice
  <2>5. name \in Seq(STRING)
    BY <2>3, SliceIsText
  <2> HIDE DEF name
  <2>6. Within(doc.chars, name, Top.base, iPos)
    <3>1. <<>> \o name = name
      BY <2>5, ConcatEmptySeq
    <3>2. QED
      BY <2>4, <3>1
  <2>7. iPos + 2 \in Nat /\ iPos < iPos + 2 /\ iPos <= iPos + 2 /\ iPos \in Nat
    BY <1>1, TopRead
  <2>8. PartsRead(doc.chars, f, iPos)
    BY <1>1, <2>1, <2>6, TopRead DEF PartsRead
  <2>9. Started(doc.chars, f)
    <3>1. Within(doc.chars, f.attr, f.base, f.start)
      BY <2>1, <2>6, <2>7, WithinLater
    <3>2. QED
      BY <2>1, <3>1 DEF Started, Kind
  <2>10. QED
    BY <1>1, <2>1, <2>2, <2>7, <2>8, <2>9, GoOn
<1>5. CASE Top.start # -1 /\ Go(TakeAttribute(Top), iPos + 1)
  <2> DEFINE f == TakeAttribute(Top)
  <2>1. PartsRead(doc.chars, f, iPos)
    BY <1>1, <1>5, TopRead, TakeAttributeRead DEF Started, Kind
  <2>2. f.base = Top.base /\ f.cType = "ATTR" /\ f.start = -1
    BY <1>1, TopRead DEF TakeAttribute, FrameOK
  <2>3. Go(f, iPos + 1)
    BY <1>5
  <2> HIDE DEF f
  <2>4. Started(doc.chars, f)
    BY <2>2 DEF Started, Kind
  <2>5. QED
    BY <1>1, <2>1, <2>2, <2>3, <2>4, TopRead, GoOn
<1>6. CASE Go(Top, iPos + 1)
  BY <1>1, <1>6, TopRead, StayRead
<1>7. QED
  BY <1>2, <1>3, <1>4, <1>5, <1>6 DEF Attribute

LEMMA EndOfTextRead == ASSUME IInv, ReadInv, EndOfText PROVE ReadInv'
BY TopRead, ReturnRead DEF EndOfText

LEMMA SkipRead == ASSUME IInv, ReadInv, Skip PROVE ReadInv'
BY TopRead, StayRead DEF Skip, Other, Markup, Plain, In, Scanning

LEMMA InitReadInv == Init => ReadInv
<1> SUFFICES ASSUME Init PROVE ReadInv
  OBVIOUS
<1>1. PICK e \in Olds : frames = <<Frame(0, e)>>
  BY DEF Init
<1> DEFINE f == Frame(0, e)
<1>2. FrameRead(doc.chars, f, 0) /\ f.base = 0
  BY XmlAssumption, BeginRead
<1> HIDE DEF f
<1>3. Len(<<f>>) = 1 /\ <<f>>[1] = f /\ <<f>> # <<>>
  OBVIOUS
<1>4. frames = <<f>> /\ iPos = 0
  BY <1>1 DEF f, Init
<1>5. \A k \in 1..Len(frames) - 1 : FALSE
  BY <1>3, <1>4
<1>6. QED
  BY <1>2, <1>3, <1>4, <1>5 DEF ReadInv

LEMMA NextReadInv == IInv /\ ReadInv /\ [Next]_vars => ReadInv'
<1> SUFFICES ASSUME IInv, ReadInv, [Next]_vars PROVE ReadInv'
  OBVIOUS
<1>1. CASE Next
  BY <1>1, EndOfTextRead, CommentRead, DeclarationRead, BlankRead, CDataRead,
     BeginCommentRead, BeginCDataRead, BeginDeclarationRead, BeginNameRead,
     EndTagRead, ChildRead, GreaterRead, AttributeRead, SkipRead DEF Next
<1>2. CASE UNCHANGED vars
  BY <1>2 DEF vars, ReadInv
<1>3. QED
  BY <1>1, <1>2

\* What Parse returns is in the text it was given, in front of the length returned, and
\* no two children of an element come from the same part: nothing is invented, moved or
\* left over from what the object held before (XmlElement.cpp:60-243).
ReadFromText ==
  frames = <<>> /\ result.len # -1 => ReadIn(doc.chars, result.elem, 0, result.len)

\* For every text and whatever the object held, the parser invents nothing
\* (XmlElement.cpp:60-243).
THEOREM NothingInvented == Spec => []ReadFromText
<1>1. ReadInv => ReadFromText
  BY DEF ReadInv, ReadFromText
<1>2. QED
  BY <1>1, IInvHolds, InitReadInv, NextReadInv, PTL DEF Spec

-----------------------------------------------------------------------------
(* The levels of the elements read                                         *)

\* A set of numbers has a least one.
LEMMA LeastIn ==
  ASSUME NEW S, S \subseteq Nat, S # {}
  PROVE  \E m \in S : \A x \in S : m <= x
<1>1. IsWellFoundedOn(OpToRel(<, Nat), Nat)
  BY NatLessThanWellFounded
<1>2. PICK m \in S : \A x \in S : <<x, m>> \notin OpToRel(<, Nat)
  BY <1>1, WFMin
<1>3. \A x \in S : ~(x < m)
  BY <1>2 DEF OpToRel
<1>4. \A x \in S : x \in Int
  OBVIOUS
<1>5. QED
  BY <1>3, <1>4

\* Induction up to d.
LEMMA UpTo ==
  ASSUME NEW d \in Nat, NEW P, 0 \in P, \A n \in 1..d : n - 1 \in P => n \in P
  PROVE  \A n \in 0..d : n \in P
<1> SUFFICES ASSUME NEW n \in 0..d, n \notin P PROVE FALSE
  OBVIOUS
<1> DEFINE bad == {m \in 0..d : m \notin P}
<1>1. bad \subseteq Nat /\ bad # {}
  OBVIOUS
<1>2. PICK m \in bad : \A x \in bad : m <= x
  <2> HIDE DEF bad
  <2> QED
    BY <1>1, LeastIn
<1>3. m \in 1..d /\ m - 1 \in 0..d
  BY <1>2
<1>4. m - 1 \in P
  BY <1>2, <1>3
<1>5. QED
  BY <1>2, <1>3, <1>4

\* L are the levels below `kids`, down to d.
AreLevels(L, kids, d) ==
  /\ L[0] = {Root(kids)}
  /\ \A n \in 1..d : \A y :
       y \in L[n] <=> \E x \in L[n - 1] : \E i \in DOMAIN x.kids : y = Beneath(x, i)

\* What the definition of Levels says of them.
Defined(L, kids, d) ==
  L = [n \in 0..d |-> IF n = 0 THEN {Root(kids)}
                      ELSE UNION {{Beneath(x, i) : i \in DOMAIN x.kids} : x \in L[n - 1]}]

\* There are such levels, built one behind the other.
LEMMA LevelsExist ==
  ASSUME NEW kids, NEW d \in Nat
  PROVE  \E L : Defined(L, kids, d)
<1> DEFINE T(L, n) == IF n = 0 THEN {Root(kids)}
                      ELSE UNION {{Beneath(x, i) : i \in DOMAIN x.kids} : x \in L[n - 1]}
           P == {m \in 0..d : \E L : L = [n \in 0..m |-> T(L, n)]}
<1>1. 0 \in P
  <2> DEFINE L == [n \in 0..0 |-> {Root(kids)}]
  <2>1. L = [n \in 0..0 |-> T(L, n)]
    OBVIOUS
  <2> HIDE DEF L
  <2>2. QED
    BY <2>1
<1>2. ASSUME NEW m \in 1..d, m - 1 \in P PROVE m \in P
  <2>1. PICK L : L = [n \in 0..m - 1 |-> T(L, n)]
    BY <1>2
  <2> DEFINE K == [n \in 0..m |-> IF n = m THEN T(L, m) ELSE L[n]]
  <2>2. ASSUME NEW n \in 0..m PROVE K[n] = T(K, n)
    <3>1. CASE n = m
      <4>1. m # 0 /\ m - 1 \in 0..m /\ m - 1 # m
        OBVIOUS
      <4>2. K[m - 1] = L[m - 1] /\ K[m] = T(L, m)
        BY <4>1
      <4> HIDE DEF K
      <4>3. QED
        BY <3>1, <4>1, <4>2
    <3>2. CASE n # m /\ n # 0
      <4>1. n \in 0..m - 1 /\ n - 1 \in 0..m - 1 /\ n - 1 # m /\ n - 1 \in 0..m
        BY <3>2
      <4>2. K[n] = L[n] /\ K[n - 1] = L[n - 1]
        BY <3>2, <4>1
      <4>3. L[n] = T(L, n)
        BY <2>1, <4>1
      <4> HIDE DEF K
      <4>4. QED
        BY <3>2, <4>2, <4>3
    <3>3. CASE n = 0
      <4>1. n # m /\ n \in 0..m - 1
        BY <3>3
      <4>2. K[n] = L[n] /\ L[n] = T(L, n)
        BY <2>1, <4>1
      <4> HIDE DEF K
      <4>3. QED
        BY <3>3, <4>2
    <3>4. QED
      BY <3>1, <3>2, <3>3
  <2>3. K = [n \in 0..m |-> T(K, n)]
    <3>1. K = [n \in 0..m |-> K[n]]
      OBVIOUS
    <3> HIDE DEF K, T
    <3>2. [n \in 0..m |-> K[n]] = [n \in 0..m |-> T(K, n)]
      BY <2>2
    <3>3. QED
      BY <3>1, <3>2
  <2> HIDE DEF K
  <2>4. QED
    BY <2>3
<1>3. \A m \in 0..d : m \in P
  <2> HIDE DEF P
  <2> QED
    BY <1>1, <1>2, UpTo
<1>4. d \in P
  <2> HIDE DEF P
  <2> QED
    BY <1>3
<1>5. PICK L : L = [n \in 0..d |-> T(L, n)]
  BY <1>4, Zenon
<1>6. Defined(L, kids, d)
  BY <1>5, Zenon DEF Defined
<1>7. QED
  BY <1>6

\* The levels of the search module are levels in this sense.
LEMMA LevelsAre ==
  ASSUME NEW kids, NEW d \in Nat
  PROVE  AreLevels(Levels(kids, d), kids, d)
<1> DEFINE L == Levels(kids, d)
<1>1. L = CHOOSE K : Defined(K, kids, d)
  BY Zenon DEF Levels, Defined
<1> HIDE DEF L
<1>2. Defined(L, kids, d)
  BY <1>1, LevelsExist
<1>3. L[0] = {Root(kids)}
  BY <1>2 DEF Defined
<1>4. ASSUME NEW n \in 1..d
      PROVE  L[n] = UNION {{Beneath(x, i) : i \in DOMAIN x.kids} : x \in L[n - 1]}
  <2>1. n \in 0..d /\ n # 0
    OBVIOUS
  <2>2. QED
    BY <1>2, <2>1, Zenon DEF Defined
<1>5. ASSUME NEW n \in 1..d, NEW y
      PROVE  y \in L[n] <=> \E x \in L[n - 1] : \E i \in DOMAIN x.kids : y = Beneath(x, i)
  <2> DEFINE K == L[n - 1]
  <2>1. L[n] = UNION {{Beneath(x, i) : i \in DOMAIN x.kids} : x \in K}
    BY <1>4
  <2> HIDE DEF K
  <2>2. y \in L[n] <=> \E x \in K : \E i \in DOMAIN x.kids : y = Beneath(x, i)
    BY <2>1
  <2>3. QED
    BY <2>2 DEF K
<1>6. QED
  BY <1>3, <1>5 DEF AreLevels, L

-----------------------------------------------------------------------------
(* Elements at their levels                                                *)

\* kids is the list of children of one of the elements read, whose part of the text
\* begins n characters behind the first or later and ends at d.
ListOf(S, kids, n, d) == \E z \in S : z.elem.kids = kids /\ n <= z.from /\ z.to <= d

\* What is known of such a list.
LEMMA ListRead ==
  ASSUME NEW t, NEW S, Nested(t, S), NEW kids, NEW n \in Nat, NEW d \in Nat, ListOf(S, kids, n, d)
  PROVE  /\ n <= d /\ Len(kids) \in Nat /\ DOMAIN kids = 1..Len(kids)
         /\ \A i \in 1..Len(kids) : /\ kids[i].name \in Seq(STRING)
                                    /\ n + 1 <= d /\ ListOf(S, kids[i].kids, n + 1, d)
<1>1. PICK z \in S : z.elem.kids = kids /\ n <= z.from /\ z.to <= d
  BY DEF ListOf
<1>2. z.from \in Nat /\ z.to \in Nat /\ z.from <= z.to
  BY DEF Nested
<1>3. PICK parts \in Seq(S) : Chain(kids, parts, z.from, z.to)
  BY <1>1 DEF Nested
<1> DEFINE l == Len(parts)
<1>4. l \in Nat /\ \A k \in 1..l : parts[k] \in S
  BY <1>3, LenProperties, ElementOfSeq
<1>5. kids = [k \in 1..l |-> parts[k].elem]
  BY <1>3 DEF Chain
<1>6. \A k \in 1..l : z.from < parts[k].from /\ parts[k].to <= z.to
  BY <1>3 DEF Chain
<1> HIDE DEF l
<1>7. kids \in Seq({parts[k].elem : k \in 1..l})
  BY <1>4, <1>5
<1>8. Len(kids) \in Nat /\ DOMAIN kids = 1..Len(kids)
  BY <1>7, LenProperties
<1>9. DOMAIN kids = 1..l
  BY <1>5
<1>10. ASSUME NEW i \in 1..l
       PROVE  kids[i].name \in Seq(STRING) /\ n + 1 <= d /\ ListOf(S, kids[i].kids, n + 1, d)
  <2>1. kids[i] = parts[i].elem /\ parts[i] \in S
    BY <1>4, <1>5
  <2>2. /\ parts[i].from \in Nat /\ parts[i].to \in Nat /\ parts[i].from <= parts[i].to
        /\ Own(t, parts[i].elem, parts[i].from, parts[i].to)
    BY <2>1 DEF Nested
  <2>3. kids[i].name \in Seq(STRING)
    BY <2>1, <2>2 DEF Own, Within
  <2>4. n + 1 <= parts[i].from /\ parts[i].to <= d
    BY <1>1, <1>2, <1>6, <2>2
  <2>5. QED
    BY <2>1, <2>2, <2>3, <2>4 DEF ListOf
<1>11. \A i \in 1..Len(kids) : i \in 1..l
  BY <1>8, <1>9
<1>12. n <= d
  BY <1>1, <1>2
<1>13. \A i \in 1..Len(kids) : /\ kids[i].name \in Seq(STRING)
                               /\ n + 1 <= d /\ ListOf(S, kids[i].kids, n + 1, d)
  BY <1>10, <1>11
<1>14. QED
  BY <1>8, <1>12, <1>13

\* x is at level n, behind n names.
IsSpot(x, n) ==
  /\ x.path \in Seq(Nat) /\ Len(x.path) = n /\ \A m \in 1..n : x.path[m] >= 1
  /\ x.tags \in Seq(Seq(STRING)) /\ Len(x.tags) = n

\* A child is one level and one name further.
LEMMA BeneathIsSpot ==
  ASSUME NEW x, NEW n \in Nat, IsSpot(x, n), NEW i \in Nat, i >= 1, x.kids[i].name \in Seq(STRING)
  PROVE  /\ IsSpot(Beneath(x, i), n + 1)
         /\ \A m \in 1..n : /\ Beneath(x, i).path[m] = x.path[m]
                            /\ Beneath(x, i).tags[m] = x.tags[m]
         /\ Beneath(x, i).path[n + 1] = i /\ Beneath(x, i).tags[n + 1] = x.kids[i].name
<1> DEFINE p == x.path
           s == x.tags
           e == x.kids[i].name
           y == Beneath(x, i)
<1>1. y.path = Append(p, i) /\ y.tags = Append(s, e)
  BY DEF Beneath
<1>2. p \in Seq(Nat) /\ Len(p) = n /\ s \in Seq(Seq(STRING)) /\ Len(s) = n /\ e \in Seq(STRING)
      /\ \A m \in 1..n : p[m] >= 1
  BY DEF IsSpot
<1> HIDE DEF p, s, e, y
<1>3. /\ Append(p, i) \in Seq(Nat) /\ Len(Append(p, i)) = n + 1
      /\ Append(p, i)[n + 1] = i /\ \A m \in 1..n : Append(p, i)[m] = p[m]
  BY <1>2, AppendProperties
<1>4. /\ Append(s, e) \in Seq(Seq(STRING)) /\ Len(Append(s, e)) = n + 1
      /\ Append(s, e)[n + 1] = e /\ \A m \in 1..n : Append(s, e)[m] = s[m]
  BY <1>2, AppendProperties
<1>5. \A m \in 1..n + 1 : y.path[m] >= 1
  BY <1>1, <1>2, <1>3
<1>6. QED
  BY <1>1, <1>3, <1>4, <1>5 DEF IsSpot, p, s, e, y

\* What is at a level of the element read.
LEMMA LevelRead ==
  ASSUME NEW t, NEW S, Nested(t, S), NEW kids, NEW d \in Nat, ListOf(S, kids, 0, d),
         NEW L, AreLevels(L, kids, d)
  PROVE  \A n \in 0..d : \A x \in L[n] : IsSpot(x, n) /\ ListOf(S, x.kids, n, d)
<1> DEFINE P == {n \in 0..d : \A x \in L[n] : IsSpot(x, n) /\ ListOf(S, x.kids, n, d)}
<1>1. 0 \in P
  <2>1. IsSpot(Root(kids), 0) /\ Root(kids).kids = kids
    BY EmptySeq DEF IsSpot, Root
  <2>2. QED
    BY <2>1 DEF AreLevels
<1>2. ASSUME NEW n \in 1..d, n - 1 \in P PROVE n \in P
  <2>1. SUFFICES ASSUME NEW y \in L[n] PROVE IsSpot(y, n) /\ ListOf(S, y.kids, n, d)
    OBVIOUS
  <2>2. PICK x \in L[n - 1] : \E i \in DOMAIN x.kids : y = Beneath(x, i)
    BY DEF AreLevels
  <2>3. IsSpot(x, n - 1) /\ ListOf(S, x.kids, n - 1, d) /\ n - 1 \in Nat
    BY <1>2
  <2>4. PICK i \in DOMAIN x.kids : y = Beneath(x, i)
    BY <2>2
  <2>5. i \in Nat /\ i >= 1 /\ i \in 1..Len(x.kids)
    BY <2>3, ListRead
  <2>6. x.kids[i].name \in Seq(STRING) /\ ListOf(S, x.kids[i].kids, (n - 1) + 1, d)
    BY <2>3, <2>5, ListRead
  <2>7. IsSpot(y, (n - 1) + 1) /\ y.kids = x.kids[i].kids
    BY <2>4, <2>3, <2>5, <2>6, BeneathIsSpot DEF Beneath
  <2>8. (n - 1) + 1 = n
    OBVIOUS
  <2>9. QED
    BY <2>6, <2>7, <2>8
<1>3. \A n \in 0..d : n \in P
  <2> HIDE DEF P
  <2> QED
    BY <1>1, <1>2, UpTo
<1>4. QED
  BY <1>3

\* p goes on where c ends.
Extends(p, c) == Len(c) <= Len(p) /\ \A m \in 1..Len(c) : p[m] = c[m]

\* z is on the way to x, which is one of its children or below one.
Above(z, x, m) == /\ Extends(x.path, z.path) /\ Extends(x.tags, z.tags)
                  /\ x.path[m + 1] \in 1..Len(z.kids)

\* An element is below one of every level above it.
LEMMA LevelAbove ==
  ASSUME NEW t, NEW S, Nested(t, S), NEW kids, NEW d \in Nat, ListOf(S, kids, 0, d),
         NEW L, AreLevels(L, kids, d)
  PROVE  \A n \in 0..d : \A x \in L[n] : \A m \in 0..n - 1 : \E z \in L[m] : Above(z, x, m)
<1> DEFINE P == {n \in 0..d : \A x \in L[n] : \A m \in 0..n - 1 : \E z \in L[m] : Above(z, x, m)}
<1>1. 0 \in P
  OBVIOUS
<1>2. ASSUME NEW n \in 1..d, n - 1 \in P PROVE n \in P
  <2>1. SUFFICES ASSUME NEW y \in L[n], NEW m \in 0..n - 1 PROVE \E z \in L[m] : Above(z, y, m)
    OBVIOUS
  <2>2. PICK x \in L[n - 1] : \E i \in DOMAIN x.kids : y = Beneath(x, i)
    BY DEF AreLevels
  <2>3. PICK i \in DOMAIN x.kids : y = Beneath(x, i)
    BY <2>2
  <2>4. IsSpot(x, n - 1) /\ ListOf(S, x.kids, n - 1, d) /\ n - 1 \in Nat
    BY LevelRead
  <2>5. i \in Nat /\ i >= 1 /\ i \in 1..Len(x.kids) /\ x.kids[i].name \in Seq(STRING)
    BY <2>4, ListRead
  <2>6. /\ IsSpot(y, (n - 1) + 1)
        /\ \A k \in 1..n - 1 : y.path[k] = x.path[k] /\ y.tags[k] = x.tags[k]
        /\ y.path[(n - 1) + 1] = i
    BY <2>3, <2>4, <2>5, BeneathIsSpot
  <2>7. (n - 1) + 1 = n
    OBVIOUS
  <2>8. /\ Len(y.path) = n /\ Len(y.tags) = n /\ Len(x.path) = n - 1 /\ Len(x.tags) = n - 1
        /\ y.path[n] = i
    BY <2>4, <2>6, <2>7 DEF IsSpot
  <2>9. CASE m = n - 1
    <3>1. Above(x, y, m)
      BY <2>5, <2>6, <2>8, <2>9 DEF Above, Extends
    <3>2. QED
      BY <2>9, <3>1
  <2>10. CASE m # n - 1
    <3>1. m \in 0..(n - 1) - 1
      BY <2>10
    <3>2. PICK z \in L[m] : Above(z, x, m)
      BY <1>2, <3>1
    <3>3. IsSpot(z, m) /\ m + 1 \in 1..n - 1
      BY <3>1, LevelRead
    <3>4. Len(z.path) = m /\ Len(z.tags) = m
      BY <3>3 DEF IsSpot
    <3>5. Above(z, y, m)
      BY <2>6, <2>8, <3>2, <3>3, <3>4 DEF Above, Extends
    <3>6. QED
      BY <3>5
  <2>11. QED
    BY <2>9, <2>10
<1>3. \A n \in 0..d : n \in P
  <2> HIDE DEF P
  <2> QED
    BY <1>1, <1>2, UpTo
<1>4. QED
  BY <1>3

\* A path leads to one element.
LEMMA LevelOne ==
  ASSUME NEW t, NEW S, Nested(t, S), NEW kids, NEW d \in Nat, ListOf(S, kids, 0, d),
         NEW L, AreLevels(L, kids, d)
  PROVE  \A n \in 0..d : \A x, y \in L[n] : (\A m \in 1..n : x.path[m] = y.path[m]) => x = y
<1> DEFINE P == {n \in 0..d :
                   \A x, y \in L[n] : (\A m \in 1..n : x.path[m] = y.path[m]) => x = y}
<1>1. 0 \in P
  BY DEF AreLevels
<1>2. ASSUME NEW n \in 1..d, n - 1 \in P PROVE n \in P
  <2>1. SUFFICES ASSUME NEW u \in L[n], NEW v \in L[n], \A m \in 1..n : u.path[m] = v.path[m]
                 PROVE  u = v
    OBVIOUS
  <2>2. ASSUME NEW y \in L[n]
        PROVE  \E x \in L[n - 1] : \E i \in DOMAIN x.kids :
                 /\ y = Beneath(x, i) /\ y.path[n] = i
                 /\ \A k \in 1..n - 1 : y.path[k] = x.path[k]
    <3>1. PICK x \in L[n - 1] : \E i \in DOMAIN x.kids : y = Beneath(x, i)
      BY DEF AreLevels
    <3>2. PICK i \in DOMAIN x.kids : y = Beneath(x, i)
      BY <3>1
    <3>3. IsSpot(x, n - 1) /\ ListOf(S, x.kids, n - 1, d) /\ n - 1 \in Nat
      BY LevelRead
    <3>4. i \in Nat /\ i >= 1 /\ i \in 1..Len(x.kids) /\ x.kids[i].name \in Seq(STRING)
      BY <3>3, ListRead
    <3>5. /\ \A k \in 1..n - 1 : y.path[k] = x.path[k] /\ y.tags[k] = x.tags[k]
          /\ y.path[(n - 1) + 1] = i
      BY <3>2, <3>3, <3>4, BeneathIsSpot
    <3>6. (n - 1) + 1 = n
      OBVIOUS
    <3>7. QED
      BY <3>2, <3>5, <3>6
  <2>3. PICK x \in L[n - 1] : \E i \in DOMAIN x.kids :
                 /\ u = Beneath(x, i) /\ u.path[n] = i
                 /\ \A k \in 1..n - 1 : u.path[k] = x.path[k]
    BY <2>2
  <2>4. PICK z \in L[n - 1] : \E i \in DOMAIN z.kids :
                 /\ v = Beneath(z, i) /\ v.path[n] = i
                 /\ \A k \in 1..n - 1 : v.path[k] = z.path[k]
    BY <2>2
  <2>5. \A k \in 1..n - 1 : k \in 1..n
    OBVIOUS
  <2>6. x = z
    BY <1>2, <2>1, <2>3, <2>4, <2>5
  <2>7. u.path[n] = v.path[n]
    BY <2>1
  <2>8. QED
    BY <2>3, <2>4, <2>6, <2>7
<1>3. \A n \in 0..d : n \in P
  <2> HIDE DEF P
  <2> QED
    BY <1>1, <1>2, UpTo
<1>4. QED
  BY <1>3

-----------------------------------------------------------------------------
(* The order of the text, and names on a way                               *)

\* p is in front of the k-th child of c.
Passed(p, c, k) ==
  Before(p, c) \/ (Extends(p, c) /\ (Len(p) = Len(c) \/ p[Len(c) + 1] < k))

\* What is in front of a child: what is in front of its element, that element, and
\* its children with lower numbers with all that is below them.
LEMMA BeforeChild ==
  ASSUME NEW p \in Seq(Nat), NEW c \in Seq(Nat), NEW k \in Nat
  PROVE  Before(p, Append(c, k)) <=> Passed(p, c, k)
<1> DEFINE q == Append(c, k)
           d == Len(c)
           l == Len(p)
<1>1. q \in Seq(Nat) /\ Len(q) = d + 1 /\ q[d + 1] = k /\ \A m \in 1..d : q[m] = c[m]
  BY AppendProperties
<1>2. d \in Nat /\ l \in Nat /\ \A m \in 1..l : p[m] \in Nat
  BY LenProperties, ElementOfSeq
<1>3. \A m \in 1..d : c[m] \in Nat
  BY LenProperties, ElementOfSeq
<1> DEFINE Differ(r, n) == /\ n <= l + 1 /\ \A m \in 1..n - 1 : p[m] = r[m]
                           /\ n <= l => p[n] < r[n]
<1>4. Before(p, q) <=> \E n \in 1..d + 1 : Differ(q, n)
  BY <1>1 DEF Before
<1>5. Before(p, c) <=> \E n \in 1..d : Differ(c, n)
  BY DEF Before
<1>6. Extends(p, c) <=> d <= l /\ \A m \in 1..d : p[m] = c[m]
  BY DEF Extends
<1> HIDE DEF q, d, l
<1>7. \A n \in 1..d : Differ(q, n) <=> Differ(c, n)
  <2> TAKE n \in 1..d
  <2>1. \A m \in 1..n - 1 : m \in 1..d
    BY <1>2
  <2>2. QED
    BY <1>1, <2>1
<1>8. Differ(q, d + 1) <=> Extends(p, c) /\ (l = d \/ p[d + 1] < k)
  <2>1. \A m \in 1..(d + 1) - 1 : m \in 1..d
    BY <1>2
  <2>2. \A m \in 1..d : m \in 1..(d + 1) - 1
    BY <1>2
  <2>3. (\A m \in 1..(d + 1) - 1 : p[m] = q[m]) <=> (\A m \in 1..d : p[m] = c[m])
    BY <1>1, <2>1, <2>2
  <2>4. QED
    BY <1>1, <1>2, <1>6, <2>3
<1> HIDE DEF Differ
<1>9. (\E n \in 1..d + 1 : Differ(q, n)) <=> ((\E n \in 1..d : Differ(q, n)) \/ Differ(q, d + 1))
  <2>1. 1..d + 1 = (1..d) \cup {d + 1}
    BY <1>2
  <2>2. QED
    BY <2>1
<1>10. Passed(p, c, k) <=> Before(p, c) \/ (Extends(p, c) /\ (l = d \/ p[d + 1] < k))
  BY Zenon DEF Passed, d, l
<1>11. QED
  BY <1>4, <1>5, <1>7, <1>8, <1>9, <1>10, Zenon DEF q

\* The first k names are on the way T at the places f.
Placed(f, T, names, k) == /\ k \in Nat /\ Len(T) \in Nat
                          /\ f \in [1..k -> 1..Len(T)] /\ Greedy(f, T, names, k)

\* They are the same places up to the k-th.
Agree(f, g, k) == \A i \in 1..k : f[i] = g[i]

\* The place of a name is the first behind the one before it, so it is the same
\* on every longer way.
LEMMA GreedyOnce ==
  ASSUME NEW T, NEW U, NEW names, NEW k, NEW K, NEW f, NEW g, Extends(U, T),
         Placed(f, T, names, k), Placed(g, U, names, K), k <= K
  PROVE  Agree(f, g, k)
<1> USE DEF Placed
<1> DEFINE P == {i \in 0..k : i >= 1 => f[i] = g[i]}
           l == Len(T)
<1>1. l \in Nat /\ l <= Len(U) /\ \A m \in 1..l : U[m] = T[m]
  BY DEF Extends
<1>2. 0 \in P
  OBVIOUS
<1>3. ASSUME NEW i \in 1..k, i - 1 \in P PROVE i \in P
  <2>1. /\ T[f[i]] = names[i] /\ (i > 1 => f[i - 1] < f[i])
        /\ \A n \in 1..f[i] - 1 : T[n] = names[i] => i > 1 /\ n <= f[i - 1]
    BY DEF Greedy
  <2>2. /\ U[g[i]] = names[i] /\ (i > 1 => g[i - 1] < g[i])
        /\ \A n \in 1..g[i] - 1 : U[n] = names[i] => i > 1 /\ n <= g[i - 1]
    <3>1. i \in 1..K
      OBVIOUS
    <3>2. QED
      BY <3>1 DEF Greedy
  <2>3. f[i] \in 1..l /\ g[i] \in 1..Len(U) /\ g[i] \in Nat
    OBVIOUS
  <2>4. i > 1 => f[i - 1] = g[i - 1] /\ f[i - 1] \in 1..l
    <3> SUFFICES ASSUME i > 1 PROVE f[i - 1] = g[i - 1] /\ f[i - 1] \in 1..l
      OBVIOUS
    <3>1. i - 1 \in 1..k
      OBVIOUS
    <3>2. f[i - 1] = g[i - 1]
      BY <1>3, <3>1
    <3>3. QED
      BY <3>1, <3>2
  <2> HIDE DEF P, l
  <2>5. ~(g[i] < f[i])
    <3> SUFFICES ASSUME g[i] < f[i] PROVE FALSE
      OBVIOUS
    <3>1. g[i] \in 1..f[i] - 1 /\ g[i] \in 1..l
      BY <1>1, <2>3
    <3>2. T[g[i]] = names[i]
      BY <1>1, <2>2, <3>1
    <3>3. i > 1 /\ g[i] <= f[i - 1]
      BY <2>1, <3>1, <3>2
    <3>4. f[i - 1] < g[i] /\ f[i - 1] \in 1..l
      BY <2>2, <2>4, <3>3
    <3>5. QED
      BY <1>1, <2>3, <3>3, <3>4
  <2>6. ~(f[i] < g[i])
    <3> SUFFICES ASSUME f[i] < g[i] PROVE FALSE
      OBVIOUS
    <3>1. f[i] \in 1..g[i] - 1
      BY <1>1, <2>3
    <3>2. U[f[i]] = names[i]
      BY <1>1, <2>1, <2>3
    <3>3. QED
      BY <1>1, <2>1, <2>2, <2>3, <2>4, <3>1, <3>2
  <2>7. f[i] = g[i]
    BY <1>1, <2>3, <2>5, <2>6
  <2>8. QED
    BY <2>7 DEF P
<1>4. \A i \in 0..k : i \in P
  <2> HIDE DEF P
  <2> QED
    BY <1>2, <1>3, UpTo
<1>5. QED
  BY <1>4 DEF Agree

\* The places of the names follow one another.
LEMMA GreedyGrows ==
  ASSUME NEW U, NEW names, NEW K \in Nat, Len(U) \in Nat,
         NEW g \in [1..K -> 1..Len(U)], Greedy(g, U, names, K), NEW j \in 1..K
  PROVE  \A i \in 1..j - 1 : g[i] < g[j]
<1> DEFINE P == {n \in 0..K : \A i \in 1..n - 1 : g[i] < g[n]}
<1>1. 0 \in P
  OBVIOUS
<1>2. ASSUME NEW n \in 1..K, n - 1 \in P PROVE n \in P
  <2>1. n > 1 => g[n - 1] < g[n]
    BY DEF Greedy
  <2>2. \A i \in 1..K : g[i] \in Int
    OBVIOUS
  <2>3. ASSUME NEW i \in 1..n - 1 PROVE g[i] < g[n]
    <3>1. CASE i = n - 1
      BY <2>1, <3>1
    <3>2. CASE i # n - 1
      <4>1. i \in 1..(n - 1) - 1 /\ n - 1 \in 1..K /\ i \in 1..K
        BY <3>2
      <4>2. g[i] < g[n - 1]
        BY <1>2, <4>1
      <4>3. QED
        BY <2>1, <2>2, <4>1, <4>2
    <3>3. QED
      BY <3>1, <3>2
  <2>4. QED
    BY <2>3
<1>3. \A n \in 0..K : n \in P
  <2> HIDE DEF P
  <2> QED
    BY <1>1, <1>2, UpTo
<1>4. QED
  BY <1>3

\* The first k names are on the way T, and the next one is not on it.
Met(T, names, k) ==
  /\ k \in Nat /\ k < Len(names)
  /\ \E f \in [1..k -> 1..Len(T)] :
       /\ Greedy(f, T, names, k)
       /\ \A n \in 1..Len(T) : T[n] = names[k + 1] => k > 0 /\ n <= f[k]

\* At the first element no name was met.
LEMMA NoneMet ==
  ASSUME NEW names, Len(names) \in Nat, Len(names) > 0
  PROVE  Met(<<>>, names, 0)
<1> DEFINE f == [n \in 1..0 |-> 0]
<1>1. f \in [1..0 -> 1..Len(<<>>)] /\ Greedy(f, <<>>, names, 0)
  BY DEF Greedy
<1>2. \A n \in 1..Len(<<>>) : FALSE
  OBVIOUS
<1> HIDE DEF f
<1>3. QED
  BY <1>1, <1>2 DEF Met

\* The way to a child: one name more.
Longer(V, T, e) == /\ Len(T) \in Nat /\ Len(V) = Len(T) + 1 /\ V[Len(T) + 1] = e
                   /\ \A m \in 1..Len(T) : V[m] = T[m]

\* The places of the first names stay where they are on a longer way.
LEMMA GreedyLonger ==
  ASSUME NEW T, NEW V, Len(T) \in Nat, Len(V) \in Nat, Extends(V, T), NEW names, NEW k \in Nat,
         NEW f \in [1..k -> 1..Len(T)], Greedy(f, T, names, k)
  PROVE  f \in [1..k -> 1..Len(V)] /\ Greedy(f, V, names, k)
<1> DEFINE l == Len(T)
<1>1. l \in Nat /\ l <= Len(V) /\ \A m \in 1..l : V[m] = T[m]
  BY DEF Extends
<1> HIDE DEF l
<1>2. f \in [1..k -> 1..l]
  BY DEF l
<1>3. f \in [1..k -> 1..Len(V)]
  BY <1>1, <1>2
<1>4. ASSUME NEW i \in 1..k
      PROVE  /\ V[f[i]] = names[i]
             /\ i > 1 => f[i - 1] < f[i]
             /\ \A n \in 1..f[i] - 1 : V[n] = names[i] => i > 1 /\ n <= f[i - 1]
  <2>1. /\ T[f[i]] = names[i]
        /\ i > 1 => f[i - 1] < f[i]
        /\ \A n \in 1..f[i] - 1 : T[n] = names[i] => i > 1 /\ n <= f[i - 1]
    BY DEF Greedy
  <2>2. f[i] \in 1..l /\ \A n \in 1..f[i] - 1 : n \in 1..l
    BY <1>1, <1>2
  <2>3. QED
    BY <1>1, <2>1, <2>2
<1>5. QED
  BY <1>3, <1>4 DEF Greedy

\* An element without the next name is on the way as any other.
LEMMA MetOther ==
  ASSUME NEW T, NEW V, NEW e, NEW names, NEW k, Met(T, names, k), Longer(V, T, e),
         e # names[k + 1]
  PROVE  Met(V, names, k)
<1>1. PICK f \in [1..k -> 1..Len(T)] :
        /\ Greedy(f, T, names, k)
        /\ \A n \in 1..Len(T) : T[n] = names[k + 1] => k > 0 /\ n <= f[k]
  BY DEF Met
<1>2. Extends(V, T) /\ Len(V) \in Nat /\ Len(T) \in Nat /\ k \in Nat
  BY DEF Longer, Extends, Met
<1>3. f \in [1..k -> 1..Len(V)] /\ Greedy(f, V, names, k)
  BY <1>1, <1>2, GreedyLonger
<1>4. ASSUME NEW n \in 1..Len(V), V[n] = names[k + 1] PROVE k > 0 /\ n <= f[k]
  <2>1. n \in 1..Len(T)
    BY <1>4 DEF Longer
  <2>2. QED
    BY <1>1, <1>4, <2>1 DEF Longer
<1>5. QED
  BY <1>3, <1>4 DEF Met

\* One with the next name, which is not the last, is where the name is met.
LEMMA MetNext ==
  ASSUME NEW T, NEW V, NEW e, NEW names, NEW k, Met(T, names, k), Longer(V, T, e),
         e = names[k + 1], Len(names) \in Nat
  PROVE  /\ k + 1 = Len(names) => Meant(V, names)
         /\ k + 1 < Len(names) => Met(V, names, k + 1)
<1>1. PICK f \in [1..k -> 1..Len(T)] :
        /\ Greedy(f, T, names, k)
        /\ \A n \in 1..Len(T) : T[n] = names[k + 1] => k > 0 /\ n <= f[k]
  BY DEF Met
<1>2. Extends(V, T) /\ Len(V) \in Nat /\ Len(T) \in Nat /\ k \in Nat
  BY DEF Longer, Extends, Met
<1>3. f \in [1..k -> 1..Len(V)] /\ Greedy(f, V, names, k)
  BY <1>1, <1>2, GreedyLonger
<1> DEFINE v == Len(V)
           g == [i \in 1..k + 1 |-> IF i = k + 1 THEN v ELSE f[i]]
<1>4. v = Len(T) + 1 /\ v \in 1..v /\ V[v] = names[k + 1]
  BY <1>2 DEF Longer
<1>5. g \in [1..k + 1 -> 1..v] /\ g[k + 1] = v /\ \A i \in 1..k : g[i] = f[i] /\ f[i] \in 1..Len(T)
  BY <1>1, <1>2, <1>3, <1>4
<1> HIDE DEF g, v
<1>6. ASSUME NEW i \in 1..k + 1
      PROVE  /\ V[g[i]] = names[i]
             /\ i > 1 => g[i - 1] < g[i]
             /\ \A n \in 1..g[i] - 1 : V[n] = names[i] => i > 1 /\ n <= g[i - 1]
  <2>1. CASE i = k + 1
    <3>1. V[g[i]] = names[i]
      BY <1>4, <1>5, <2>1
    <3>2. i > 1 => g[i - 1] = f[k] /\ f[k] \in 1..Len(T)
      BY <1>2, <1>5, <2>1
    <3>3. ASSUME NEW n \in 1..g[i] - 1, V[n] = names[i] PROVE k > 0 /\ n <= f[k]
      <4>1. n \in 1..Len(T)
        BY <1>2, <1>4, <1>5, <2>1
      <4>2. T[n] = names[k + 1]
        BY <2>1, <3>3, <4>1 DEF Longer
      <4>3. QED
        BY <1>1, <4>1, <4>2
    <3>4. QED
      BY <1>2, <1>4, <1>5, <2>1, <3>1, <3>2, <3>3
  <2>2. CASE i # k + 1
    <3>1. i \in 1..k
      BY <1>2, <2>2
    <3>2. /\ V[f[i]] = names[i]
          /\ i > 1 => f[i - 1] < f[i]
          /\ \A n \in 1..f[i] - 1 : V[n] = names[i] => i > 1 /\ n <= f[i - 1]
      BY <1>3, <3>1 DEF Greedy
    <3>3. g[i] = f[i] /\ (i > 1 => g[i - 1] = f[i - 1])
      BY <1>2, <1>5, <3>1
    <3>4. QED
      BY <3>2, <3>3
  <2>3. QED
    BY <2>1, <2>2
<1>7. Greedy(g, V, names, k + 1)
  BY <1>6 DEF Greedy
<1>8. k + 1 = Len(names) => Meant(V, names)
  BY <1>2, <1>5, <1>7 DEF Meant, v
<1>9. ASSUME k + 1 < Len(names) PROVE Met(V, names, k + 1)
  <2>1. \A n \in 1..Len(V) : n <= g[k + 1]
    BY <1>2, <1>5 DEF v
  <2>2. k + 1 \in Nat /\ k + 1 > 0
    BY <1>2
  <2>3. QED
    BY <1>5, <1>7, <1>9, <2>1, <2>2 DEF Met, v
<1>10. QED
  BY <1>8, <1>9

\* What is meant below a child: not the child itself unless it has the last name, and
\* nothing below one that has.
LEMMA MeantBelow ==
  ASSUME NEW T, NEW V, NEW e, NEW names, NEW k, Met(T, names, k), Longer(V, T, e),
         Len(names) \in Nat, NEW W, Len(W) \in Nat, Extends(W, V), Meant(W, names)
  PROVE  IF e = names[k + 1] /\ k + 1 = Len(names) THEN Len(W) = Len(V) ELSE Len(W) > Len(V)
<1>1. PICK f \in [1..k -> 1..Len(T)] :
        /\ Greedy(f, T, names, k)
        /\ \A n \in 1..Len(T) : T[n] = names[k + 1] => k > 0 /\ n <= f[k]
  BY DEF Met
<1> DEFINE K == Len(names)
           l == Len(T)
           w == Len(W)
<1>2. k \in Nat /\ K \in Nat /\ k < K /\ l \in Nat /\ w \in Nat
  BY DEF Longer, Met
<1>3. PICK g \in [1..K -> 1..w] : g[K] = w /\ Greedy(g, W, names, K)
  BY DEF Meant
<1>4. w >= l + 1 /\ (\A m \in 1..l : W[m] = T[m]) /\ W[l + 1] = e /\ Len(V) = l + 1
  BY DEF Longer, Extends
<1>5. Extends(W, T)
  BY <1>2, <1>4 DEF Extends
<1>6. /\ k \in Nat /\ K \in Nat /\ k <= K /\ Len(T) \in Nat /\ Len(W) \in Nat
      /\ g \in [1..K -> 1..Len(W)] /\ Greedy(f, T, names, k) /\ Greedy(g, W, names, K)
  BY <1>1, <1>2, <1>3
<1> HIDE DEF K, l, w
<1>7. \A i \in 1..k : f[i] = g[i]
  <2>1. Placed(f, T, names, k) /\ Placed(g, W, names, K)
    BY <1>6 DEF Placed
  <2>2. k <= K
    BY <1>6
  <2>3. Agree(f, g, k)
    BY <1>5, <2>1, <2>2, GreedyOnce, Zenon
  <2>4. QED
    BY <2>3 DEF Agree
<1> DEFINE j == k + 1
<1>8. j \in 1..K /\ g[j] \in 1..w
  BY <1>2, <1>3
<1>9. /\ W[g[j]] = names[j] /\ (j > 1 => g[j - 1] < g[j])
      /\ \A n \in 1..g[j] - 1 : W[n] = names[j] => j > 1 /\ n <= g[j - 1]
  BY <1>3, <1>8 DEF Greedy
<1>10. k > 0 => j - 1 = k /\ g[j - 1] = f[k] /\ f[k] \in 1..l
  BY <1>1, <1>2, <1>7 DEF l
<1>11. g[j] >= l + 1
  <2> SUFFICES ASSUME g[j] <= l PROVE FALSE
    BY <1>2, <1>8
  <2>1. g[j] \in 1..l
    BY <1>8
  <2>2. T[g[j]] = names[k + 1]
    BY <1>4, <1>9, <2>1
  <2>3. k > 0 /\ g[j] <= f[k]
    BY <1>1, <2>1, <2>2 DEF l
  <2>4. QED
    BY <1>2, <1>9, <1>10, <2>1, <2>3
<1>12. k + 1 < K => g[j] < w
  <2> SUFFICES ASSUME k + 1 < K PROVE g[j] < w
    OBVIOUS
  <2>1. j \in 1..K - 1 /\ K \in 1..K
    BY <1>2
  <2>2. g[j] < g[K]
    BY <1>2, <1>3, <2>1, GreedyGrows DEF w
  <2>3. QED
    BY <1>3, <2>2
<1>13. CASE e = names[k + 1] /\ k + 1 = K
  <2>1. ~(w > l + 1)
    <3> SUFFICES ASSUME w > l + 1 PROVE FALSE
      OBVIOUS
    <3>1. g[j] = w /\ l + 1 \in 1..g[j] - 1
      BY <1>2, <1>3, <1>13
    <3>2. j > 1 /\ l + 1 <= g[j - 1]
      BY <1>4, <1>9, <1>13, <3>1
    <3>3. QED
      BY <1>2, <1>10, <3>2
  <2>2. QED
    BY <1>2, <1>4, <1>13, <2>1 DEF K, w
<1>14. CASE ~(e = names[k + 1] /\ k + 1 = K)
  <2>1. w # l + 1
    <3> SUFFICES ASSUME w = l + 1 PROVE FALSE
      OBVIOUS
    <3>1. g[j] = l + 1
      BY <1>2, <1>8, <1>11
    <3>2. k + 1 = K /\ e = names[k + 1]
      BY <1>2, <1>4, <1>9, <1>12, <3>1
    <3>3. QED
      BY <1>14, <3>2
  <2>2. QED
    BY <1>2, <1>4, <1>14, <2>1 DEF K, w
<1>15. QED
  BY <1>13, <1>14

-----------------------------------------------------------------------------
(* What a search passes                                                    *)

\* L are the levels of elements read from the text t, the root's list being kids.
Tree(t, S, kids, d, L) ==
  Nested(t, S) /\ d \in Nat /\ ListOf(S, kids, 0, d) /\ AreLevels(L, kids, d)

\* What the names mean among them.
HitSet(L, d, names) == {x \in UNION {L[n] : n \in 1..d} : Meant(x.tags, names)}

\* What of it is in front of p.
InFront(H, p) == {x \in H : Before(x.path, p)}

\* What is known of an element that is meant.
LEMMA HitIs ==
  ASSUME NEW t, NEW S, NEW kids, NEW d, NEW L, Tree(t, S, kids, d, L), NEW names,
         NEW x \in HitSet(L, d, names)
  PROVE  \E m \in 1..d : x \in L[m] /\ IsSpot(x, m) /\ Meant(x.tags, names)
<1>1. PICK m \in 1..d : x \in L[m]
  BY DEF HitSet
<1>2. m \in 0..d /\ Meant(x.tags, names)
  BY DEF HitSet, Tree
<1>3. IsSpot(x, m)
  BY <1>1, <1>2, LevelRead DEF Tree
<1>4. QED
  BY <1>1, <1>2, <1>3

\* A child of an element at a level is an element of the next one.
LEMMA ChildAt ==
  ASSUME NEW t, NEW S, NEW kids, NEW d, NEW L, Tree(t, S, kids, d, L),
         NEW n \in 0..d, NEW z \in L[n], NEW i \in 1..Len(z.kids)
  PROVE  /\ n \in Nat /\ n + 1 \in 1..d /\ i \in Nat /\ i >= 1
         /\ IsSpot(z, n) /\ Beneath(z, i) \in L[n + 1] /\ IsSpot(Beneath(z, i), n + 1)
         /\ Beneath(z, i).path = Append(z.path, i) /\ Append(z.path, i) \in Seq(Nat)
         /\ Len(Append(z.path, i)) = n + 1
         /\ Longer(Beneath(z, i).tags, z.tags, z.kids[i].name)
<1>1. n \in Nat /\ d \in Nat
  BY DEF Tree
<1>2. IsSpot(z, n) /\ ListOf(S, z.kids, n, d)
  BY LevelRead DEF Tree
<1>3. /\ Len(z.kids) \in Nat /\ DOMAIN z.kids = 1..Len(z.kids)
      /\ z.kids[i].name \in Seq(STRING) /\ n + 1 <= d
  BY <1>1, <1>2, ListRead DEF Tree
<1>4. n + 1 \in 1..d /\ i \in Nat /\ i >= 1 /\ (n + 1) - 1 = n
  BY <1>1, <1>3
<1>5. Beneath(z, i) \in L[n + 1]
  <2>1. \E x \in L[(n + 1) - 1] : \E k \in DOMAIN x.kids : Beneath(z, i) = Beneath(x, k)
    BY <1>3, <1>4
  <2>2. QED
    BY <1>4, <2>1 DEF Tree, AreLevels
<1>6. /\ IsSpot(Beneath(z, i), n + 1)
      /\ \A m \in 1..n : Beneath(z, i).tags[m] = z.tags[m]
      /\ Beneath(z, i).tags[n + 1] = z.kids[i].name
  BY <1>1, <1>2, <1>3, <1>4, BeneathIsSpot
<1>7. Beneath(z, i).path = Append(z.path, i)
  BY DEF Beneath
<1>8. Longer(Beneath(z, i).tags, z.tags, z.kids[i].name)
  BY <1>1, <1>2, <1>6 DEF Longer, IsSpot
<1>9. Append(z.path, i) \in Seq(Nat) /\ Len(Append(z.path, i)) = n + 1
  BY <1>6, <1>7 DEF IsSpot
<1>10. QED
  BY <1>1, <1>2, <1>4, <1>5, <1>6, <1>7, <1>8, <1>9

\* An element that is below a child, or is it.
LEMMA BelowChild ==
  ASSUME NEW t, NEW S, NEW kids, NEW d, NEW L, Tree(t, S, kids, d, L),
         NEW n \in 1..d, NEW y \in L[n], NEW m \in 1..d, NEW x \in L[m], Extends(x.path, y.path)
  PROVE  /\ Extends(x.tags, y.tags)
         /\ Len(x.path) = Len(y.path) => x = y
         /\ Len(x.path) # Len(y.path) => x.path[Len(y.path) + 1] \in 1..Len(y.kids)
<1>1. n \in 0..d /\ m \in 0..d /\ d \in Nat
  BY DEF Tree
<1>2. IsSpot(x, m) /\ IsSpot(y, n)
  BY <1>1, LevelRead DEF Tree
<1>3. Len(x.path) = m /\ Len(y.path) = n /\ n <= m
  BY <1>2 DEF IsSpot, Extends
<1>4. \A k \in 1..n : x.path[k] = y.path[k]
  BY <1>3 DEF Extends
<1>5. CASE m = n
  <2>1. x = y
    BY <1>1, <1>4, <1>5, LevelOne DEF Tree
  <2>2. Extends(y.tags, y.tags)
    BY <1>2 DEF Extends, IsSpot
  <2>3. QED
    BY <1>3, <1>5, <2>1, <2>2
<1>6. CASE m # n
  <2>1. n \in 0..m - 1
    BY <1>1, <1>3, <1>6
  <2>2. PICK z \in L[n] : Above(z, x, n)
    BY <1>1, <2>1, LevelAbove DEF Tree
  <2>3. IsSpot(z, n)
    BY <1>1, LevelRead DEF Tree
  <2>4. \A k \in 1..n : z.path[k] = y.path[k]
    BY <1>4, <2>2, <2>3 DEF Above, Extends, IsSpot
  <2>5. z = y
    BY <1>1, <2>4, LevelOne DEF Tree
  <2>6. QED
    BY <1>3, <1>6, <2>2, <2>5 DEF Above
<1>7. QED
  BY <1>5, <1>6

\* At the start nothing is in front of the search.
LEMMA FrontStart ==
  ASSUME NEW t, NEW S, NEW kids, NEW d, NEW L, Tree(t, S, kids, d, L), NEW names
  PROVE  InFront(HitSet(L, d, names), Append(<<>>, 1)) = {}
<1> DEFINE H == HitSet(L, d, names)
<1>1. ASSUME NEW x \in H PROVE ~Before(x.path, Append(<<>>, 1))
  <2>1. PICK m \in 1..d : IsSpot(x, m)
    BY HitIs
  <2>2. x.path \in Seq(Nat) /\ Len(x.path) = m /\ x.path[1] >= 1 /\ m >= 1
    BY <2>1 DEF IsSpot, Tree
  <2>3. x.path[1] \in Nat
    BY <2>2, ElementOfSeq
  <2>4. <<>> \in Seq(Nat) /\ Len(<<>>) = 0 /\ ~Before(x.path, <<>>)
    BY DEF Before
  <2>5. ~(Len(x.path) = 0 \/ x.path[0 + 1] < 1)
    BY <2>2, <2>3
  <2> HIDE DEF H
  <2>6. QED
    BY <2>2, <2>4, <2>5, BeforeChild DEF Passed
<1>2. QED
  BY <1>1 DEF InFront

\* In front of the next child are a child and all that is below it.
LEMMA BeforeNext ==
  ASSUME NEW p \in Seq(Nat), NEW c \in Seq(Nat), NEW i \in Nat
  PROVE  Before(p, Append(c, i + 1)) <=> Before(p, Append(c, i)) \/ Extends(p, Append(c, i))
<1> DEFINE q == Append(c, i)
           n == Len(c)
           l == Len(p)
<1>1. /\ n \in Nat /\ q \in Seq(Nat) /\ Len(q) = n + 1 /\ q[n + 1] = i
      /\ \A k \in 1..n : q[k] = c[k]
  BY LenProperties, AppendProperties
<1>2. l \in Nat /\ \A k \in 1..l : p[k] \in Nat
  BY LenProperties, ElementOfSeq
<1>3. Extends(p, c) <=> n <= l /\ \A k \in 1..n : p[k] = c[k]
  BY DEF Extends
<1>4. Extends(p, q) <=> n + 1 <= l /\ \A k \in 1..n + 1 : p[k] = q[k]
  BY <1>1 DEF Extends
<1>5. i + 1 \in Nat
  OBVIOUS
<1>6. Before(p, Append(c, i + 1)) <=> Before(p, c) \/ (Extends(p, c) /\ (l = n \/ p[n + 1] < i + 1))
  <2>1. Before(p, Append(c, i + 1)) <=> Passed(p, c, i + 1)
    BY <1>5, BeforeChild, Zenon
  <2>2. QED
    BY <2>1, Zenon DEF Passed
<1>7. Before(p, q) <=> Before(p, c) \/ (Extends(p, c) /\ (l = n \/ p[n + 1] < i))
  <2>1. Before(p, q) <=> Passed(p, c, i)
    BY BeforeChild, Zenon
  <2>2. QED
    BY <2>1, Zenon DEF Passed
<1> HIDE DEF q, n, l
<1>8. Extends(p, q) <=> Extends(p, c) /\ l > n /\ p[n + 1] = i
  <2>1. 1..n + 1 = (1..n) \cup {n + 1}
    BY <1>1
  <2>2. (\A k \in 1..n + 1 : p[k] = q[k]) <=> ((\A k \in 1..n : p[k] = c[k]) /\ p[n + 1] = i)
    BY <1>1, <2>1
  <2>3. QED
    BY <1>1, <1>2, <1>3, <1>4, <2>2
<1>9. Extends(p, c) /\ l # n => p[n + 1] \in Nat /\ l > n
  BY <1>1, <1>2, <1>3
<1>10. QED
  BY <1>1, <1>2, <1>6, <1>7, <1>8, <1>9 DEF q

\* Going on to the next child passes the child with all that is below it.
LEMMA FrontNext ==
  ASSUME NEW t, NEW S, NEW kids, NEW d, NEW L, Tree(t, S, kids, d, L), NEW names,
         NEW c \in Seq(Nat), NEW i \in Nat
  PROVE  LET H == HitSet(L, d, names) IN
         InFront(H, Append(c, i + 1))
           = InFront(H, Append(c, i)) \cup {x \in H : Extends(x.path, Append(c, i))}
<1> DEFINE H == HitSet(L, d, names)
<1>1. \A x \in H : x.path \in Seq(Nat)
  BY HitIs DEF IsSpot
<1> HIDE DEF H
<1>2. \A x \in H : Before(x.path, Append(c, i + 1)) <=>
                    Before(x.path, Append(c, i)) \/ Extends(x.path, Append(c, i))
  BY <1>1, BeforeNext
<1>3. QED
  BY <1>2 DEF InFront, H

\* What is meant below a child with the last name: the child alone.
LEMMA OnlyHit ==
  ASSUME NEW t, NEW S, NEW kids, NEW d, NEW L, Tree(t, S, kids, d, L), NEW names,
         Len(names) \in Nat, NEW n \in 0..d, NEW z \in L[n], NEW i \in 1..Len(z.kids),
         NEW k, Met(z.tags, names, k), z.kids[i].name = names[k + 1], k + 1 = Len(names)
  PROVE  LET H == HitSet(L, d, names)
             p == Append(z.path, i) IN
         /\ Beneath(z, i) \in H
         /\ {x \in H : Extends(x.path, p)} = {Beneath(z, i)}
         /\ Beneath(z, i) \notin InFront(H, p)
<1> DEFINE H == HitSet(L, d, names)
           p == Append(z.path, i)
           y == Beneath(z, i)
           e == z.kids[i].name
<1>1. /\ n + 1 \in 1..d /\ y \in L[n + 1] /\ IsSpot(y, n + 1) /\ y.path = p
      /\ Longer(y.tags, z.tags, e)
  BY ChildAt
<1> HIDE DEF p, y
<1>2. Meant(y.tags, names)
  BY <1>1, MetNext
<1>3. y \in H
  BY <1>1, <1>2 DEF HitSet
<1>4. Extends(y.path, p)
  BY <1>1 DEF Extends, IsSpot
<1>5. ASSUME NEW x \in H, Extends(x.path, p) PROVE x = y
  <2>1. PICK m \in 1..d : x \in L[m] /\ IsSpot(x, m) /\ Meant(x.tags, names)
    BY HitIs
  <2>2. /\ Extends(x.tags, y.tags) /\ (Len(x.path) = Len(y.path) => x = y)
    BY <1>1, <1>5, <2>1, BelowChild
  <2>3. Len(x.tags) \in Nat /\ Len(x.tags) = Len(x.path) /\ Len(y.tags) = Len(y.path)
    BY <1>1, <2>1 DEF IsSpot, Tree
  <2>4. Len(x.tags) = Len(y.tags)
    BY <1>1, <2>1, <2>2, <2>3, MeantBelow
  <2>5. QED
    BY <2>2, <2>3, <2>4
<1>6. ~Before(y.path, p)
  <2>1. \A j \in 1..Len(p) : p[j] \in Nat
    BY <1>1, LenProperties, ElementOfSeq DEF IsSpot
  <2>2. \A j \in 1..Len(p) : ~(p[j] < p[j])
    BY <2>1
  <2>3. Len(p) \in Nat
    BY <1>1, LenProperties DEF IsSpot
  <2>4. QED
    BY <1>1, <2>2, <2>3 DEF Before
<1> HIDE DEF H
<1>7. QED
  BY <1>3, <1>4, <1>5, <1>6, <1>1 DEF InFront, p, y, H

\* Going to the children of another child passes nothing that is meant.
LEMMA FrontDown ==
  ASSUME NEW t, NEW S, NEW kids, NEW d, NEW L, Tree(t, S, kids, d, L), NEW names,
         Len(names) \in Nat, NEW n \in 0..d, NEW z \in L[n], NEW i \in 1..Len(z.kids),
         NEW k, Met(z.tags, names, k), ~(z.kids[i].name = names[k + 1] /\ k + 1 = Len(names))
  PROVE  LET H == HitSet(L, d, names)
             p == Append(z.path, i) IN
         InFront(H, Append(p, 1)) = InFront(H, p)
<1> DEFINE H == HitSet(L, d, names)
           p == Append(z.path, i)
           y == Beneath(z, i)
           e == z.kids[i].name
<1>1. /\ n \in Nat /\ n + 1 \in 1..d /\ y \in L[n + 1] /\ IsSpot(y, n + 1) /\ y.path = p
      /\ Longer(y.tags, z.tags, e) /\ p \in Seq(Nat) /\ Len(p) = n + 1
  BY ChildAt
<1> HIDE DEF p, y
<1>2. ASSUME NEW x \in H PROVE Before(x.path, Append(p, 1)) <=> Before(x.path, p)
  <2>1. PICK m \in 1..d : x \in L[m] /\ IsSpot(x, m) /\ Meant(x.tags, names)
    BY HitIs
  <2>2. /\ x.path \in Seq(Nat) /\ Len(x.path) = m /\ m \in Nat
        /\ \A j \in 1..m : x.path[j] >= 1 /\ x.path[j] \in Nat
    <3>1. x.path \in Seq(Nat) /\ Len(x.path) = m /\ m \in Nat /\ \A j \in 1..m : x.path[j] >= 1
      BY <2>1 DEF IsSpot, Tree
    <3>2. \A j \in 1..m : x.path[j] \in Nat
      BY <3>1, ElementOfSeq
    <3>3. QED
      BY <3>1, <3>2
  <2>3. Before(x.path, Append(p, 1)) <=>
          \/ Before(x.path, p)
          \/ Extends(x.path, p) /\ (Len(x.path) = Len(p) \/ x.path[Len(p) + 1] < 1)
    <3>1. 1 \in Nat
      OBVIOUS
    <3>2. Before(x.path, Append(p, 1)) <=> Passed(x.path, p, 1)
      BY <1>1, <2>2, <3>1, BeforeChild, Zenon
    <3>3. QED
      BY <3>2, Zenon DEF Passed
  <2>4. ASSUME Extends(x.path, p) PROVE Len(x.path) > Len(p)
    <3>1. Extends(x.tags, y.tags)
      BY <1>1, <2>1, <2>4, BelowChild
    <3>2. /\ Len(x.tags) \in Nat /\ Len(x.tags) = Len(x.path) /\ Len(y.tags) = Len(p)
      BY <1>1, <2>1, <2>2 DEF IsSpot
    <3>3. Len(x.tags) > Len(y.tags)
      BY <1>1, <2>1, <3>1, <3>2, MeantBelow
    <3>4. QED
      BY <3>2, <3>3
  <2>5. ASSUME Len(x.path) > Len(p) PROVE ~(x.path[Len(p) + 1] < 1)
    <3>1. Len(p) + 1 \in 1..m
      BY <1>1, <2>2, <2>5
    <3>2. QED
      BY <2>2, <3>1
  <2>6. Len(x.path) > Len(p) => Len(x.path) # Len(p)
    BY <1>1, <2>2
  <2>7. QED
    BY <2>3, <2>4, <2>5, <2>6
<1> HIDE DEF H
<1>3. QED
  BY <1>2 DEF InFront, H, p

\* q is the next child after p.
NextTo(p, q) == \E c \in Seq(Nat) : \E i \in Nat : p = Append(c, i) /\ q = Append(c, i + 1)

\* At the end of a list of children the search has passed their element with all that
\* is below it.
LEMMA FrontUp ==
  ASSUME NEW t, NEW S, NEW kids, NEW d, NEW L, Tree(t, S, kids, d, L), NEW names,
         NEW n \in 1..d, NEW y \in L[n], NEW q, NextTo(y.path, q)
  PROVE  LET H == HitSet(L, d, names) IN
         InFront(H, Append(y.path, Len(y.kids) + 1)) = InFront(H, q)
<1> DEFINE H == HitSet(L, d, names)
           p == y.path
           l == Len(y.kids)
<1>1. PICK c \in Seq(Nat), i \in Nat : p = Append(c, i) /\ q = Append(c, i + 1)
  BY DEF NextTo
<1>2. n \in 0..d /\ n \in Nat /\ d \in Nat
  BY DEF Tree
<1>3. IsSpot(y, n) /\ l \in Nat /\ l + 1 \in Nat
  BY <1>2, LevelRead, ListRead DEF Tree
<1>4. p \in Seq(Nat) /\ Len(p) = n
  BY <1>3 DEF IsSpot
<1>5. ASSUME NEW x \in H
      PROVE  Before(x.path, Append(p, l + 1)) <=> Before(x.path, p) \/ Extends(x.path, p)
  <2>1. PICK m \in 1..d : x \in L[m] /\ IsSpot(x, m)
    BY HitIs
  <2>2. x.path \in Seq(Nat) /\ Len(x.path) = m /\ m \in Nat
    BY <1>2, <2>1 DEF IsSpot
  <2>3. Extends(x.path, p) /\ Len(x.path) # Len(p) => x.path[Len(p) + 1] \in 1..l
    BY <2>1, BelowChild
  <2> HIDE DEF p, l
  <2>4. Before(x.path, Append(p, l + 1)) <=>
          \/ Before(x.path, p)
          \/ Extends(x.path, p) /\ (Len(x.path) = Len(p) \/ x.path[Len(p) + 1] < l + 1)
    <3>1. Before(x.path, Append(p, l + 1)) <=> Passed(x.path, p, l + 1)
      BY <1>3, <1>4, <2>2, BeforeChild
    <3>2. QED
      BY <3>1, Zenon DEF Passed
  <2>5. x.path[Len(p) + 1] \in 1..l => x.path[Len(p) + 1] < l + 1
    BY <1>3
  <2>6. QED
    BY <2>3, <2>4, <2>5
<1>6. ASSUME NEW x \in H
      PROVE  Before(x.path, Append(c, i + 1)) <=> Before(x.path, p) \/ Extends(x.path, p)
  <2>1. x.path \in Seq(Nat)
    BY HitIs DEF IsSpot
  <2> HIDE DEF H, p
  <2>2. Before(x.path, Append(c, i + 1))
          <=> Before(x.path, Append(c, i)) \/ Extends(x.path, Append(c, i))
    BY <2>1, BeforeNext
  <2>3. QED
    BY <1>1, <2>2
<1> HIDE DEF H, p, l
<1>7. InFront(H, Append(p, l + 1)) = InFront(H, Append(c, i + 1))
  BY <1>5, <1>6 DEF InFront
<1>8. QED
  BY <1>1, <1>7 DEF H, p, l

\* And at the end of the outermost list all.
LEMMA FrontEnd ==
  ASSUME NEW t, NEW S, NEW kids, NEW d, NEW L, Tree(t, S, kids, d, L), NEW names
  PROVE  LET H == HitSet(L, d, names) IN
         InFront(H, Append(<<>>, Len(kids) + 1)) = H
<1> DEFINE H == HitSet(L, d, names)
           l == Len(kids)
<1>1. d \in Nat /\ 0 \in 0..d /\ l \in Nat /\ l + 1 \in Nat
  BY ListRead DEF Tree
<1>2. ASSUME NEW x \in H PROVE Before(x.path, Append(<<>>, l + 1))
  <2>1. PICK m \in 1..d : x \in L[m] /\ IsSpot(x, m)
    BY HitIs
  <2>2. x.path \in Seq(Nat) /\ m \in 0..d /\ 0 \in 0..m - 1
    BY <1>1, <2>1 DEF IsSpot
  <2>3. PICK z \in L[0] : Above(z, x, 0)
    BY <2>1, <2>2, LevelAbove DEF Tree
  <2>4. z.kids = kids
    BY DEF Tree, AreLevels, Root
  <2>5. x.path[0 + 1] \in 1..l
    BY <2>3, <2>4 DEF Above
  <2>6. Len(<<>>) = 0 /\ <<>> \in Seq(Nat) /\ Extends(x.path, <<>>)
    BY <2>2 DEF Extends
  <2> HIDE DEF l, H
  <2>7. x.path[0 + 1] < l + 1
    BY <1>1, <2>5
  <2>8. QED
    BY <1>1, <2>2, <2>6, <2>7, BeforeChild DEF Passed
<1> HIDE DEF H, l
<1>3. QED
  BY <1>2 DEF InFront, H, l

-----------------------------------------------------------------------------
(* The calls of a search as a path                                         *)

\* A function on 1..n is its front with its last value.
LEMMA AppendLast ==
  ASSUME NEW S, NEW n \in Nat \ {0}, NEW f \in [1..n -> S], NEW a, a = [i \in 1..n - 1 |-> f[i]]
  PROVE  f = Append(a, f[n]) /\ a \in Seq(S) /\ Len(a) = n - 1
<1>1. n - 1 \in Nat /\ \A i \in 1..n - 1 : f[i] \in S
  OBVIOUS
<1>2. a \in Seq(S) /\ Len(a) = n - 1 /\ \A i \in 1..n - 1 : a[i] = f[i]
  BY <1>1
<1>3. f \in Seq(S) /\ Len(f) = n
  OBVIOUS
<1>4. n \in 1..n /\ f[n] \in S /\ (n - 1) + 1 = n
  OBVIOUS
<1> DEFINE b == Append(a, f[n])
<1>5. b \in Seq(S) /\ Len(b) = n /\ b[n] = f[n] /\ \A i \in 1..n - 1 : b[i] = a[i]
  BY <1>2, <1>4, AppendProperties
<1> HIDE DEF b
<1>6. \A i \in 1..Len(f) : f[i] = b[i]
  BY <1>2, <1>3, <1>5
<1>7. f = b
  BY <1>3, <1>5, <1>6, SeqEqual
<1>8. QED
  BY <1>2, <1>7 DEF b

\* The element whose children the j-th call looks at.
Spot(s, j) == [path |-> [i \in 1..j - 1 |-> s[i].itEL],
               tags |-> [i \in 1..j - 1 |-> s[i].kids[s[i].itEL].name],
               kids |-> s[j].kids]

\* It depends on the calls up to this one.
LEMMA SpotSame ==
  ASSUME NEW s, NEW r, NEW j, \A i \in 1..j - 1 : r[i] = s[i], r[j].kids = s[j].kids
  PROVE  Spot(r, j) = Spot(s, j)
<1>1. [i \in 1..j - 1 |-> r[i].itEL] = [i \in 1..j - 1 |-> s[i].itEL]
  OBVIOUS
<1>2. [i \in 1..j - 1 |-> r[i].kids[r[i].itEL].name]
        = [i \in 1..j - 1 |-> s[i].kids[s[i].itEL].name]
  OBVIOUS
<1>3. QED
  BY <1>1, <1>2 DEF Spot

\* A call for the children of the innermost call's element is one level deeper.
LEMMA SpotDeeper ==
  ASSUME NEW s, NEW r, NEW n \in Nat \ {0}, \A i \in 1..n : s[i].itEL \in Nat,
         \A i \in 1..n : r[i] = s[i], r[n + 1].kids = s[n].kids[s[n].itEL].kids
  PROVE  Spot(r, n + 1) = Beneath(Spot(s, n), s[n].itEL)
<1> DEFINE p == [i \in 1..n |-> s[i].itEL]
           tags == [i \in 1..n |-> s[i].kids[s[i].itEL].name]
           X == {tags[i] : i \in 1..n}
           z == Spot(s, n)
<1>1. p \in [1..n -> Nat] /\ tags \in [1..n -> X] /\ p[n] = s[n].itEL
      /\ tags[n] = s[n].kids[s[n].itEL].name
  <2>1. n \in 1..n
    OBVIOUS
  <2>2. p \in [1..n -> Nat]
    OBVIOUS
  <2>3. p[n] = s[n].itEL /\ tags[n] = s[n].kids[s[n].itEL].name
    BY <2>1
  <2>4. tags \in [1..n -> X]
    <3>1. \A i \in 1..n : tags[i] \in X
      OBVIOUS
    <3>2. tags = [i \in 1..n |-> tags[i]]
      OBVIOUS
    <3> HIDE DEF tags, X
    <3>3. QED
      BY <3>1, <3>2
  <2>5. QED
    BY <2>2, <2>3, <2>4
<1>2. /\ z.path = [i \in 1..n - 1 |-> p[i]] /\ z.tags = [i \in 1..n - 1 |-> tags[i]]
      /\ z.kids = s[n].kids
  BY DEF Spot
<1>3. (n + 1) - 1 = n
  OBVIOUS
<1>4. Spot(r, n + 1) = [path |-> p, tags |-> tags, kids |-> r[n + 1].kids]
  <2>1. [i \in 1..(n + 1) - 1 |-> r[i].itEL] = p
    BY <1>3
  <2>2. [i \in 1..(n + 1) - 1 |-> r[i].kids[r[i].itEL].name] = tags
    BY <1>3
  <2> HIDE DEF p, tags
  <2>3. QED
    BY <2>1, <2>2 DEF Spot
<1> HIDE DEF p, tags, X, z
<1>5. p = Append(z.path, s[n].itEL)
  BY <1>1, <1>2, AppendLast
<1>6. tags = Append(z.tags, s[n].kids[s[n].itEL].name)
  BY <1>1, <1>2, AppendLast
<1>7. Beneath(z, s[n].itEL) = [path |-> p, tags |-> tags, kids |-> r[n + 1].kids]
  BY <1>2, <1>5, <1>6 DEF Beneath
<1>8. QED
  BY <1>4, <1>7 DEF z

-----------------------------------------------------------------------------
(* The calls of a search in progress                                       *)

\* The j-th call is at a level of the tree, behind the names that were met, and looks for
\* the next one.
CallOK(s, j, L, d, names) ==
  /\ DOMAIN s[j] = {"fn", "iName", "kids", "itEL"}
  /\ j - 1 \in 0..d /\ Spot(s, j) \in L[j - 1]
  /\ s[j].itEL \in 1..Len(s[j].kids) + 1
  /\ s[j].iName \in Nat /\ Met(Spot(s, j).tags, names, s[j].iName - 1)
  /\ \/ s[j].fn = "name" /\ s[j].iName = Len(names)
     \/ s[j].fn = "pair" /\ s[j].iName = 1 /\ Len(names) = 2
     \/ s[j].fn = "names"

\* All calls are right, and those that wait are at a child.
StackOK(s, L, d, names) ==
  /\ s # <<>> /\ \E F : s \in Seq(F)
  /\ \A j \in 1..Len(s) : CallOK(s, j, L, d, names)
  /\ \A j \in 1..Len(s) - 1 : s[j].itEL \in 1..Len(s[j].kids)

\* A call is right as long as it and those before it are the same.
LEMMA CallSame ==
  ASSUME NEW s, NEW r, NEW j \in Nat, NEW L, NEW d, NEW names, CallOK(s, j, L, d, names),
         \A i \in 1..j - 1 : r[i] = s[i], r[j] = s[j]
  PROVE  CallOK(r, j, L, d, names)
<1>1. Spot(r, j) = Spot(s, j)
  BY SpotSame
<1>2. QED
  BY <1>1 DEF CallOK

\* Where a search is.
LEMMA StackAt ==
  ASSUME NEW t, NEW S, NEW kids, NEW d, NEW L, Tree(t, S, kids, d, L), NEW names,
         NEW s, StackOK(s, L, d, names)
  PROVE  LET n == Len(s)
             z == Spot(s, n) IN
         /\ n \in Nat \ {0} /\ CallOK(s, n, L, d, names) /\ n - 1 \in 0..d
         /\ z \in L[n - 1] /\ z.path \in Seq(Nat) /\ z.kids = s[n].kids
         /\ Len(z.kids) \in Nat
         /\ Path(s) = Append(z.path, s[n].itEL) /\ Path(s) \in Seq(Nat)
         /\ \A i \in 1..n : s[i].itEL \in Nat
<1> DEFINE n == Len(s)
           z == Spot(s, n)
<1>1. n \in Nat \ {0} /\ d \in Nat
  <2>1. PICK F : s \in Seq(F)
    BY DEF StackOK
  <2>2. QED
    BY <2>1, EmptySeq DEF StackOK, Tree
<1> HIDE DEF n
<1>2. \A j \in 1..n : CallOK(s, j, L, d, names)
  BY DEF StackOK, n
<1>3. ASSUME NEW j \in 1..n PROVE s[j].itEL \in Nat /\ Len(s[j].kids) \in Nat
  <2>1. j - 1 \in 0..d /\ Spot(s, j) \in L[j - 1] /\ Spot(s, j).kids = s[j].kids
    BY <1>2 DEF CallOK, Spot
  <2>2. j - 1 \in Nat /\ ListOf(S, s[j].kids, j - 1, d)
    BY <2>1, LevelRead DEF Tree
  <2>3. Len(s[j].kids) \in Nat
    BY <1>1, <2>2, ListRead DEF Tree
  <2>4. QED
    BY <1>2, <2>3 DEF CallOK
<1>4. n \in 1..n
  BY <1>1
<1>5. CallOK(s, n, L, d, names) /\ n - 1 \in 0..d /\ z \in L[n - 1] /\ z.kids = s[n].kids
  BY <1>2, <1>4 DEF CallOK, Spot
<1> DEFINE p == [j \in 1..n |-> s[j].itEL]
<1>6. p \in [1..n -> Nat] /\ p[n] = s[n].itEL /\ Path(s) = p
  BY <1>3, <1>4 DEF Path, n
<1>7. z.path = [i \in 1..n - 1 |-> p[i]]
  BY <1>1 DEF Spot
<1> HIDE DEF p, z
<1>8. p = Append(z.path, p[n]) /\ z.path \in Seq(Nat)
  BY <1>1, <1>6, <1>7, AppendLast
<1>9. p \in Seq(Nat)
  BY <1>1, <1>6
<1>10. QED
  BY <1>1, <1>3, <1>4, <1>5, <1>6, <1>8, <1>9 DEF n, z

\* The child the innermost call is at.
Current(s) == s[Len(s)].kids[s[Len(s)].itEL]

\* It is at one, not at the end of its list.
InList(s) == s[Len(s)].itEL <= Len(s[Len(s)].kids)

\* The innermost call goes on with its next child.
LEMMA StackNext ==
  ASSUME NEW t, NEW S, NEW kids, NEW d, NEW L, Tree(t, S, kids, d, L), NEW names,
         NEW s, StackOK(s, L, d, names), InList(s)
  PROVE  /\ StackOK(NextChild(s), L, d, names)
         /\ Path(NextChild(s)) = Append(Spot(s, Len(s)).path, s[Len(s)].itEL + 1)
<1> DEFINE n == Len(s)
           r == NextChild(s)
           c == [s[n] EXCEPT !.itEL = @ + 1]
<1>1. /\ n \in Nat \ {0} /\ \A i \in 1..n : s[i].itEL \in Nat
      /\ Len(s[n].kids) \in Nat /\ CallOK(s, n, L, d, names)
  BY StackAt DEF Spot
<1>2. PICK F : s \in Seq(F)
  BY DEF StackOK
<1>3. s \in Seq(F \cup {c}) /\ c \in F \cup {c} /\ n \in 1..n
  BY <1>1, <1>2, SeqMonotonic
<1>4. r = [s EXCEPT ![n] = c]
  BY DEF NextChild
<1>5. DOMAIN c = DOMAIN s[n] /\ c.kids = s[n].kids /\ c.iName = s[n].iName /\ c.fn = s[n].fn
      /\ c.itEL = s[n].itEL + 1
  BY <1>1 DEF CallOK
<1> HIDE DEF c, r, n
<1>6. r \in Seq(F \cup {c}) /\ Len(r) = n /\ \A j \in 1..n : r[j] = IF j = n THEN c ELSE s[j]
  BY <1>3, <1>4, ExceptSeq DEF n
<1>7. r # <<>>
  BY <1>1, <1>6, EmptySeq
<1>8. \A j \in 1..n - 1 : r[j] = s[j] /\ j \in 1..n
  BY <1>1, <1>6
<1>9. r[n] = c
  BY <1>3, <1>6
<1>10. Spot(r, n) = Spot(s, n)
  BY <1>5, <1>8, <1>9, SpotSame
<1>11. CallOK(r, n, L, d, names)
  <2>1. c.itEL \in 1..Len(c.kids) + 1
    BY <1>1, <1>3, <1>5 DEF n, InList
  <2>2. QED
    BY <1>1, <1>5, <1>9, <1>10, <2>1 DEF CallOK
<1>12. ASSUME NEW j \in 1..n PROVE CallOK(r, j, L, d, names)
  <2>1. CASE j = n
    BY <1>11, <2>1
  <2>2. CASE j # n
    <3>1. j \in 1..n - 1 /\ j \in Nat /\ \A i \in 1..j - 1 : i \in 1..n - 1
      BY <1>1, <2>2
    <3>2. CallOK(s, j, L, d, names)
      BY DEF StackOK, n
    <3>3. QED
      BY <1>8, <3>1, <3>2, CallSame
  <2>3. QED
    BY <2>1, <2>2
<1>13. \A j \in 1..n - 1 : r[j].itEL \in 1..Len(r[j].kids)
  BY <1>8 DEF StackOK, n
<1>14. StackOK(r, L, d, names)
  BY <1>6, <1>7, <1>12, <1>13 DEF StackOK
<1> HIDE DEF n
<1>15. Path(r) = Append(Spot(r, n).path, r[n].itEL)
  <2>1. Path(r) = Append(Spot(r, Len(r)).path, r[Len(r)].itEL)
    BY <1>14, StackAt
  <2>2. QED
    BY <1>6, <2>1
<1>16. QED
  BY <1>5, <1>9, <1>10, <1>14, <1>15 DEF r, n

\* A call behind the names T can be one of fn for the k-th name.
Seeks(fn, k, T, names) ==
  /\ k \in Nat /\ Met(T, names, k - 1)
  /\ \/ fn = "name" /\ k = Len(names)
     \/ fn = "pair" /\ k = 1 /\ Len(names) = 2
     \/ fn = "names"

\* The path of r is that of the first child below the path of s.
Down(s, r) == Path(r) = Append(Path(s), 1)

\* A call for the children of the child it is at.
LEMMA StackDeeper ==
  ASSUME NEW t, NEW S, NEW kids, NEW d, NEW L, Tree(t, S, kids, d, L), NEW names,
         NEW s, StackOK(s, L, d, names), InList(s),
         NEW fn, NEW k, Seeks(fn, k, Beneath(Spot(s, Len(s)), s[Len(s)].itEL).tags, names)
  PROVE  LET c == Call(fn, k, Current(s).kids) IN
         StackOK(Append(s, c), L, d, names) /\ Down(s, Append(s, c))
<1> DEFINE n == Len(s)
           z == Spot(s, n)
           i == s[n].itEL
           y == Beneath(z, i)
           c == Call(fn, k, s[n].kids[i].kids)
           r == Append(s, c)
<1>1. /\ n \in Nat \ {0} /\ (\A j \in 1..n : s[j].itEL \in Nat)
      /\ n - 1 \in 0..d /\ z \in L[n - 1] /\ z.kids = s[n].kids /\ Len(z.kids) \in Nat
      /\ CallOK(s, n, L, d, names) /\ Path(s) = Append(z.path, i)
  BY StackAt
<1>2. i \in 1..Len(z.kids)
  BY <1>1 DEF CallOK, InList
<1>3. PICK F : s \in Seq(F)
  BY DEF StackOK
<1>4. s \in Seq(F \cup {c}) /\ c \in F \cup {c} /\ Len(s) = n
  BY <1>3, SeqMonotonic
<1> HIDE DEF n
<1>5. /\ DOMAIN c = {"fn", "iName", "kids", "itEL"} /\ c.fn = fn /\ c.iName = k
      /\ c.kids = s[n].kids[i].kids /\ c.itEL = 1
  BY DEF Call
<1> HIDE DEF c
<1>6. r \in Seq(F \cup {c}) /\ r # <<>> /\ Len(r) = n + 1 /\ r[n + 1] = c
      /\ \A j \in 1..n : r[j] = s[j]
  <2> DEFINE X == F \cup {c}
  <2>1. s \in Seq(X) /\ c \in X
    BY <1>4
  <2> HIDE DEF X, z, i
  <2>2. r \in Seq(X) /\ r # <<>> /\ Len(r) = Len(s) + 1 /\ r[Len(s) + 1] = c
        /\ \A j \in 1..Len(s) : r[j] = s[j]
    BY <2>1, AppendProperties
  <2>3. QED
    BY <1>4, <2>2 DEF X
<1> HIDE DEF r
<1>7. Spot(r, n + 1) = y
  <2>1. r[n + 1].kids = s[n].kids[s[n].itEL].kids /\ n \in Nat \ {0}
        /\ (\A j \in 1..n : s[j].itEL \in Nat) /\ \A j \in 1..n : r[j] = s[j]
    BY <1>1, <1>5, <1>6
  <2>2. QED
    BY <2>1, SpotDeeper
<1>8. (n - 1) + 1 = n /\ n \in 0..d /\ (n + 1) - 1 = n
  <2>1. (n - 1) + 1 \in 1..d
    BY <1>1, <1>2, ChildAt
  <2>2. QED
    BY <1>1, <2>1
<1>9. y \in L[n] /\ y.path = Append(z.path, i)
  <2>1. n - 1 \in 0..d /\ z \in L[n - 1] /\ i \in 1..Len(z.kids)
    BY <1>1, <1>2
  <2> HIDE DEF z, i
  <2>2. Beneath(z, i) \in L[(n - 1) + 1] /\ Beneath(z, i).path = Append(z.path, i)
    BY <2>1, ChildAt
  <2>3. QED
    BY <1>8, <2>2
<1>10. y.kids = c.kids
  BY <1>1, <1>5 DEF Beneath
<1>11. Len(c.kids) \in Nat
  <2>1. ListOf(S, y.kids, n, d) /\ n \in Nat /\ d \in Nat
    BY <1>1, <1>8, <1>9, LevelRead DEF Tree
  <2>2. QED
    BY <1>10, <2>1, ListRead DEF Tree
<1>12. CallOK(r, n + 1, L, d, names)
  <2>1. Seeks(fn, k, y.tags, names)
    BY DEF n
  <2> HIDE DEF z, i, y
  <2>2. c.itEL \in 1..Len(c.kids) + 1
    <3>1. c.itEL = 1
      BY <1>5
    <3>2. QED
      BY <1>11, <3>1
  <2>3. QED
    BY <1>5, <1>6, <1>7, <1>8, <1>9, <2>1, <2>2 DEF CallOK, Seeks
<1>13. ASSUME NEW j \in 1..n + 1 PROVE CallOK(r, j, L, d, names)
  <2>1. CASE j = n + 1
    BY <1>12, <2>1
  <2>2. CASE j # n + 1
    <3>1. j \in 1..n /\ j \in Nat /\ \A m \in 1..j - 1 : m \in 1..n
      BY <1>1, <2>2
    <3>2. CallOK(s, j, L, d, names)
      BY <3>1 DEF StackOK, n
    <3>3. QED
      BY <1>6, <3>1, <3>2, CallSame
  <2>3. QED
    BY <2>1, <2>2
<1>14. ASSUME NEW j \in 1..n PROVE r[j].itEL \in 1..Len(r[j].kids)
  <2>1. CASE j = n
    BY <1>1, <1>2, <1>6, <2>1
  <2>2. CASE j # n
    <3>1. j \in 1..n - 1
      BY <1>1, <2>2
    <3>2. QED
      BY <1>6, <3>1 DEF StackOK, n
  <2>3. QED
    BY <2>1, <2>2
<1> HIDE DEF z, i, y
<1>15. StackOK(r, L, d, names)
  BY <1>1, <1>6, <1>8, <1>13, <1>14 DEF StackOK
<1>16. Path(r) = Append(y.path, 1)
  <2>1. Path(r) = Append(Spot(r, Len(r)).path, r[Len(r)].itEL)
    BY <1>15, StackAt
  <2>2. Path(r) = Append(Spot(r, n + 1).path, r[n + 1].itEL)
    BY <1>6, <2>1
  <2>3. QED
    BY <1>5, <1>6, <1>7, <2>2
<1>17. QED
  BY <1>1, <1>9, <1>15, <1>16 DEF r, c, n, i, Current, Down

\* The innermost call returns to one that waits at a child.
LEMMA StackFront ==
  ASSUME NEW t, NEW S, NEW kids, NEW d, NEW L, Tree(t, S, kids, d, L), NEW names,
         NEW s, StackOK(s, L, d, names), Len(s) # 1
  PROVE  LET r == SubSeq(s, 1, Len(s) - 1)
             n == Len(s) IN
         /\ StackOK(r, L, d, names)
         /\ Len(r) = n - 1 /\ n - 1 \in 1..d /\ r[n - 1].itEL <= Len(r[n - 1].kids)
         /\ Spot(s, n).path = Append(Spot(r, n - 1).path, r[n - 1].itEL)
<1> DEFINE n == Len(s)
           r == SubSeq(s, 1, n - 1)
<1>1. /\ n \in Nat \ {0} /\ n # 1 /\ n - 1 \in 0..d /\ d \in Nat
      /\ \A j \in 1..n : s[j].itEL \in Nat
  BY StackAt DEF Tree
<1> HIDE DEF n
<1>2. n - 1 \in Nat \ {0} /\ n - 1 \in 1..d /\ n - 1 \in 1..n - 1
  BY <1>1
<1>3. PICK F : s \in Seq(F)
  BY DEF StackOK
<1>4. r \in Seq(F) /\ Len(r) = n - 1 /\ \A j \in 1..n - 1 : r[j] = s[j]
  <2>1. n = Len(s) /\ s \in Seq(F)
    BY <1>3 DEF n
  <2>2. 1 \in 1..n + 1 /\ n - 1 \in 0..n
    BY <1>1
  <2>3. r \in Seq(F) /\ Len(r) = (n - 1) - 1 + 1
        /\ \A j \in 1..(n - 1) - 1 + 1 : r[j] = s[1 + j - 1]
    BY <1>1, <2>1, <2>2, SubSeqProperties
  <2>4. QED
    BY <1>1, <2>3
<1> HIDE DEF r
<1>5. r # <<>>
  BY <1>2, <1>4, EmptySeq
<1>6. ASSUME NEW j \in 1..n - 1
      PROVE  CallOK(r, j, L, d, names) /\ r[j].itEL \in 1..Len(r[j].kids)
  <2>1. j \in 1..n /\ j \in Nat /\ \A m \in 1..j - 1 : m \in 1..n - 1
    BY <1>1
  <2>2. CallOK(s, j, L, d, names) /\ s[j].itEL \in 1..Len(s[j].kids)
    BY <2>1 DEF StackOK, n
  <2>3. QED
    BY <1>4, <2>1, <2>2, CallSame
<1>7. StackOK(r, L, d, names)
  <2>1. \A j \in 1..Len(r) - 1 : j \in 1..n - 1
    BY <1>2, <1>4
  <2>2. QED
    BY <1>4, <1>5, <1>6, <2>1 DEF StackOK
<1>8. Path(r) = Append(Spot(r, n - 1).path, r[n - 1].itEL)
  <2>1. Path(r) = Append(Spot(r, Len(r)).path, r[Len(r)].itEL)
    BY <1>7, StackAt
  <2>2. QED
    BY <1>4, <2>1
<1>9. Spot(s, n).path = Path(r)
  <2>1. [i \in 1..n - 1 |-> s[i].itEL] = [i \in 1..n - 1 |-> r[i].itEL]
    BY <1>4
  <2>2. QED
    BY <1>4, <2>1 DEF Spot, Path
<1>10. r[n - 1].itEL <= Len(r[n - 1].kids)
  <2>1. r[n - 1].itEL \in 1..Len(r[n - 1].kids) /\ Len(r[n - 1].kids) \in Nat
    BY <1>2, <1>4, <1>6, <1>7, StackAt DEF Spot
  <2>2. QED
    BY <2>1
<1>11. QED
  BY <1>2, <1>4, <1>7, <1>8, <1>9, <1>10 DEF n, r

\* A search begins at the first child of the root.
LEMMA StackStart ==
  ASSUME NEW t, NEW S, NEW kids, NEW d, NEW L, Tree(t, S, kids, d, L), NEW names,
         Len(names) \in Nat, Len(names) > 0, NEW fn,
         \/ fn = "name" /\ Len(names) = 1
         \/ fn = "pair" /\ Len(names) = 2
         \/ fn = "names"
  PROVE  LET s == <<Call(fn, 1, kids)>> IN
         StackOK(s, L, d, names) /\ Path(s) = Append(<<>>, 1)
<1> DEFINE c == Call(fn, 1, kids)
           s == <<c>>
<1>1. /\ DOMAIN c = {"fn", "iName", "kids", "itEL"} /\ c.fn = fn /\ c.iName = 1
      /\ c.kids = kids /\ c.itEL = 1
  BY DEF Call
<1> HIDE DEF c
<1>2. s \in Seq({c}) /\ s # <<>> /\ Len(s) = 1 /\ s[1] = c
  OBVIOUS
<1> HIDE DEF s
<1>3. \A f : [i \in 1..1 - 1 |-> f[i]] = <<>>
  OBVIOUS
<1>4. Spot(s, 1) = Root(kids)
  <2>1. [i \in 1..1 - 1 |-> s[i].itEL] = <<>>
    OBVIOUS
  <2>2. [i \in 1..1 - 1 |-> s[i].kids[s[i].itEL].name] = <<>>
    OBVIOUS
  <2>3. s[1].kids = kids
    BY <1>1, <1>2
  <2>4. QED
    BY <2>1, <2>2, <2>3 DEF Spot, Root
<1>5. Spot(s, 1) \in L[0] /\ Spot(s, 1).tags = <<>> /\ d \in Nat /\ Len(kids) \in Nat
  <2>1. Root(kids) \in L[0] /\ d \in Nat
    BY DEF Tree, AreLevels
  <2>2. Len(kids) \in Nat
    BY ListRead DEF Tree
  <2>3. QED
    BY <1>4, <2>1, <2>2 DEF Root
<1>6. Met(<<>>, names, 0)
  BY NoneMet
<1>7. CallOK(s, 1, L, d, names)
  <2>1. 1 - 1 = 0 /\ 0 \in 0..d /\ s[1] = c /\ s[1].iName \in Nat
    BY <1>1, <1>2, <1>5
  <2>2. s[1].itEL \in 1..Len(s[1].kids) + 1
    <3>1. 1 \in 1..Len(kids) + 1
      BY <1>5
    <3>2. QED
      BY <1>1, <1>2, <3>1
  <2>3. Met(Spot(s, 1).tags, names, s[1].iName - 1)
    BY <1>1, <1>5, <1>6, <2>1
  <2>4. QED
    BY <1>1, <1>5, <2>1, <2>2, <2>3 DEF CallOK
<1>8. StackOK(s, L, d, names)
  <2>1. \A j \in 1..Len(s) : j = 1
    BY <1>2
  <2>2. \A j \in 1..Len(s) - 1 : FALSE
    BY <1>2
  <2>3. QED
    BY <1>2, <1>7, <2>1, <2>2 DEF StackOK
<1>9. Path(s) = Append(<<>>, 1)
  <2>1. Path(s) = Append(Spot(s, Len(s)).path, s[Len(s)].itEL)
    BY <1>8, StackAt
  <2>2. Spot(s, 1).path = <<>>
    BY <1>4 DEF Root
  <2>3. QED
    BY <1>1, <1>2, <2>1, <2>2
<1>10. QED
  BY <1>8, <1>9 DEF s, c

\* It is one that is counted.
Counted(s, names) ==
  /\ Current(s).name = names[s[Len(s)].iName]
  /\ \/ s[Len(s)].fn = "name"
     \/ s[Len(s)].fn = "names" /\ Len(names) = s[Len(s)].iName

\* What is known where a call is at a child.
LEMMA StackChild ==
  ASSUME NEW t, NEW S, NEW kids, NEW d, NEW L, Tree(t, S, kids, d, L), NEW names,
         NEW s, StackOK(s, L, d, names), InList(s)
  PROVE  LET n == Len(s)
             z == Spot(s, n)
             k == s[n].iName - 1 IN
         /\ n - 1 \in 0..d /\ z \in L[n - 1] /\ s[n].itEL \in 1..Len(z.kids)
         /\ z.kids = s[n].kids /\ z.path \in Seq(Nat) /\ s[n].itEL \in Nat
         /\ Path(s) = Append(z.path, s[n].itEL) /\ Path(s) \in Seq(Nat)
         /\ Met(z.tags, names, k) /\ s[n].iName \in Nat /\ k + 1 = s[n].iName
         /\ Longer(Beneath(z, s[n].itEL).tags, z.tags, Current(s).name)
<1> DEFINE n == Len(s)
           z == Spot(s, n)
           i == s[n].itEL
<1>1. /\ n - 1 \in 0..d /\ z \in L[n - 1] /\ z.kids = s[n].kids /\ z.path \in Seq(Nat)
      /\ Len(z.kids) \in Nat /\ Path(s) = Append(z.path, i) /\ Path(s) \in Seq(Nat)
      /\ CallOK(s, n, L, d, names)
  BY StackAt
<1>2. i \in 1..Len(z.kids) /\ Met(z.tags, names, s[n].iName - 1) /\ s[n].iName \in Nat
  BY <1>1 DEF CallOK, InList
<1>3. i \in Nat /\ (s[n].iName - 1) + 1 = s[n].iName
  BY <1>1, <1>2
<1>4. Current(s) = z.kids[i]
  BY <1>1 DEF Current
<1> HIDE DEF n, z, i
<1>5. Longer(Beneath(z, i).tags, z.tags, z.kids[i].name)
  BY <1>1, <1>2, ChildAt
<1>6. QED
  BY <1>1, <1>2, <1>3, <1>4, <1>5 DEF n, z, i

\* The child that is counted is one of those meant, and the only one from here to the next
\* child.
LEMMA StackCounted ==
  ASSUME NEW t, NEW S, NEW kids, NEW d, NEW L, Tree(t, S, kids, d, L), NEW names,
         Len(names) \in Nat, NEW s, StackOK(s, L, d, names), InList(s), Counted(s, names)
  PROVE  LET H == HitSet(L, d, names) IN
         \E y \in H : /\ y.path = Path(s) /\ y \notin InFront(H, Path(s))
                      /\ InFront(H, Path(NextChild(s))) = InFront(H, Path(s)) \cup {y}
<1> DEFINE n == Len(s)
           z == Spot(s, n)
           i == s[n].itEL
           k == s[n].iName - 1
           y == Beneath(z, i)
           H == HitSet(L, d, names)
           p == Append(z.path, i)
<1>1. /\ n - 1 \in 0..d /\ z \in L[n - 1] /\ i \in 1..Len(z.kids) /\ z.kids = s[n].kids
      /\ z.path \in Seq(Nat) /\ i \in Nat /\ Path(s) = p /\ Met(z.tags, names, k)
      /\ k + 1 = s[n].iName
  BY StackChild
<1>2. k + 1 = Len(names) /\ z.kids[i].name = names[k + 1]
  <2>1. CallOK(s, n, L, d, names)
    BY StackAt
  <2>2. QED
    BY <1>1, <2>1 DEF CallOK, Counted, Current
<1>3. Path(NextChild(s)) = Append(z.path, i + 1)
  BY StackNext
<1> HIDE DEF n, z, i, k
<1>4. y \in H /\ {x \in H : Extends(x.path, p)} = {y} /\ y \notin InFront(H, p)
  BY <1>1, <1>2, OnlyHit
<1>5. InFront(H, Append(z.path, i + 1)) = InFront(H, p) \cup {x \in H : Extends(x.path, p)}
  <2> DEFINE c == z.path
  <2>1. c \in Seq(Nat) /\ i \in Nat
    BY <1>1
  <2> HIDE DEF c
  <2>2. InFront(H, Append(c, i + 1))
          = InFront(H, Append(c, i)) \cup {x \in H : Extends(x.path, Append(c, i))}
    BY <2>1, FrontNext
  <2>3. QED
    BY <2>2 DEF c
<1>6. y.path = p
  BY DEF Beneath
<1>7. QED
  BY <1>1, <1>3, <1>4, <1>5, <1>6

\* The call for the children of a child.
ChildCall(s, names) ==
  LET c == s[Len(s)] IN
  IF Current(s).name # names[c.iName] THEN Call(c.fn, c.iName, Current(s).kids)
  ELSE IF c.fn = "pair" THEN Call("name", 2, Current(s).kids)
  ELSE Call("names", c.iName + 1, Current(s).kids)

\* Nothing that is meant is at a child that is not counted: what is in front does not change.
LEMMA StackDown ==
  ASSUME NEW t, NEW S, NEW kids, NEW d, NEW L, Tree(t, S, kids, d, L), NEW names,
         Len(names) \in Nat, NEW s, StackOK(s, L, d, names), InList(s), ~Counted(s, names)
  PROVE  LET H == HitSet(L, d, names)
             r == Append(s, ChildCall(s, names)) IN
         /\ StackOK(r, L, d, names) /\ Down(s, r)
         /\ InFront(H, Path(r)) = InFront(H, Path(s))
<1> DEFINE n == Len(s)
           z == Spot(s, n)
           i == s[n].itEL
           k == s[n].iName - 1
           e == Current(s).name
           y == Beneath(z, i)
           H == HitSet(L, d, names)
           p == Append(z.path, i)
<1>1. /\ n - 1 \in 0..d /\ z \in L[n - 1] /\ i \in 1..Len(z.kids) /\ z.kids = s[n].kids
      /\ z.path \in Seq(Nat) /\ i \in Nat /\ Path(s) = p /\ Met(z.tags, names, k)
      /\ k + 1 = s[n].iName /\ s[n].iName \in Nat /\ Longer(y.tags, z.tags, e)
  BY StackChild
<1>2. CallOK(s, n, L, d, names) /\ s[n].kids[i] = Current(s)
  BY StackAt DEF Current
<1>3. e = z.kids[i].name
  BY <1>1 DEF Current
<1>4. /\ \/ s[n].fn = "name" /\ k + 1 = Len(names)
         \/ s[n].fn = "pair" /\ k + 1 = 1 /\ Len(names) = 2
         \/ s[n].fn = "names"
      /\ ~(e = names[k + 1] /\ (s[n].fn = "name" \/ (s[n].fn = "names" /\ Len(names) = k + 1)))
  BY <1>1, <1>2 DEF CallOK, Counted
<1>5. k \in Nat /\ k < Len(names)
  BY <1>1 DEF Met
<1>6. ~(e = names[k + 1] /\ k + 1 = Len(names))
  <2> DEFINE fn == s[n].fn
             j == k + 1
  <2>1. /\ \/ fn = "name" /\ j = Len(names)
           \/ fn = "pair" /\ j = 1 /\ Len(names) = 2
           \/ fn = "names"
        /\ ~(e = names[j] /\ (fn = "name" \/ (fn = "names" /\ Len(names) = j)))
    BY <1>4
  <2> HIDE DEF fn, e, j
  <2>2. ~(e = names[j] /\ j = Len(names))
    BY <2>1
  <2>3. QED
    BY <2>2 DEF j
<1>7. \E fn : \E m : /\ ChildCall(s, names) = Call(fn, m, s[n].kids[i].kids)
                      /\ Seeks(fn, m, y.tags, names)
  <2>1. ChildCall(s, names) = IF e # names[k + 1] THEN Call(s[n].fn, k + 1, s[n].kids[i].kids)
                              ELSE IF s[n].fn = "pair" THEN Call("name", 2, s[n].kids[i].kids)
                              ELSE Call("names", (k + 1) + 1, s[n].kids[i].kids)
    BY <1>1, <1>2 DEF ChildCall
  <2> HIDE DEF n, z, i, k, e, y
  <2>2. CASE e # names[k + 1]
    <3>1. Met(y.tags, names, k) /\ (k + 1) - 1 = k /\ k + 1 \in Nat
      BY <1>1, <1>5, <2>2, MetOther
    <3>2. QED
      BY <1>4, <2>1, <2>2, <3>1 DEF Seeks
  <2>3. CASE e = names[k + 1]
    <3>1. k + 1 < Len(names)
      BY <1>5, <1>6, <2>3
    <3>2. ((k + 1) + 1) - 1 = k + 1 /\ (k + 1) + 1 \in Nat
      BY <1>5
    <3>3. Met(y.tags, names, k + 1)
      <4>1. Met(z.tags, names, k) /\ Longer(y.tags, z.tags, e)
        BY <1>1
      <4>2. QED
        BY <2>3, <3>1, <4>1, MetNext
    <3>4. CASE s[n].fn = "pair"
      <4>1. 2 - 1 = k + 1 /\ 2 = Len(names) /\ 2 \in Nat
        BY <1>4, <3>4
      <4>2. ChildCall(s, names) = Call("name", 2, s[n].kids[i].kids)
        BY <2>1, <2>3, <3>4
      <4>3. QED
        BY <3>3, <3>2, <4>1, <4>2 DEF Seeks
    <3>5. CASE s[n].fn # "pair"
      <4>1. ChildCall(s, names) = Call("names", (k + 1) + 1, s[n].kids[i].kids)
        BY <2>1, <2>3, <3>5
      <4>2. QED
        BY <3>3, <3>2, <4>1 DEF Seeks
    <3>6. QED
      BY <3>4, <3>5
  <2>4. QED
    BY <2>2, <2>3
<1>8. PICK fn : \E m : /\ ChildCall(s, names) = Call(fn, m, s[n].kids[i].kids)
                        /\ Seeks(fn, m, y.tags, names)
  BY <1>7
<1>9. PICK m : /\ ChildCall(s, names) = Call(fn, m, s[n].kids[i].kids)
               /\ Seeks(fn, m, y.tags, names)
  BY <1>8
<1>10. /\ StackOK(Append(s, ChildCall(s, names)), L, d, names)
       /\ Down(s, Append(s, ChildCall(s, names)))
  <2>1. Seeks(fn, m, Beneath(Spot(s, Len(s)), s[Len(s)].itEL).tags, names)
    BY <1>9
  <2> DEFINE g == Call(fn, m, Current(s).kids)
  <2> HIDE DEF n, z, i, k, e, y, H, p
  <2>2. StackOK(Append(s, g), L, d, names) /\ Down(s, Append(s, g))
    BY <2>1, StackDeeper
  <2>3. ChildCall(s, names) = g
    BY <1>9 DEF n, i, Current
  <2>4. QED
    BY <2>2, <2>3
<1> HIDE DEF n, z, i, k
<1>11. InFront(H, Append(p, 1)) = InFront(H, p)
  BY <1>1, <1>3, <1>6, FrontDown
<1>12. QED
  BY <1>1, <1>11, <1>10 DEF Down

\* The path of r is that of the next child after the element whose children s looks at.
Up(s, r) == \E c \in Seq(Nat) : \E i, k \in Nat :
              Path(s) = Append(Append(c, i), k) /\ Path(r) = Append(c, i + 1)

\* At the end of a list the caller goes on with its next child: nothing is in between.
LEMMA StackUp ==
  ASSUME NEW t, NEW S, NEW kids, NEW d, NEW L, Tree(t, S, kids, d, L), NEW names,
         Len(names) \in Nat, NEW s, StackOK(s, L, d, names), ~InList(s), Len(s) # 1
  PROVE  LET H == HitSet(L, d, names)
             r == NextChild(SubSeq(s, 1, Len(s) - 1)) IN
         /\ StackOK(r, L, d, names)
         /\ InFront(H, Path(r)) = InFront(H, Path(s))
         /\ Up(s, r)
<1> DEFINE n == Len(s)
           q == SubSeq(s, 1, n - 1)
           r == NextChild(q)
           y == Spot(s, n)
           z == Spot(q, n - 1)
           i == q[n - 1].itEL
           H == HitSet(L, d, names)
<1>1. /\ n \in Nat \ {0} /\ CallOK(s, n, L, d, names) /\ n - 1 \in 0..d /\ y \in L[n - 1]
      /\ y.kids = s[n].kids /\ Len(y.kids) \in Nat /\ Path(s) = Append(y.path, s[n].itEL)
  BY StackAt
<1>2. s[n].itEL = Len(y.kids) + 1
  BY <1>1 DEF CallOK, InList
<1>3. /\ StackOK(q, L, d, names) /\ Len(q) = n - 1 /\ n - 1 \in 1..d
      /\ i <= Len(q[n - 1].kids) /\ y.path = Append(z.path, i)
  BY StackFront
<1> HIDE DEF n, q
<1>4. InList(q)
  BY <1>3 DEF InList
<1>5. /\ StackOK(r, L, d, names)
      /\ Path(r) = Append(Spot(q, Len(q)).path, q[Len(q)].itEL + 1)
  <2>1. StackOK(q, L, d, names)
    BY <1>3
  <2> HIDE DEF i, y, z, H
  <2>2. QED
    BY <1>4, <2>1, StackNext
<1>6. Path(r) = Append(z.path, i + 1)
  BY <1>3, <1>5
<1>7. z.path \in Seq(Nat) /\ i \in Nat
  <2>1. Spot(q, Len(q)).path \in Seq(Nat) /\ Len(q) \in Nat \ {0}
        /\ \A j \in 1..Len(q) : q[j].itEL \in Nat
    BY <1>3, StackAt
  <2>2. Len(q) \in 1..Len(q)
    BY <2>1
  <2>3. QED
    BY <1>3, <2>1, <2>2
<1> HIDE DEF r, y, z, i
<1>8. InFront(H, Append(y.path, Len(y.kids) + 1)) = InFront(H, Append(z.path, i + 1))
  <2>1. NextTo(y.path, Append(z.path, i + 1))
    BY <1>3, <1>7 DEF NextTo
  <2>2. n - 1 \in 1..d /\ y \in L[n - 1]
    BY <1>1, <1>3
  <2>3. QED
    BY <2>1, <2>2, FrontUp
<1>9. Path(s) = Append(Append(z.path, i), s[n].itEL) /\ s[n].itEL \in Nat
  BY <1>1, <1>2, <1>3
<1>10. QED
  BY <1>1, <1>2, <1>5, <1>6, <1>7, <1>8, <1>9 DEF r, q, n, Up

\* At the end of the root's list everything is in front.
LEMMA StackEnd ==
  ASSUME NEW t, NEW S, NEW kids, NEW d, NEW L, Tree(t, S, kids, d, L), NEW names,
         NEW s, StackOK(s, L, d, names), ~InList(s), Len(s) = 1
  PROVE  LET H == HitSet(L, d, names) IN InFront(H, Path(s)) = H
<1> DEFINE y == Spot(s, 1)
           H == HitSet(L, d, names)
<1>1. /\ CallOK(s, 1, L, d, names) /\ y \in L[1 - 1] /\ y.kids = s[1].kids
      /\ Len(y.kids) \in Nat /\ Path(s) = Append(y.path, s[1].itEL)
  BY StackAt
<1>2. s[1].itEL = Len(y.kids) + 1
  BY <1>1 DEF CallOK, InList
<1>3. y = Root(kids)
  BY <1>1 DEF Tree, AreLevels
<1>4. y.path = <<>> /\ y.kids = kids
  BY <1>3 DEF Root
<1> HIDE DEF y
<1>5. Path(s) = Append(<<>>, Len(kids) + 1)
  BY <1>1, <1>2, <1>4
<1>6. QED
  BY <1>5, FrontEnd

-----------------------------------------------------------------------------
(* The whole search                                                        *)

\* The next child, the first child, and the child after an element come behind.
LEMMA ForwardNext ==
  ASSUME NEW c \in Seq(Nat), NEW i \in Nat
  PROVE  Before(Append(c, i), Append(c, i + 1))
<1> DEFINE p == Append(c, i)
<1>1. p \in Seq(Nat) /\ Extends(p, p)
  BY DEF Extends
<1> HIDE DEF p
<1>2. Before(p, Append(c, i + 1)) <=> Before(p, Append(c, i)) \/ Extends(p, Append(c, i))
  BY <1>1, BeforeNext
<1>3. QED
  BY <1>1, <1>2 DEF p

\* See above.
LEMMA ForwardDown ==
  ASSUME NEW p \in Seq(Nat)
  PROVE  Before(p, Append(p, 1))
<1>1. Extends(p, p)
  BY DEF Extends
<1>2. Passed(p, p, 1)
  BY <1>1 DEF Passed
<1>3. QED
  BY <1>2, BeforeChild

\* See above.
LEMMA ForwardUp ==
  ASSUME NEW c \in Seq(Nat), NEW i \in Nat, NEW k \in Nat
  PROVE  Before(Append(Append(c, i), k), Append(c, i + 1))
<1> DEFINE p == Append(c, i)
           q == Append(p, k)
<1>1. p \in Seq(Nat)
  OBVIOUS
<1> HIDE DEF p
<1>2. q \in Seq(Nat) /\ Len(q) = Len(p) + 1 /\ Len(p) \in Nat /\ \A m \in 1..Len(p) : q[m] = p[m]
  BY <1>1, AppendProperties
<1> HIDE DEF q
<1>3. Extends(q, p)
  BY <1>2 DEF Extends
<1>4. Before(q, Append(c, i + 1)) <=> Before(q, Append(c, i)) \/ Extends(q, Append(c, i))
  BY <1>2, BeforeNext
<1>5. QED
  BY <1>3, <1>4 DEF p, q

\* What a search for q in the elements below a list keeps: iCount is how many of those meant
\* are in front of where it is.
SearchOK(kids, d, q, s, k) ==
  LET L == Levels(kids, d)
      B == InFront(HitSet(L, d, q.names), Path(s)) IN
  /\ q.names \in Seq(Seq(STRING)) /\ q.index \in Nat
  /\ StackOK(s, L, d, q.names)
  /\ IsFiniteSet(B) /\ Cardinality(B) = k /\ k <= q.index

\* What it returns.
AnswerOK(kids, d, q, f) ==
  LET H == HitSet(Levels(kids, d), d, q.names) IN
  IF f = NotFound THEN q.index < 0 \/ Cardinality(H) <= q.index
  ELSE (\E x \in H : x.path = f) /\ Cardinality(InFront(H, f)) = q.index

\* A search begins with nothing counted.
LEMMA SearchStarts ==
  ASSUME NEW t, NEW S, NEW kids, NEW d, Tree(t, S, kids, d, Levels(kids, d)),
         NEW q \in Queries, q.index >= 0, Len(q.names) # 0
  PROVE  SearchOK(kids, d, q, <<Call(q.kind, 1, kids)>>, 0)
<1> DEFINE L == Levels(kids, d)
           s == <<Call(q.kind, 1, kids)>>
           B == InFront(HitSet(L, d, q.names), Path(s))
<1>1. q.index \in Nat /\ q.names \in Seq(Seq(STRING)) /\ Len(q.names) \in Nat /\ Len(q.names) > 0
  BY SearchAssumption
<1>2. \/ q.kind = "name" /\ Len(q.names) = 1
      \/ q.kind = "pair" /\ Len(q.names) = 2
      \/ q.kind = "names"
  BY SearchAssumption
<1> HIDE DEF L
<1>3. Tree(t, S, kids, d, L)
  BY DEF L
<1>4. StackOK(s, L, d, q.names) /\ Path(s) = Append(<<>>, 1)
  BY <1>1, <1>2, <1>3, StackStart
<1>5. B = {}
  BY <1>3, <1>4, FrontStart
<1> HIDE DEF B, s
<1>6. IsFiniteSet(B) /\ Cardinality(B) = 0 /\ 0 <= q.index
  BY <1>1, <1>5, FS_EmptySet
<1>7. QED
  BY <1>1, <1>4, <1>6 DEF SearchOK, B, L, s

\* At an element that is counted the search returns it or goes on, one further.
LEMMA SearchCounts ==
  ASSUME NEW t, NEW S, NEW kids, NEW d, Tree(t, S, kids, d, Levels(kids, d)),
         NEW q, NEW s, NEW k, SearchOK(kids, d, q, s, k), InList(s), Counted(s, q.names)
  PROVE  /\ k = q.index => AnswerOK(kids, d, q, Path(s))
         /\ k # q.index => SearchOK(kids, d, q, NextChild(s), k + 1)
<1> DEFINE L == Levels(kids, d)
           H == HitSet(L, d, q.names)
           B == InFront(H, Path(s))
<1>1. /\ q.names \in Seq(Seq(STRING)) /\ q.index \in Nat /\ StackOK(s, L, d, q.names)
      /\ IsFiniteSet(B) /\ Cardinality(B) = k /\ k <= q.index /\ Len(q.names) \in Nat
  BY DEF SearchOK
<1> HIDE DEF L
<1>2. Tree(t, S, kids, d, L)
  BY DEF L
<1>3. PICK y \in H : /\ y.path = Path(s) /\ y \notin B
                     /\ InFront(H, Path(NextChild(s))) = B \cup {y}
  BY <1>1, <1>2, StackCounted
<1>4. CASE k = q.index
  <2>1. Path(s) # NotFound
    <3> DEFINE z == Spot(s, Len(s)).path
               i == s[Len(s)].itEL
    <3>1. z \in Seq(Nat) /\ i \in Nat /\ Path(s) = Append(z, i)
      BY <1>1, <1>2, StackChild
    <3> HIDE DEF z, i
    <3>2. QED
      BY <3>1, AppendProperties DEF NotFound
  <2>2. QED
    BY <1>1, <1>3, <1>4, <2>1 DEF AnswerOK, L
<1>5. CASE k # q.index
  <2>1. k \in Nat
    BY <1>1, FS_CardinalityType
  <2> HIDE DEF B, H
  <2>2. IsFiniteSet(B \cup {y}) /\ Cardinality(B \cup {y}) = k + 1
    BY <1>1, <1>3, FS_AddElement
  <2>3. StackOK(NextChild(s), L, d, q.names)
    BY <1>1, <1>2, StackNext
  <2>4. k + 1 <= q.index
    BY <1>1, <1>5, <2>1
  <2>5. QED
    BY <1>1, <1>3, <1>5, <2>2, <2>3, <2>4 DEF SearchOK, L, H
<1>6. QED
  BY <1>4, <1>5

\* At any other element it goes on with what is below, with the same count.
LEMMA SearchDescends ==
  ASSUME NEW t, NEW S, NEW kids, NEW d, Tree(t, S, kids, d, Levels(kids, d)),
         NEW q, NEW s, NEW k, SearchOK(kids, d, q, s, k), InList(s), ~Counted(s, q.names)
  PROVE  SearchOK(kids, d, q, Append(s, ChildCall(s, q.names)), k)
<1> DEFINE L == Levels(kids, d)
           H == HitSet(L, d, q.names)
           r == Append(s, ChildCall(s, q.names))
<1>1. StackOK(s, L, d, q.names) /\ Len(q.names) \in Nat
  BY DEF SearchOK
<1> HIDE DEF L
<1>2. Tree(t, S, kids, d, L)
  BY DEF L
<1>3. StackOK(r, L, d, q.names) /\ InFront(H, Path(r)) = InFront(H, Path(s))
  BY <1>1, <1>2, StackDown
<1> HIDE DEF r, H
<1>4. SearchOK(kids, d, q, r, k)
  BY <1>3 DEF SearchOK, L, H
<1>5. QED
  BY <1>4 DEF r

\* At the end of a list it returns to the caller, or gives up where all are counted.
LEMMA SearchReturns ==
  ASSUME NEW t, NEW S, NEW kids, NEW d, Tree(t, S, kids, d, Levels(kids, d)),
         NEW q, NEW s, NEW k, SearchOK(kids, d, q, s, k), ~InList(s)
  PROVE  /\ Len(s) = 1 => AnswerOK(kids, d, q, NotFound)
         /\ Len(s) # 1 => SearchOK(kids, d, q, NextChild(SubSeq(s, 1, Len(s) - 1)), k)
<1> DEFINE L == Levels(kids, d)
           H == HitSet(L, d, q.names)
           r == NextChild(SubSeq(s, 1, Len(s) - 1))
<1>1. /\ StackOK(s, L, d, q.names) /\ Len(q.names) \in Nat
      /\ Cardinality(InFront(H, Path(s))) = k /\ k <= q.index
  BY DEF SearchOK
<1> HIDE DEF L
<1>2. Tree(t, S, kids, d, L)
  BY DEF L
<1>3. CASE Len(s) = 1
  <2>1. InFront(H, Path(s)) = H
    BY <1>1, <1>2, <1>3, StackEnd
  <2>2. QED
    BY <1>1, <1>3, <2>1 DEF AnswerOK, L
<1>4. CASE Len(s) # 1
  <2>1. StackOK(r, L, d, q.names) /\ InFront(H, Path(r)) = InFront(H, Path(s))
    BY <1>1, <1>2, <1>4, StackUp
  <2> HIDE DEF r, H
  <2>2. SearchOK(kids, d, q, r, k)
    BY <2>1 DEF SearchOK, L, H
  <2>3. QED
    BY <1>4, <2>2 DEF r
<1>5. QED
  BY <1>3, <1>4

\* Every turn goes on in the text.
LEMMA SearchForward ==
  ASSUME NEW t, NEW S, NEW kids, NEW d, Tree(t, S, kids, d, Levels(kids, d)),
         NEW q, NEW s, NEW k, SearchOK(kids, d, q, s, k)
  PROVE  /\ InList(s) => Before(Path(s), Path(NextChild(s)))
         /\ InList(s) /\ ~Counted(s, q.names) =>
              Before(Path(s), Path(Append(s, ChildCall(s, q.names))))
         /\ ~InList(s) /\ Len(s) # 1 =>
              Before(Path(s), Path(NextChild(SubSeq(s, 1, Len(s) - 1))))
<1> DEFINE L == Levels(kids, d)
<1>1. StackOK(s, L, d, q.names) /\ Len(q.names) \in Nat
  BY DEF SearchOK
<1> HIDE DEF L
<1>2. Tree(t, S, kids, d, L)
  BY DEF L
<1>3. CASE InList(s)
  <2> DEFINE c == Spot(s, Len(s)).path
             i == s[Len(s)].itEL
  <2>1. c \in Seq(Nat) /\ i \in Nat /\ Path(s) = Append(c, i) /\ Path(s) \in Seq(Nat)
    BY <1>1, <1>2, <1>3, StackChild
  <2>2. Path(NextChild(s)) = Append(c, i + 1)
    BY <1>1, <1>2, <1>3, StackNext
  <2> HIDE DEF c, i
  <2>3. Before(Append(c, i), Append(c, i + 1))
    BY <2>1, ForwardNext
  <2>4. Before(Path(s), Append(Path(s), 1))
    BY <2>1, ForwardDown
  <2>5. ASSUME ~Counted(s, q.names)
        PROVE  Path(Append(s, ChildCall(s, q.names))) = Append(Path(s), 1)
    <3>1. Down(s, Append(s, ChildCall(s, q.names)))
      BY <1>1, <1>2, <1>3, <2>5, StackDown
    <3>2. QED
      BY <3>1 DEF Down
  <2>6. QED
    BY <1>3, <2>1, <2>2, <2>3, <2>4, <2>5
<1>4. CASE ~InList(s) /\ Len(s) # 1
  <2> DEFINE r == NextChild(SubSeq(s, 1, Len(s) - 1))
  <2>1. Up(s, r)
    BY <1>1, <1>2, <1>4, StackUp
  <2> HIDE DEF r
  <2>2. PICK c \in Seq(Nat), i \in Nat, m \in Nat :
          Path(s) = Append(Append(c, i), m) /\ Path(r) = Append(c, i + 1)
    BY <2>1 DEF Up
  <2>3. Before(Append(Append(c, i), m), Append(c, i + 1))
    BY ForwardUp
  <2>4. QED
    BY <1>4, <2>2, <2>3 DEF r
<1>5. QED
  BY <1>3, <1>4

-----------------------------------------------------------------------------
(* The invariant of the searches                                           *)

\* What a search in progress, or its answer, has to do with the element that was read.
SearchInv ==
  /\ query.index \in Int
  /\ frames # <<>> => calls = <<>> /\ query.index < 0 /\ found = NotFound
  /\ calls # <<>> => /\ frames = <<>> /\ result.len # -1 /\ found = NotFound
                     /\ SearchOK(result.elem.kids, result.len, query, calls, iCount)
  /\ calls = <<>> => AnswerOK(result.elem.kids, result.len, query, found)

\* The element that was read is a tree.
LEMMA TreeRead ==
  ASSUME ReadInv, frames = <<>>, result.len # -1
  PROVE  \E S : Tree(doc.chars, S, result.elem.kids, result.len,
                     Levels(result.elem.kids, result.len))
<1> DEFINE x == [elem |-> result.elem, from |-> 0, to |-> result.len]
<1>1. PICK S : Nested(doc.chars, S) /\ x \in S
  BY DEF ReadInv, ReadIn
<1>2. result.len \in Nat
  <2>1. x.to \in Nat
    BY <1>1 DEF Nested
  <2>2. QED
    BY <2>1
<1>3. ListOf(S, result.elem.kids, 0, result.len)
  <2>1. x \in S /\ x.elem.kids = result.elem.kids /\ 0 <= x.from /\ x.to <= result.len
    BY <1>1, <1>2
  <2>2. QED
    BY <2>1 DEF ListOf
<1>4. AreLevels(Levels(result.elem.kids, result.len), result.elem.kids, result.len)
  BY <1>2, LevelsAre
<1>5. QED
  BY <1>1, <1>2, <1>3, <1>4 DEF Tree

\* The state of a search in the words of the lemmas.
LEMMA SearchAt ==
  /\ Looking <=> calls # <<>> /\ InList(calls)
  /\ Matches /\ LastName <=> Counted(calls, query.names)
  /\ ForChildren = ChildCall(calls, query.names)
BY DEF Looking, InList, Inner, Matches, LastName, Element, Counted, Current, ForChildren, ChildCall

\* A search that ended has the right answer.
LEMMA AnswerIs ==
  CountsInOrder <=> (calls = <<>> => AnswerOK(result.elem.kids, result.len, query, found))
BY DEF CountsInOrder, AnswerOK, Hits, HitsBefore, Elements, HitSet, InFront

\* Reading goes on only while a call of Parse is in progress.
LEMMA NextReads == Next => frames # <<>>
BY DEF Next, EndOfText, Comment, Declaration, Blank, CData, BeginComment, BeginCData,
   BeginDeclaration, BeginName, EndTag, Child, Greater, Attribute, Skip, Other, Scanning, In, Plain,
   Markup

\* The invariant holds at first, and the turns of a search keep it.
LEMMA InitSearchInv == XmlInit => SearchInv
<1> SUFFICES ASSUME XmlInit PROVE SearchInv
  OBVIOUS
<1>1. calls = <<>> /\ found = NotFound /\ query.index < 0 /\ query.index \in Int
  BY DEF XmlInit, SearchInit, NoQuery
<1>2. QED
  BY <1>1 DEF SearchInv, AnswerOK

\* Each turn keeps the invariant and goes on in the text.
LEMMA SearchStep ==
  ASSUME ReadInv, SearchInv, SearchNext, UNCHANGED vars
  PROVE  SearchInv' /\ (calls # <<>> /\ calls' # <<>> => Before(Path(calls), Path(calls')))
<1>1. frames' = frames /\ result' = result
  BY DEF vars
<1> DEFINE kids == result.elem.kids
           d == result.len
           names == query.names
<1>2. CASE Select
  <2>1. frames = <<>> /\ d # -1 /\ calls = <<>> /\ iCount' = 0 /\ found' = NotFound
    BY <1>2 DEF Select
  <2>2. PICK q \in Queries : /\ query' = q
                             /\ calls' = IF q.index < 0 \/ Len(q.names) = 0 THEN <<>>
                                         ELSE <<Call(q.kind, 1, kids)>>
    BY <1>2 DEF Select
  <2>3. q.index \in Int
    BY SearchAssumption
  <2>4. PICK S : Tree(doc.chars, S, kids, d, Levels(kids, d))
    BY <2>1, TreeRead
  <2>5. CASE q.index < 0
    BY <1>1, <2>1, <2>2, <2>5, <2>3 DEF SearchInv, AnswerOK
  <2>6. CASE q.index >= 0 /\ Len(q.names) = 0
    <3>1. HitSet(Levels(kids, d), d, q.names) = {}
      BY <2>6 DEF HitSet, Meant
    <3>2. Cardinality(HitSet(Levels(kids, d), d, q.names)) <= q.index
      BY <2>6, <3>1, FS_EmptySet
    <3>3. QED
      BY <1>1, <2>1, <2>2, <2>6, <2>3, <3>2 DEF SearchInv, AnswerOK
  <2>7. CASE q.index >= 0 /\ Len(q.names) # 0
    <3>1. SearchOK(kids, d, q, <<Call(q.kind, 1, kids)>>, 0)
      BY <2>4, <2>7, SearchStarts
    <3>2. calls' = <<Call(q.kind, 1, kids)>>
      BY <2>2, <2>7, SearchAssumption
    <3>3. <<Call(q.kind, 1, kids)>> # <<>>
      OBVIOUS
    <3>4. QED
      BY <1>1, <2>1, <2>2, <2>3, <3>1, <3>2, <3>3 DEF SearchInv
  <2>8. QED
    BY <2>5, <2>6, <2>7, <2>3
<1>3. CASE calls # <<>>
  <2>1. /\ frames = <<>> /\ d # -1 /\ found = NotFound
        /\ SearchOK(kids, d, query, calls, iCount)
    BY <1>3 DEF SearchInv
  <2>2. PICK S : Tree(doc.chars, S, kids, d, Levels(kids, d))
    BY <2>1, TreeRead
  <2>3. /\ InList(calls) => Before(Path(calls), Path(NextChild(calls)))
        /\ InList(calls) /\ ~Counted(calls, names) =>
             Before(Path(calls), Path(Append(calls, ChildCall(calls, names))))
        /\ ~InList(calls) /\ Len(calls) # 1 =>
             Before(Path(calls), Path(NextChild(SubSeq(calls, 1, Len(calls) - 1))))
    BY <2>1, <2>2, SearchForward
  <2>4. /\ Looking <=> InList(calls)
        /\ Matches /\ LastName <=> Counted(calls, names)
        /\ ForChildren = ChildCall(calls, names)
    BY <1>3, SearchAt
  <2>5. CASE Hit
    <3>1. /\ InList(calls) /\ Counted(calls, names) /\ iCount = query.index
          /\ found' = Path(calls) /\ calls' = <<>> /\ query' = query
      BY <2>4, <2>5 DEF Hit
    <3>2. AnswerOK(kids, d, query, Path(calls))
      BY <2>1, <2>2, <3>1, SearchCounts
    <3>3. QED
      BY <1>1, <2>1, <3>1, <3>2 DEF SearchInv
  <2>6. CASE Count
    <3>1. /\ InList(calls) /\ Counted(calls, names) /\ iCount # query.index
          /\ iCount' = iCount + 1 /\ calls' = NextChild(calls)
          /\ found' = found /\ query' = query
      BY <2>4, <2>6 DEF Count
    <3>2. SearchOK(kids, d, query, NextChild(calls), iCount + 1)
      BY <2>1, <2>2, <3>1, SearchCounts
    <3>3. QED
      BY <1>1, <2>1, <2>3, <3>1, <3>2 DEF SearchInv, SearchOK, StackOK
  <2>7. CASE Descend
    <3>1. /\ InList(calls) /\ ~Counted(calls, names) /\ iCount' = iCount
          /\ calls' = Append(calls, ChildCall(calls, names))
          /\ found' = found /\ query' = query
      BY <2>4, <2>7 DEF Descend
    <3>2. SearchOK(kids, d, query, Append(calls, ChildCall(calls, names)), iCount)
      BY <2>1, <2>2, <3>1, SearchDescends
    <3>3. QED
      BY <1>1, <2>1, <2>3, <3>1, <3>2 DEF SearchInv, SearchOK, StackOK
  <2>8. CASE EndOfList
    <3>1. /\ ~InList(calls) /\ iCount' = iCount /\ found' = found /\ query' = query
          /\ calls' = IF Len(calls) = 1 THEN <<>>
                      ELSE NextChild(SubSeq(calls, 1, Len(calls) - 1))
      BY <2>4, <2>8 DEF EndOfList
    <3>2. /\ Len(calls) = 1 => AnswerOK(kids, d, query, NotFound)
          /\ Len(calls) # 1 =>
               SearchOK(kids, d, query, NextChild(SubSeq(calls, 1, Len(calls) - 1)), iCount)
      BY <2>1, <2>2, <3>1, SearchReturns
    <3>3. CASE Len(calls) = 1
      BY <1>1, <2>1, <3>1, <3>2, <3>3 DEF SearchInv
    <3>4. CASE Len(calls) # 1
      BY <1>1, <2>1, <2>3, <3>1, <3>2, <3>4 DEF SearchInv, SearchOK, StackOK
    <3>5. QED
      BY <3>3, <3>4
  <2>9. ~Select
    BY <1>3 DEF Select
  <2>10. QED
    BY <2>5, <2>6, <2>7, <2>8, <2>9 DEF SearchNext
<1>4. QED
  BY <1>2, <1>3 DEF SearchNext, Hit, Count, Descend, EndOfList, Looking

\* So does every step of reading and searching.
LEMMA NextSearchInv ==
  ReadInv /\ SearchInv /\ [XmlNext]_xmlVars =>
    SearchInv' /\ [calls # <<>> /\ calls' # <<>> => Before(Path(calls), Path(calls'))]_xmlVars
<1> SUFFICES ASSUME ReadInv, SearchInv, [XmlNext]_xmlVars
             PROVE  /\ SearchInv'
                    /\ [calls # <<>> /\ calls' # <<>> => Before(Path(calls), Path(calls'))]_xmlVars
  OBVIOUS
<1>1. CASE Next /\ UNCHANGED searchVars
  <2>1. /\ frames # <<>> /\ query' = query /\ iCount' = iCount /\ calls' = calls
        /\ found' = found
    BY <1>1, NextReads DEF searchVars
  <2>2. calls = <<>> /\ query.index < 0 /\ found = NotFound
    BY <2>1 DEF SearchInv
  <2>3. QED
    BY <2>1, <2>2 DEF SearchInv, AnswerOK
<1>2. CASE SearchNext /\ UNCHANGED vars
  BY <1>2, SearchStep
<1>3. CASE UNCHANGED xmlVars
  BY <1>3 DEF xmlVars, vars, searchVars, SearchInv
<1>4. QED
  BY <1>1, <1>2, <1>3 DEF XmlNext

\* Reading is the same with searches behind it.
LEMMA Reads == XmlSpec => Spec
<1>1. XmlInit => Init
  BY DEF XmlInit
<1>2. [XmlNext]_xmlVars => [Next]_vars
  BY DEF XmlNext, xmlVars
<1>3. QED
  BY <1>1, <1>2, PTL DEF XmlSpec, Spec

\* What was proved of reading.
LEMMA ReadInvHolds == Spec => []ReadInv
BY IInvHolds, InitReadInv, NextReadInv, PTL DEF Spec

\* For every text, every object it is read into and every search, the answer is the element
\* with the right number, counted in the order of the text (XmlSearch.cpp:386, 425, 462).
THEOREM AnswersInOrder == XmlSpec => []CountsInOrder
<1>1. SearchInv => CountsInOrder
  BY AnswerIs DEF SearchInv
<1>2. QED
  BY <1>1, Reads, ReadInvHolds, InitSearchInv, NextSearchInv, PTL DEF XmlSpec

\* For every text and every search, each turn of the search goes on in the text, so that
\* it looks at no element twice (XmlSearch.cpp:391, 404, 430, 470).
THEOREM SearchesGetOn == XmlSpec => SearchGoesForward
BY Reads, ReadInvHolds, InitSearchInv, NextSearchInv, PTL DEF XmlSpec, SearchGoesForward

-----------------------------------------------------------------------------
(* There is one answer                                                     *)

\* The order of the paths is one.
LEMMA BeforeTotal ==
  ASSUME NEW p \in Seq(Nat), NEW q \in Seq(Nat)
  PROVE  p = q \/ Before(p, q) \/ Before(q, p)
<1> DEFINE k == Len(p)
           l == Len(q)
           D == {m \in 1..k : m <= l /\ p[m] # q[m]}
<1>1. k \in Nat /\ l \in Nat /\ (\A m \in 1..k : p[m] \in Nat) /\ \A m \in 1..l : q[m] \in Nat
  BY LenProperties, ElementOfSeq
<1>2. \A m \in 1..k : m <= l /\ m \notin D => p[m] = q[m]
  OBVIOUS
<1>3. k = l /\ D = {} => p = q
  <2>1. Len(p) = k /\ Len(q) = l
    OBVIOUS
  <2> HIDE DEF k, l, D
  <2>2. SUFFICES ASSUME k = l, D = {} PROVE p = q
    OBVIOUS
  <2>3. Len(p) = k /\ Len(q) = k /\ \A m \in 1..k : p[m] = q[m]
    BY <1>1, <1>2, <2>1, <2>2
  <2>4. Len(p) = Len(q) /\ \A m \in 1..Len(p) : p[m] = q[m]
    BY <2>3
  <2>5. p = q
    BY <2>4, SeqEqual
  <2>6. QED
    BY <2>5
<1>4. Before(p, q) <=> \E n \in 1..l : /\ n <= k + 1 /\ \A m \in 1..n - 1 : p[m] = q[m]
                                       /\ n <= k => p[n] < q[n]
  BY DEF Before
<1>5. Before(q, p) <=> \E n \in 1..k : /\ n <= l + 1 /\ \A m \in 1..n - 1 : q[m] = p[m]
                                       /\ n <= l => q[n] < p[n]
  BY DEF Before
<1>6. D \subseteq 1..k /\ \A m \in D : m <= l /\ p[m] # q[m]
  OBVIOUS
<1> HIDE DEF k, l, D
<1>7. CASE D = {}
  <2>1. CASE k < l
    <3>1. /\ k + 1 \in 1..l /\ (\A m \in 1..(k + 1) - 1 : m \in 1..k /\ m <= l)
          /\ ~(k + 1 <= k)
      BY <1>1, <2>1
    <3>2. \A m \in 1..(k + 1) - 1 : p[m] = q[m]
      BY <1>2, <1>7, <3>1
    <3>3. k + 1 <= k + 1
      BY <1>1
    <3>4. QED
      BY <1>4, <3>1, <3>2, <3>3
  <2>2. CASE l < k
    <3>1. /\ l + 1 \in 1..k /\ (\A m \in 1..(l + 1) - 1 : m \in 1..k /\ m <= l)
          /\ ~(l + 1 <= l)
      BY <1>1, <2>2
    <3>2. \A m \in 1..(l + 1) - 1 : q[m] = p[m]
      BY <1>2, <1>7, <3>1
    <3>3. l + 1 <= l + 1
      BY <1>1
    <3>4. QED
      BY <1>5, <3>1, <3>2, <3>3
  <2>3. QED
    BY <1>1, <1>3, <1>7, <2>1, <2>2
<1>8. CASE D # {}
  <2>1. D \subseteq Nat
    BY <1>6
  <2>2. PICK n \in D : \A m \in D : n <= m
    BY <1>8, <2>1, LeastIn
  <2>3. n \in 1..k /\ n \in 1..l /\ p[n] # q[n] /\ p[n] \in Nat /\ q[n] \in Nat
    BY <1>1, <1>6
  <2>4. \A m \in 1..n - 1 : m \in 1..k /\ m <= l /\ m \notin D
    BY <1>1, <2>2, <2>3
  <2>5. \A m \in 1..n - 1 : p[m] = q[m] /\ q[m] = p[m]
    BY <1>2, <2>4
  <2>6. n <= k + 1 /\ n <= l + 1 /\ (p[n] < q[n] \/ q[n] < p[n])
    BY <1>1, <2>3
  <2>7. QED
    BY <1>4, <1>5, <2>3, <2>5, <2>6
<1>9. QED
  BY <1>7, <1>8

\* Nothing is in front of itself.
LEMMA BeforeSelf ==
  ASSUME NEW p \in Seq(Nat)
  PROVE  ~Before(p, p)
<1>1. Len(p) \in Nat /\ \A m \in 1..Len(p) : p[m] \in Nat
  BY LenProperties, ElementOfSeq
<1>2. QED
  BY <1>1 DEF Before

\* What is in front of what is in front is in front.
LEMMA BeforeBefore ==
  ASSUME NEW p \in Seq(Nat), NEW q \in Seq(Nat), NEW r \in Seq(Nat), Before(p, q), Before(q, r)
  PROVE  Before(p, r)
<1>1. PICK i \in 1..Len(q) : /\ i <= Len(p) + 1 /\ \A m \in 1..i - 1 : p[m] = q[m]
                             /\ i <= Len(p) => p[i] < q[i]
  BY DEF Before
<1>2. PICK j \in 1..Len(r) : /\ j <= Len(q) + 1 /\ \A m \in 1..j - 1 : q[m] = r[m]
                             /\ j <= Len(q) => q[j] < r[j]
  BY DEF Before
<1>3. /\ Len(p) \in Nat /\ Len(q) \in Nat /\ Len(r) \in Nat
      /\ \A m \in 1..Len(p) : p[m] \in Nat
      /\ \A m \in 1..Len(q) : q[m] \in Nat
      /\ \A m \in 1..Len(r) : r[m] \in Nat
  BY LenProperties, ElementOfSeq
<1>4. CASE i <= j
  <2>1. i \in 1..Len(r)
    BY <1>3, <1>4
  <2>2. \A m \in 1..i - 1 : p[m] = r[m]
    BY <1>1, <1>2, <1>3, <1>4
  <2>3. i <= Len(p) => p[i] < r[i]
    <3>1. CASE i = j
      <4> SUFFICES ASSUME i <= Len(p) PROVE p[i] < r[i]
        OBVIOUS
      <4>1. i <= Len(q) /\ p[i] < q[i] /\ q[i] < r[i]
        BY <1>1, <1>2, <1>3, <3>1
      <4>2. i \in 1..Len(p) /\ i \in 1..Len(r)
        BY <1>3, <2>1
      <4>3. p[i] \in Nat /\ q[i] \in Nat /\ r[i] \in Nat
        BY <1>3, <4>2
      <4>4. QED
        BY <4>1, <4>3
    <3>2. CASE i < j
      <4>1. i \in 1..j - 1
        BY <1>3, <3>2
      <4>2. QED
        BY <1>1, <1>2, <4>1
    <3>3. QED
      BY <1>3, <1>4, <3>1, <3>2
  <2>4. QED
    BY <1>1, <2>1, <2>2, <2>3 DEF Before
<1>5. CASE j < i
  <2>1. i \in Nat /\ j \in Nat /\ i <= Len(p) + 1 /\ i <= Len(q)
    BY <1>1, <1>2, <1>3
  <2>2. j <= Len(p) + 1 /\ j <= Len(q) /\ j \in 1..i - 1
    BY <1>2, <1>3, <1>5, <2>1
  <2>3. \A m \in 1..j - 1 : p[m] = r[m]
    <3>1. \A m \in 1..j - 1 : m \in 1..i - 1
      BY <1>5, <2>1
    <3>2. QED
      BY <1>1, <1>2, <3>1
  <2>4. p[j] < r[j]
    BY <1>1, <1>2, <2>2
  <2>5. QED
    BY <2>2, <2>3, <2>4 DEF Before
<1>6. QED
  BY <1>3, <1>4, <1>5

\* What a function takes the elements of a finite set to is a finite set.
LEMMA FiniteImage ==
  ASSUME NEW S, IsFiniteSet(S), NEW f
  PROVE  IsFiniteSet({f[x] : x \in S})
<1> DEFINE T == {f[x] : x \in S}
           g == [x \in S |-> f[x]]
<1>1. g \in Surjection(S, T)
  BY DEF Surjection
<1> HIDE DEF g, T
<1>2. IsFiniteSet(T)
  BY <1>1, FS_Surjection
<1>3. QED
  BY <1>2 DEF T

\* An element has finitely many below it.
LEMMA FiniteHits ==
  ASSUME NEW t, NEW S, NEW kids, NEW d, NEW L, Tree(t, S, kids, d, L), NEW names
  PROVE  IsFiniteSet(HitSet(L, d, names))
<1> DEFINE P == {n \in 0..d : IsFiniteSet(L[n])}
<1>1. d \in Nat
  BY DEF Tree
<1>2. 0 \in P
  <2>1. L[0] = {} \cup {Root(kids)}
    BY DEF Tree, AreLevels
  <2>2. IsFiniteSet({} \cup {Root(kids)})
    BY FS_EmptySet, FS_AddElement
  <2>3. QED
    BY <1>1, <2>1, <2>2
<1>3. ASSUME NEW n \in 1..d, n - 1 \in P PROVE n \in P
  <2> DEFINE K == L[n - 1]
             g == [x \in K |-> {Beneath(x, i) : i \in DOMAIN x.kids}]
             W == {g[x] : x \in K}
  <2>1. IsFiniteSet(K) /\ n - 1 \in 0..d /\ n \in 0..d
    BY <1>1, <1>3
  <2>2. ASSUME NEW x \in K PROVE IsFiniteSet(g[x])
    <3> DEFINE N == DOMAIN x.kids
               h == [i \in N |-> Beneath(x, i)]
    <3>1. ListOf(S, x.kids, n - 1, d) /\ n - 1 \in Nat
      BY <1>1, <2>1, LevelRead DEF Tree
    <3>2. N = 1..Len(x.kids) /\ Len(x.kids) \in Nat
      BY <1>1, <3>1, ListRead DEF Tree
    <3>3. IsFiniteSet(N)
      BY <3>2, FS_Interval
    <3>4. {h[i] : i \in N} = g[x]
      OBVIOUS
    <3> HIDE DEF h, N, g
    <3>5. IsFiniteSet({h[i] : i \in N})
      BY <3>3, FiniteImage
    <3>6. QED
      BY <3>4, <3>5
  <2>3. L[n] = UNION W
    <3>1. \A y : y \in L[n] <=> \E x \in K : \E i \in DOMAIN x.kids : y = Beneath(x, i)
      BY DEF Tree, AreLevels
    <3>2. \A x \in K : \A y : y \in g[x] <=> \E i \in DOMAIN x.kids : y = Beneath(x, i)
      OBVIOUS
    <3> HIDE DEF g, K
    <3>3. QED
      BY <3>1, <3>2
  <2>4. \A w \in W : IsFiniteSet(w)
    BY <2>2
  <2> HIDE DEF g, K
  <2>5. IsFiniteSet(W)
    BY <2>1, FiniteImage
  <2> HIDE DEF W
  <2>6. IsFiniteSet(UNION W)
    BY <2>4, <2>5, FS_UNION
  <2>7. QED
    BY <2>1, <2>3, <2>6
<1>4. \A n \in 0..d : n \in P
  <2> HIDE DEF P
  <2>1. QED
    BY <1>1, <1>2, <1>3, UpTo
<1> DEFINE E == {L[n] : n \in 1..d}
<1>5. IsFiniteSet(E)
  <2>1. IsFiniteSet(1..d)
    BY <1>1, FS_Interval
  <2>2. QED
    BY <2>1, FiniteImage
<1>6. \A e \in E : IsFiniteSet(e)
  BY <1>1, <1>4
<1> HIDE DEF E
<1>7. IsFiniteSet(UNION E)
  BY <1>5, <1>6, FS_UNION
<1>8. HitSet(L, d, names) \in SUBSET UNION E
  BY DEF HitSet, E
<1> HIDE DEF P
<1>9. QED
  BY <1>7, <1>8, FS_Subset

\* A search can have one answer only: the path of the one element with this number in
\* front, or none if there are not so many.
LEMMA OneAnswer ==
  ASSUME NEW t, NEW S, NEW kids, NEW d, Tree(t, S, kids, d, Levels(kids, d)), NEW q,
         q.index \in Int, NEW f, NEW g, AnswerOK(kids, d, q, f), AnswerOK(kids, d, q, g)
  PROVE  f = g
<1> DEFINE L == Levels(kids, d)
           H == HitSet(L, d, q.names)
<1>1. /\ f = NotFound => q.index < 0 \/ Cardinality(H) <= q.index
      /\ g = NotFound => q.index < 0 \/ Cardinality(H) <= q.index
      /\ f # NotFound => (\E x \in H : x.path = f) /\ Cardinality(InFront(H, f)) = q.index
      /\ g # NotFound => (\E x \in H : x.path = g) /\ Cardinality(InFront(H, g)) = q.index
  BY DEF AnswerOK
<1> HIDE DEF L
<1>2. Tree(t, S, kids, d, L)
  BY DEF L
<1>3. IsFiniteSet(H) /\ \A x \in H : x.path \in Seq(Nat)
  BY <1>2, FiniteHits, HitIs DEF IsSpot
<1> HIDE DEF H
<1>4. ASSUME NEW p
      PROVE  IsFiniteSet(InFront(H, p)) /\ Cardinality(InFront(H, p)) \in Nat
  <2>1. InFront(H, p) \in SUBSET H
    BY DEF InFront
  <2>2. IsFiniteSet(InFront(H, p))
    BY <1>3, <2>1, FS_Subset
  <2>3. QED
    BY <2>2, FS_CardinalityType
<1>5. ASSUME NEW x \in H, NEW T, T \in SUBSET H, InFront(H, x.path) \subseteq T, x \in T
      PROVE  Cardinality(InFront(H, x.path)) < Cardinality(T)
  <2> DEFINE B == InFront(H, x.path)
  <2>1. x \notin B
    BY <1>3, BeforeSelf DEF InFront
  <2>2. IsFiniteSet(B) /\ Cardinality(B) \in Nat
    BY <1>4
  <2>3. IsFiniteSet(T)
    BY <1>3, <1>5, FS_Subset
  <2> HIDE DEF B
  <2>4. IsFiniteSet(B \cup {x}) /\ Cardinality(B \cup {x}) = Cardinality(B) + 1
    BY <2>1, <2>2, FS_AddElement
  <2>5. B \cup {x} \in SUBSET T
    BY <1>5 DEF B
  <2>6. Cardinality(B \cup {x}) <= Cardinality(T) /\ Cardinality(T) \in Nat
    BY <2>3, <2>5, FS_Subset, FS_CardinalityType
  <2>7. Cardinality(B) < Cardinality(T)
    BY <2>2, <2>4, <2>6
  <2>8. QED
    BY <2>7 DEF B
<1>6. ASSUME NEW x \in H, NEW y \in H, Before(x.path, y.path)
      PROVE  Cardinality(InFront(H, x.path)) < Cardinality(InFront(H, y.path))
  <2>1. InFront(H, x.path) \subseteq InFront(H, y.path)
    BY <1>3, <1>6, BeforeBefore DEF InFront
  <2>2. x \in InFront(H, y.path) /\ InFront(H, y.path) \in SUBSET H
    BY <1>6 DEF InFront
  <2>3. QED
    BY <1>5, <2>1, <2>2
<1>7. ASSUME NEW x \in H
      PROVE  Cardinality(InFront(H, x.path)) < Cardinality(H)
  <2>1. InFront(H, x.path) \subseteq H /\ H \in SUBSET H
    BY DEF InFront
  <2>2. QED
    BY <1>5, <2>1
<1>8. Cardinality(H) \in Nat
  BY <1>3, FS_CardinalityType
<1>9. ASSUME NEW x \in H, Cardinality(InFront(H, x.path)) = q.index
      PROVE  ~(q.index < 0 \/ Cardinality(H) <= q.index)
  BY <1>4, <1>7, <1>8, <1>9
<1>10. ASSUME NEW x \in H, NEW y \in H, Cardinality(InFront(H, x.path)) = q.index,
              Cardinality(InFront(H, y.path)) = q.index
       PROVE  x.path = y.path
  <2>1. ~Before(x.path, y.path) /\ ~Before(y.path, x.path)
    BY <1>4, <1>6, <1>10
  <2>2. QED
    BY <1>3, <2>1, BeforeTotal
<1>11. CASE f = NotFound \/ g = NotFound
  BY <1>1, <1>9, <1>11
<1>12. CASE f # NotFound /\ g # NotFound
  BY <1>1, <1>10, <1>12
<1>13. QED
  BY <1>11, <1>12

\* The three functions of CXmlSearch agree, whichever of them was called: for the same
\* names and index the answer of a search in the element that was read is the only one
\* that the names allow (XmlSearch.cpp:386, 425, 462).
SearchesAgree ==
  frames = <<>> /\ result.len # -1 /\ calls = <<>> =>
    \A f : AnswerOK(result.elem.kids, result.len, query, f) <=> f = found

\* For every text and every search (XmlSearch.cpp:332-375).
THEOREM TheOnlyAnswer == XmlSpec => []SearchesAgree
<1>1. ReadInv /\ SearchInv => SearchesAgree
  <2> SUFFICES ASSUME ReadInv, SearchInv, frames = <<>>, result.len # -1, calls = <<>>,
                      NEW f
               PROVE  AnswerOK(result.elem.kids, result.len, query, f) <=> f = found
    BY DEF SearchesAgree
  <2>1. query.index \in Int /\ AnswerOK(result.elem.kids, result.len, query, found)
    BY DEF SearchInv
  <2>2. PICK S : Tree(doc.chars, S, result.elem.kids, result.len,
                      Levels(result.elem.kids, result.len))
    BY TreeRead
  <2>3. QED
    BY <2>1, <2>2, OneAnswer
<1>2. QED
  BY <1>1, Reads, ReadInvHolds, InitSearchInv, NextSearchInv, PTL DEF XmlSpec
=============================================================================
