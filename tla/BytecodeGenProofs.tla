------------------------- MODULE BytecodeGenProofs -------------------------
(***************************************************************************)
(* That a break can only match a statement that encloses it, for trees of  *)
(* every size.  visitIf pushes its descriptor when the rest of it is put   *)
(* on the visitors' stack, and pops it when that is taken off; in between, *)
(* the others' are pushed above it and popped again.  So the descriptors   *)
(* are in the order of the visitIfs that are still to be finished, and the *)
(* one that ends finds its own at the back or has none.                    *)
(*                                                                         *)
(* The second half follows a break from there: in which encoder and where  *)
(* it is patched, and that it then lands on the end of its statement.      *)
(***************************************************************************)
EXTENDS BytecodeGen, WellFoundedInduction, TLAPS

IsSeq(s) == Len(s) \in Nat /\ s = [i \in 1 .. Len(s) |-> s[i]]

IsDesc(d) ==
  /\ d = [ident |-> d.ident, stmt |-> d.stmt, breaks |-> d.breaks, copies |-> d.copies, depth |-> d.depth]
  /\ d.stmt \in Nat

\* The statements that are being visited have been counted, each is visited once.
Entered  == \A i \in DOMAIN todo : OfIf(todo[i]) => todo[i].stmt \in 1 .. nStmts
Distinct ==
  \A i, j \in DOMAIN todo : OfIf(todo[i]) /\ OfIf(todo[j]) /\ i # j => todo[i].stmt # todo[j].stmt

\* Every descriptor is of one of them, and a later one of one that is nearer the head.
Enclosed ==
  \A d \in DOMAIN labelDescs : \E i \in DOMAIN todo : OfIf(todo[i]) /\ todo[i].stmt = labelDescs[d].stmt
Ordered ==
  \A c, d \in DOMAIN labelDescs, i, j \in DOMAIN todo :
    /\ c < d /\ OfIf(todo[i]) /\ OfIf(todo[j])
    /\ todo[i].stmt = labelDescs[d].stmt /\ todo[j].stmt = labelDescs[c].stmt
    => i < j

IInv ==
  /\ nStmts \in Nat
  /\ IsSeq(todo)
  /\ IsSeq(labelDescs)
  /\ \A d \in DOMAIN labelDescs : IsDesc(labelDescs[d])
  /\ Entered
  /\ Distinct
  /\ Enclosed
  /\ Ordered

-----------------------------------------------------------------------------
(***************************************************************************)
(* Sequences of any elements.                                              *)
(***************************************************************************)
LEMMA SeqFacts ==
  ASSUME NEW s, IsSeq(s)
  PROVE  /\ DOMAIN s = 1 .. Len(s) /\ Len(s) \in Nat
         /\ \A S : (\A i \in DOMAIN s : s[i] \in S) => s \in Seq(S)
<1>1. DOMAIN s = 1 .. Len(s) /\ Len(s) \in Nat
  BY DEF IsSeq
<1>2. ASSUME NEW S, \A i \in DOMAIN s : s[i] \in S PROVE s \in Seq(S)
  <2>1. s \in [1 .. Len(s) -> S]
    BY <1>1, <1>2 DEF IsSeq
  <2> QED
    BY <1>1, <2>1
<1> QED
  BY <1>1, <1>2

LEMMA SeqIsSeq == ASSUME NEW S, NEW s \in Seq(S) PROVE IsSeq(s)
BY DEF IsSeq

LEMMA AppendFacts ==
  ASSUME NEW s, IsSeq(s), NEW e
  PROVE  /\ IsSeq(Append(s, e)) /\ DOMAIN Append(s, e) = 1 .. Len(s) + 1
         /\ \A i \in DOMAIN s : Append(s, e)[i] = s[i]
         /\ Append(s, e)[Len(s) + 1] = e
<1> DEFINE S == {s[i] : i \in DOMAIN s} \union {e}
<1>1. s \in Seq(S)
  BY SeqFacts
<1>2. e \in S
  OBVIOUS
<1> HIDE DEF S
<1>3. Append(s, e) \in Seq(S)
  BY <1>1, <1>2
<1>4. DOMAIN s = 1 .. Len(s) /\ Len(Append(s, e)) = Len(s) + 1
  BY <1>1, <1>2
<1>5. /\ \A i \in 1 .. Len(s) : Append(s, e)[i] = s[i]
      /\ Append(s, e)[Len(s) + 1] = e
  BY <1>1, <1>2
<1>6. IsSeq(Append(s, e))
  BY <1>3, SeqIsSeq
<1>7. DOMAIN Append(s, e) = 1 .. Len(s) + 1
  BY <1>4, <1>6, SeqFacts
<1> QED
  BY <1>4, <1>5, <1>6, <1>7

LEMMA FrontFacts ==
  ASSUME NEW s, IsSeq(s), s # <<>>
  PROVE  /\ IsSeq(Front(s)) /\ DOMAIN Front(s) = 1 .. Len(s) - 1
         /\ \A i \in 1 .. Len(s) - 1 : Front(s)[i] = s[i]
         /\ Last(s) = s[Len(s)] /\ Len(s) \in DOMAIN s
<1> DEFINE S == {s[i] : i \in DOMAIN s}
<1>1. s \in Seq(S)
  BY SeqFacts
<1> HIDE DEF S
<1>2. Len(s) \in Nat \ {0} /\ DOMAIN s = 1 .. Len(s)
  <2>1. Len(s) # 0
    BY <1>1
  <2> QED
    BY <1>1, <2>1
<1>3. Front(s) = [i \in 1 .. Len(s) - 1 |-> s[i]]
  BY <1>1, <1>2 DEF Front
<1>4. Front(s) \in Seq(S)
  BY <1>1, <1>2, <1>3
<1>5. Len(s) \in 1 .. Len(s)
  BY <1>2
<1> QED
  BY <1>2, <1>3, <1>4, <1>5, SeqIsSeq DEF Last

\* The first item of todo gives way to others.
LEMMA Replaced ==
  ASSUME NEW items, IsSeq(items), IsSeq(todo), todo # <<>>, Replace(items)
  PROVE  /\ IsSeq(todo') /\ DOMAIN todo' = 1 .. Len(items) + Len(todo) - 1
         /\ \A i \in DOMAIN items : todo'[i] = items[i]
         /\ \A i \in Len(items) + 1 .. Len(items) + Len(todo) - 1 : todo'[i] = todo[(i - Len(items)) + 1]
         /\ Len(items) \in Nat /\ DOMAIN items = 1 .. Len(items)
         /\ Len(todo) \in Nat \ {0} /\ DOMAIN todo = 1 .. Len(todo) /\ Head(todo) = todo[1]
<1> DEFINE S == {items[i] : i \in DOMAIN items} \union {todo[i] : i \in DOMAIN todo}
<1>1. items \in Seq(S) /\ todo \in Seq(S)
  <2>1. items \in Seq({items[i] : i \in DOMAIN items}) /\ todo \in Seq({todo[i] : i \in DOMAIN todo})
    BY SeqFacts
  <2>2. (\A i \in DOMAIN items : items[i] \in S) /\ (\A i \in DOMAIN todo : todo[i] \in S)
    OBVIOUS
  <2> HIDE DEF S
  <2> QED
    BY <2>2, SeqFacts
<1> HIDE DEF S
<1>2. /\ Len(items) \in Nat /\ DOMAIN items = 1 .. Len(items)
      /\ Len(todo) \in Nat \ {0} /\ DOMAIN todo = 1 .. Len(todo) /\ Head(todo) = todo[1]
  <2>1. Len(todo) # 0
    BY <1>1
  <2> QED
    BY <1>1, <2>1
<1> DEFINE rest == Tail(todo)
<1>3. rest \in Seq(S) /\ Len(rest) = Len(todo) - 1 /\ \A i \in 1 .. Len(todo) - 1 : rest[i] = todo[i + 1]
  BY <1>1, <1>2
<1>4. todo' = items \o rest
  BY DEF Replace
<1> HIDE DEF rest
<1>5. todo' \in Seq(S) /\ Len(todo') = Len(items) + Len(rest)
  BY <1>1, <1>3, <1>4
<1>6. \A i \in 1 .. Len(items) : todo'[i] = items[i]
  BY <1>1, <1>2, <1>3, <1>4
<1>7. \A i \in Len(items) + 1 .. Len(items) + Len(rest) : todo'[i] = rest[i - Len(items)]
  BY <1>1, <1>2, <1>3, <1>4
<1>8. \A i \in Len(items) + 1 .. Len(items) + Len(todo) - 1 :
        i \in Len(items) + 1 .. Len(items) + Len(rest) /\ i - Len(items) \in 1 .. Len(todo) - 1
  BY <1>2, <1>3
<1>9. \A i \in Len(items) + 1 .. Len(items) + Len(todo) - 1 : todo'[i] = todo[(i - Len(items)) + 1]
  BY <1>3, <1>7, <1>8
<1>10. DOMAIN todo' = 1 .. Len(items) + Len(todo) - 1
  BY <1>2, <1>3, <1>5
<1> QED
  BY <1>2, <1>5, <1>6, <1>9, <1>10, SeqIsSeq
-----------------------------------------------------------------------------
(***************************************************************************)
(* A step that does not enter or leave an if.                              *)
(***************************************************************************)
\* The p-th of items is what is left of the visitIf that was at the head, if one was.
Resumes(items, p) ==
  /\ OfIf(Head(todo)) => p \in DOMAIN items /\ OfIf(items[p]) /\ items[p].stmt = Head(todo).stmt
  /\ \A i \in DOMAIN items :
       OfIf(items[i]) => i = p /\ OfIf(Head(todo)) /\ items[i].stmt = Head(todo).stmt

\* The descriptors are of the same statements as before.
SameDescs ==
  /\ IsSeq(labelDescs') /\ DOMAIN labelDescs' = DOMAIN labelDescs
  /\ \A d \in DOMAIN labelDescs : IsDesc(labelDescs'[d]) /\ labelDescs'[d].stmt = labelDescs[d].stmt

\* The items that are left of visitIfs are, in order, those that were there.
LEMMA ResumesKeepsIInv ==
  ASSUME IInv, todo # <<>>, NEW items, IsSeq(items), NEW p, Replace(items), Resumes(items, p),
         SameDescs, nStmts' = nStmts
  PROVE  IInv'
<1> DEFINE n == Len(items)
           Old(i) == IF i <= n THEN 1 ELSE (i - n) + 1
<1>1. /\ IsSeq(todo') /\ DOMAIN todo' = 1 .. n + Len(todo) - 1
      /\ \A i \in DOMAIN items : todo'[i] = items[i]
      /\ \A i \in n + 1 .. n + Len(todo) - 1 : todo'[i] = todo[(i - n) + 1]
      /\ n \in Nat /\ DOMAIN items = 1 .. n
      /\ Len(todo) \in Nat \ {0} /\ DOMAIN todo = 1 .. Len(todo) /\ Head(todo) = todo[1]
  BY Replaced DEF IInv
<1> HIDE DEF n
<1>2. ASSUME NEW i \in DOMAIN todo', OfIf(todo'[i])
      PROVE  /\ Old(i) \in DOMAIN todo /\ OfIf(todo[Old(i)]) /\ todo'[i].stmt = todo[Old(i)].stmt
             /\ i <= n => i = p
  <2>1. CASE i <= n
    <3>1. i \in DOMAIN items /\ todo'[i] = items[i] /\ 1 \in DOMAIN todo /\ Old(i) = 1
      BY <2>1, <1>1
    <3> QED
      BY <3>1, <1>1, <1>2 DEF Resumes
  <2>2. CASE ~(i <= n)
    <3>1. i \in n + 1 .. n + Len(todo) - 1 /\ (i - n) + 1 \in 1 .. Len(todo)
      BY <2>2, <1>1
    <3> QED
      BY <3>1, <2>2, <1>1, <1>2
  <2> QED
    BY <2>1, <2>2
<1>3. ASSUME NEW i \in DOMAIN todo', NEW j \in DOMAIN todo', OfIf(todo'[i]), OfIf(todo'[j])
      PROVE  /\ i # j => Old(i) # Old(j)
             /\ Old(i) < Old(j) => i < j
  <2>1. (i <= n => i = p) /\ (j <= n => j = p)
    BY <1>2, <1>3
  <2>2. i \in Nat \ {0} /\ j \in Nat \ {0} /\ n \in Nat
    BY <1>1
  <2>3. CASE i <= n
    BY <2>1, <2>2, <2>3
  <2>4. CASE ~(i <= n)
    BY <2>1, <2>2, <2>4
  <2> QED
    BY <2>3, <2>4
<1>4. ASSUME NEW j \in DOMAIN todo, OfIf(todo[j])
      PROVE  \E i \in DOMAIN todo' : OfIf(todo'[i]) /\ todo'[i].stmt = todo[j].stmt
  <2>1. CASE j = 1
    <3>1. p \in DOMAIN items /\ OfIf(items[p]) /\ items[p].stmt = todo[j].stmt
      BY <2>1, <1>1, <1>4 DEF Resumes
    <3>2. p \in DOMAIN todo'
      BY <3>1, <1>1
    <3> QED
      BY <3>1, <3>2, <1>1
  <2>2. CASE j # 1
    <3>1. /\ (n + j) - 1 \in DOMAIN todo' /\ (n + j) - 1 \in n + 1 .. n + Len(todo) - 1
          /\ ((n + j) - 1) - n + 1 = j
      BY <2>2, <1>1
    <3>2. todo'[(n + j) - 1] = todo[j]
      BY <3>1, <1>1
    <3> QED
      BY <3>1, <3>2, <1>4
  <2> QED
    BY <2>1, <2>2
<1> HIDE DEF Old
<1>5. Entered'
  BY <1>2 DEF IInv, Entered
<1>6. Distinct'
  BY <1>2, <1>3 DEF IInv, Distinct
<1>7. Enclosed'
  BY <1>4 DEF IInv, Enclosed, SameDescs
<1>8. Ordered'
  <2> SUFFICES ASSUME NEW c \in DOMAIN labelDescs, NEW d \in DOMAIN labelDescs,
                      NEW i \in DOMAIN todo', NEW j \in DOMAIN todo',
                      c < d, OfIf(todo'[i]), OfIf(todo'[j]),
                      todo'[i].stmt = labelDescs[d].stmt, todo'[j].stmt = labelDescs[c].stmt
               PROVE  i < j
    BY DEF Ordered, SameDescs
  <2>1. /\ Old(i) \in DOMAIN todo /\ OfIf(todo[Old(i)]) /\ todo[Old(i)].stmt = labelDescs[d].stmt
        /\ Old(j) \in DOMAIN todo /\ OfIf(todo[Old(j)]) /\ todo[Old(j)].stmt = labelDescs[c].stmt
    BY <1>2
  <2>2. Old(i) < Old(j)
    BY <2>1 DEF IInv, Ordered
  <2> QED
    BY <2>2, <1>3
<1> QED
  BY <1>1, <1>5, <1>6, <1>7, <1>8 DEF IInv, SameDescs

\* The step of an item that is nothing of an if, to others that are not.
LEMMA PlainKeepsIInv ==
  ASSUME IInv, todo # <<>>, NEW items, IsSeq(items), Replace(items),
         ~OfIf(Head(todo)), \A i \in DOMAIN items : ~OfIf(items[i]),
         SameDescs, nStmts' = nStmts
  PROVE  IInv'
<1>1. Resumes(items, 0)
  BY DEF Resumes
<1> QED
  BY <1>1, ResumesKeepsIInv

LEMMA UnchangedDescs == IInv /\ UNCHANGED labelDescs => SameDescs
BY DEF IInv, SameDescs

-----------------------------------------------------------------------------
(***************************************************************************)
(* visitIf and its end.                                                    *)
(***************************************************************************)
LEMMA VisitIfKeepsIInv == ASSUME IInv, VisitIf PROVE IInv'
<1>1. PICK else \in BOOLEAN :
        Replace(<<Item("Expr"), [k |-> "IfCode", stmt |-> nStmts + 1, else |-> else, depth |-> Len(gens)]>>)
  BY DEF VisitIf
<1> DEFINE items == <<Item("Expr"), [k |-> "IfCode", stmt |-> nStmts + 1, else |-> else, depth |-> Len(gens)]>>
<1>2. /\ IsSeq(items) /\ Len(items) = 2 /\ ~OfIf(items[1]) /\ OfIf(items[2])
      /\ items[2].stmt = nStmts + 1
  BY DEF IsSeq, Item, OfIf
<1>3. todo # <<>> /\ ~OfIf(Head(todo)) /\ nStmts' = nStmts + 1 /\ nStmts \in Nat
  BY DEF VisitIf, AtStmt, Doing, OfIf, IInv
<1>4. Replace(items)
  BY <1>1
<1> HIDE DEF items
<1>5. /\ IsSeq(todo') /\ DOMAIN todo' = 1 .. Len(todo) + 1
      /\ Len(todo) \in Nat \ {0} /\ DOMAIN todo = 1 .. Len(todo) /\ Head(todo) = todo[1]
      /\ todo'[1] = items[1] /\ todo'[2] = items[2]
      /\ \A i \in 3 .. Len(todo) + 1 : todo'[i] = todo[i - 1]
  <2>1. IsSeq(todo)
    BY DEF IInv
  <2>2. /\ IsSeq(todo') /\ DOMAIN todo' = 1 .. Len(items) + Len(todo) - 1
        /\ \A i \in DOMAIN items : todo'[i] = items[i]
        /\ \A i \in Len(items) + 1 .. Len(items) + Len(todo) - 1 : todo'[i] = todo[(i - Len(items)) + 1]
        /\ DOMAIN items = 1 .. Len(items)
        /\ Len(todo) \in Nat \ {0} /\ DOMAIN todo = 1 .. Len(todo) /\ Head(todo) = todo[1]
    BY <1>2, <1>3, <1>4, <2>1, Replaced
  <2>3. DOMAIN todo' = 1 .. Len(todo) + 1 /\ DOMAIN items = 1 .. 2
    BY <1>2, <2>2
  <2>4. \A i \in 3 .. Len(todo) + 1 : todo'[i] = todo[i - 1]
    BY <1>2, <2>2
  <2> QED
    BY <2>2, <2>3, <2>4
<1>6. \A i \in DOMAIN todo' : OfIf(todo'[i]) =>
        \/ i = 2 /\ todo'[i].stmt = nStmts + 1
        \/ /\ i > 2 /\ i - 1 \in DOMAIN todo /\ OfIf(todo[i - 1]) /\ todo'[i] = todo[i - 1]
           /\ todo'[i].stmt \in 1 .. nStmts
  BY <1>2, <1>5 DEF IInv, Entered
<1>7. \A j \in DOMAIN todo : OfIf(todo[j]) => j + 1 \in DOMAIN todo' /\ todo'[j + 1] = todo[j]
  <2> SUFFICES ASSUME NEW j \in DOMAIN todo, OfIf(todo[j])
               PROVE  j + 1 \in DOMAIN todo' /\ todo'[j + 1] = todo[j]
    OBVIOUS
  <2>1. j # 1
    BY <1>3, <1>5
  <2>2. j + 1 \in 3 .. Len(todo) + 1 /\ (j + 1) - 1 = j
    BY <2>1, <1>5
  <2> QED
    BY <2>2, <1>5
<1> DEFINE old == Len(labelDescs)
<1>8. /\ IsSeq(labelDescs')
      /\ old \in Nat /\ DOMAIN labelDescs = 1 .. old
      /\ \A d \in DOMAIN labelDescs' :
           /\ IsDesc(labelDescs'[d])
           /\ \/ d \in DOMAIN labelDescs /\ labelDescs'[d] = labelDescs[d]
              \/ d = old + 1 /\ labelDescs'[d].stmt = nStmts + 1
  <2>1. old \in Nat /\ DOMAIN labelDescs = 1 .. old /\ IsSeq(labelDescs)
    BY SeqFacts DEF IInv
  <2>2. CASE labelDescs' = labelDescs
    BY <2>1, <2>2 DEF IInv
  <2>3. CASE ~(labelDescs' = labelDescs)
    <3> DEFINE desc == [ident |-> Last(nextLabels), stmt |-> nStmts + 1, breaks |-> <<>>,
                        copies |-> Len(nextLabels), depth |-> Len(gens)]
    <3>1. labelDescs' = Append(labelDescs, desc)
      BY <2>3 DEF VisitIf
    <3>2. IsDesc(desc) /\ desc.stmt = nStmts + 1
      BY <1>3 DEF IsDesc
    <3> HIDE DEF desc
    <3>3. /\ IsSeq(labelDescs') /\ DOMAIN labelDescs' = 1 .. old + 1
          /\ \A i \in DOMAIN labelDescs : labelDescs'[i] = labelDescs[i]
          /\ labelDescs'[old + 1] = desc
      BY <2>1, <3>1, AppendFacts
    <3>4. \A d \in DOMAIN labelDescs' : d \in DOMAIN labelDescs \/ d = old + 1
      BY <2>1, <3>3
    <3> QED
      BY <2>1, <3>2, <3>3, <3>4 DEF IInv
  <2> QED
    BY <2>2, <2>3
<1> HIDE DEF old
<1>9. \A d \in DOMAIN labelDescs :
        \E j \in DOMAIN todo : OfIf(todo[j]) /\ todo[j].stmt = labelDescs[d].stmt
  BY DEF IInv, Enclosed
<1>10. \A d \in DOMAIN labelDescs : labelDescs[d].stmt \in 1 .. nStmts
  BY <1>9 DEF IInv, Entered
<1>11. Entered'
  BY <1>3, <1>6 DEF Entered
<1>12. Distinct'
  <2> SUFFICES ASSUME NEW i \in DOMAIN todo', NEW j \in DOMAIN todo', OfIf(todo'[i]), OfIf(todo'[j]),
                      i # j
               PROVE  todo'[i].stmt # todo'[j].stmt
    BY DEF Distinct
  <2>1. CASE i = 2
    BY <2>1, <1>3, <1>6
  <2>2. CASE j = 2
    BY <2>2, <1>3, <1>6
  <2>3. CASE i # 2 /\ j # 2
    <3>1. /\ i - 1 \in DOMAIN todo /\ OfIf(todo[i - 1]) /\ todo'[i] = todo[i - 1]
          /\ j - 1 \in DOMAIN todo /\ OfIf(todo[j - 1]) /\ todo'[j] = todo[j - 1]
      BY <2>3, <1>6
    <3>2. i - 1 # j - 1
      BY <1>5
    <3> QED
      BY <3>1, <3>2 DEF IInv, Distinct
  <2> QED
    BY <2>1, <2>2, <2>3
<1>13. Enclosed'
  <2> SUFFICES ASSUME NEW d \in DOMAIN labelDescs'
               PROVE  \E i \in DOMAIN todo' : OfIf(todo'[i]) /\ todo'[i].stmt = labelDescs'[d].stmt
    BY DEF Enclosed
  <2>1. CASE d \in DOMAIN labelDescs /\ labelDescs'[d] = labelDescs[d]
    BY <2>1, <1>7, <1>9
  <2>2. CASE labelDescs'[d].stmt = nStmts + 1
    <3>1. 2 \in DOMAIN todo'
      BY <1>5
    <3> QED
      BY <2>2, <3>1, <1>2, <1>5
  <2> QED
    BY <2>1, <2>2, <1>8
<1>14. Ordered'
  <2> SUFFICES ASSUME NEW c \in DOMAIN labelDescs', NEW d \in DOMAIN labelDescs',
                      NEW i \in DOMAIN todo', NEW j \in DOMAIN todo',
                      c < d, OfIf(todo'[i]), OfIf(todo'[j]),
                      todo'[i].stmt = labelDescs'[d].stmt, todo'[j].stmt = labelDescs'[c].stmt
               PROVE  i < j
    BY DEF Ordered
  <2>1. c \in DOMAIN labelDescs /\ labelDescs'[c] = labelDescs[c] /\ labelDescs[c].stmt \in 1 .. nStmts
    <3>1. ~(c = old + 1)
      <4>1. DOMAIN labelDescs' \subseteq 1 .. old + 1
        BY <1>8
      <4> QED
        BY <4>1, <1>8
    <3> QED
      BY <3>1, <1>8, <1>10
  <2>2. j > 2 /\ j - 1 \in DOMAIN todo /\ OfIf(todo[j - 1]) /\ todo'[j] = todo[j - 1]
    BY <2>1, <1>3, <1>6
  <2>3. CASE i = 2
    BY <2>2, <2>3, <1>5
  <2>4. CASE i # 2
    <3>1. i - 1 \in DOMAIN todo /\ OfIf(todo[i - 1]) /\ todo'[i] = todo[i - 1] /\ todo'[i].stmt \in 1 .. nStmts
      BY <2>4, <1>6
    <3>2. d \in DOMAIN labelDescs /\ labelDescs'[d] = labelDescs[d]
      BY <3>1, <1>3, <1>8
    <3>3. i - 1 < j - 1
      BY <2>1, <2>2, <3>1, <3>2 DEF IInv, Ordered
    <3> QED
      BY <3>3, <1>5
  <2> QED
    BY <2>3, <2>4
<1> QED
  BY <1>3, <1>5, <1>8, <1>11, <1>12, <1>13, <1>14 DEF IInv


\* The visitIf at the head is the innermost: its descriptor is at the back, or it has none.
LEMMA EndIfKeepsIInv == ASSUME IInv, EndIf, status' = status PROVE IInv'
<1> DEFINE stmt == Head(todo).stmt
           old  == Len(labelDescs)
<1>1. /\ labelDescs' = DescPopped(stmt) /\ Replace(<<>>) /\ nStmts' = nStmts
      /\ todo # <<>> /\ Head(todo).k = "EndIf"
  <2>1. status = "compiling" /\ todo # <<>> /\ Head(todo).k = "EndIf"
    BY DEF EndIf, Doing
  <2>2. ~Stop("undefined")
    BY <2>1 DEF Stop
  <2> QED
    BY <2>1, <2>2 DEF EndIf
<1>2. OfIf(Head(todo))
  BY <1>1 DEF OfIf
<1>3. /\ IsSeq(todo') /\ DOMAIN todo' = 1 .. Len(todo) - 1
      /\ Len(todo) \in Nat \ {0} /\ DOMAIN todo = 1 .. Len(todo) /\ Head(todo) = todo[1]
      /\ \A i \in 1 .. Len(todo) - 1 : todo'[i] = todo[i + 1]
  <2> DEFINE none == <<>>
  <2>1. IsSeq(todo) /\ IsSeq(none) /\ Len(none) = 0 /\ Replace(none)
    BY <1>1 DEF IInv, IsSeq
  <2> HIDE DEF none
  <2>2. /\ IsSeq(todo') /\ DOMAIN todo' = 1 .. Len(none) + Len(todo) - 1
        /\ \A i \in Len(none) + 1 .. Len(none) + Len(todo) - 1 : todo'[i] = todo[(i - Len(none)) + 1]
        /\ Len(todo) \in Nat \ {0} /\ DOMAIN todo = 1 .. Len(todo) /\ Head(todo) = todo[1]
    BY <1>1, <2>1, Replaced
  <2> QED
    BY <2>1, <2>2
<1>4. 1 \in DOMAIN todo /\ OfIf(todo[1]) /\ todo[1].stmt = stmt
  BY <1>2, <1>3
<1>5. IsSeq(labelDescs) /\ old \in Nat /\ DOMAIN labelDescs = 1 .. old
  BY SeqFacts DEF IInv
<1>6. \A i \in DOMAIN todo' :
        i + 1 \in DOMAIN todo /\ todo'[i] = todo[i + 1] /\ i + 1 # 1 /\ i \in Nat
  BY <1>3
<1>7. ASSUME NEW j \in DOMAIN todo, j # 1
      PROVE  j - 1 \in DOMAIN todo' /\ todo'[j - 1] = todo[j]
  <2>1. j - 1 \in 1 .. Len(todo) - 1 /\ (j - 1) + 1 = j
    BY <1>3, <1>7
  <2> QED
    BY <2>1, <1>3
\* No descriptor but the last can be of this statement.
<1>8. ASSUME NEW d \in DOMAIN labelDescs, labelDescs[d].stmt = stmt PROVE d = old
  <2> SUFFICES ASSUME d # old PROVE FALSE
    OBVIOUS
  <2>1. old \in DOMAIN labelDescs /\ d < old
    BY <1>5
  <2>2. PICK j \in DOMAIN todo : OfIf(todo[j]) /\ todo[j].stmt = labelDescs[old].stmt
    BY <2>1 DEF IInv, Enclosed
  <2>3. j < 1
    BY <1>4, <1>8, <2>1, <2>2 DEF IInv, Ordered
  <2> QED
    BY <2>3, <1>3
<1> HIDE DEF stmt
<1>9. /\ IsSeq(labelDescs')
      /\ \A d \in DOMAIN labelDescs' :
           d \in DOMAIN labelDescs /\ labelDescs'[d] = labelDescs[d] /\ labelDescs[d].stmt # stmt
  <2>1. CASE labelDescs # <<>> /\ Last(labelDescs).stmt = stmt
    <3>1. labelDescs' = Front(labelDescs)
      BY <1>1, <2>1 DEF DescPopped
    <3>2. /\ IsSeq(Front(labelDescs)) /\ DOMAIN Front(labelDescs) = 1 .. Len(labelDescs) - 1
          /\ \A i \in 1 .. Len(labelDescs) - 1 : Front(labelDescs)[i] = labelDescs[i]
      BY <1>5, <2>1, FrontFacts
    <3>3. \A d \in 1 .. old - 1 : d \in DOMAIN labelDescs /\ d # old
      <4>1. \A n \in Nat : \A d \in 1 .. n - 1 : d \in 1 .. n /\ d # n
        OBVIOUS
      <4> QED
        BY <4>1, <1>5
    <3> QED
      BY <3>1, <3>2, <3>3, <1>8
  <2>2. CASE ~(labelDescs # <<>> /\ Last(labelDescs).stmt = stmt)
    <3>1. labelDescs' = labelDescs
      BY <1>1, <2>2 DEF DescPopped
    <3>2. ASSUME NEW d \in DOMAIN labelDescs PROVE labelDescs[d].stmt # stmt
      <4> SUFFICES ASSUME labelDescs[d].stmt = stmt PROVE FALSE
        OBVIOUS
      <4>1. d = old
        BY <1>8
      <4>2. labelDescs # <<>>
        BY <1>5
      <4>3. Last(labelDescs) = labelDescs[old]
        BY <4>2, <1>5, FrontFacts
      <4> QED
        BY <4>1, <4>2, <4>3, <2>2
    <3> QED
      BY <3>1, <3>2, <1>5
  <2> QED
    BY <2>1, <2>2
<1> HIDE DEF old
<1>10. Entered'
  BY <1>1, <1>6 DEF IInv, Entered
<1>11. Distinct'
  <2> SUFFICES ASSUME NEW i \in DOMAIN todo', NEW j \in DOMAIN todo', OfIf(todo'[i]), OfIf(todo'[j]),
                      i # j
               PROVE  todo'[i].stmt # todo'[j].stmt
    BY DEF Distinct
  <2>1. i + 1 # j + 1
    BY <1>6
  <2> QED
    BY <2>1, <1>6 DEF IInv, Distinct
<1>12. Enclosed'
  <2> SUFFICES ASSUME NEW d \in DOMAIN labelDescs'
               PROVE  \E i \in DOMAIN todo' : OfIf(todo'[i]) /\ todo'[i].stmt = labelDescs'[d].stmt
    BY DEF Enclosed
  <2>1. PICK j \in DOMAIN todo : OfIf(todo[j]) /\ todo[j].stmt = labelDescs[d].stmt
    BY <1>9 DEF IInv, Enclosed
  <2>2. j # 1
    BY <2>1, <1>4, <1>9
  <2> QED
    BY <2>1, <2>2, <1>7, <1>9
<1>13. Ordered'
  <2> SUFFICES ASSUME NEW c \in DOMAIN labelDescs', NEW d \in DOMAIN labelDescs',
                      NEW i \in DOMAIN todo', NEW j \in DOMAIN todo',
                      c < d, OfIf(todo'[i]), OfIf(todo'[j]),
                      todo'[i].stmt = labelDescs'[d].stmt, todo'[j].stmt = labelDescs'[c].stmt
               PROVE  i < j
    BY DEF Ordered
  <2>1. i + 1 < j + 1
    BY <1>6, <1>9 DEF IInv, Ordered
  <2> QED
    BY <2>1, <1>6
<1> QED
  BY <1>1, <1>3, <1>9, <1>10, <1>11, <1>12, <1>13 DEF IInv

\* Nothing in IInv is about what these leave alone.
LEMMA SameTreeKeepsIInv == IInv /\ UNCHANGED <<todo, labelDescs, nStmts>> => IInv'
BY DEF IInv, Entered, Distinct, Enclosed, Ordered

-----------------------------------------------------------------------------
(***************************************************************************)
(* The other visitors.                                                     *)
(***************************************************************************)
\* What expressions and statements leave to be done is nothing of an if.
LEMMA Plain ==
  /\ IsSeq(<<>>) /\ \A i \in DOMAIN <<>> : ~OfIf(<<>>[i])
  /\ \A a : ~OfIf(a) => IsSeq(<<a>>) /\ \A i \in DOMAIN <<a>> : ~OfIf(<<a>>[i])
  /\ \A a, b : ~OfIf(a) /\ ~OfIf(b) => IsSeq(<<a, b>>) /\ \A i \in DOMAIN <<a, b>> : ~OfIf(<<a, b>>[i])
  /\ \A a, b, c : ~OfIf(a) /\ ~OfIf(b) /\ ~OfIf(c) =>
       IsSeq(<<a, b, c>>) /\ \A i \in DOMAIN <<a, b, c>> : ~OfIf(<<a, b, c>>[i])
BY DEF IsSeq

LEMMA PlainItems ==
  /\ \A kind \in {"Expr", "Add", "Pop", "Return", "StmtListItem", "Stmt", "More"} :
       ~OfIf(Item(kind))
  /\ \A n : ~OfIf([k |-> "Call", args |-> n])
  /\ \A n : ~OfIf([k |-> "Store", name |-> n])
  /\ \A depth : ~OfIf(Exit(depth))
BY DEF OfIf, Item, Exit

\* visitIdentifier, visitNumber, visitBinOp and the instructions that come last.
LEMMA ExpressionsKeepIInv ==
  ASSUME IInv, VisitIdentifier \/ VisitNumber \/ VisitBinOp \/ EmitLast PROVE IInv'
<1>1. todo # <<>> /\ ~OfIf(Head(todo)) /\ UNCHANGED <<labelDescs, nStmts>>
  BY DEF VisitIdentifier, VisitNumber, VisitBinOp, EmitLast, AtExpr, Doing, OfIf, OnlyCode, OnlyTree
<1>2. Replace(<<>>) \/ Replace(<<Item("Expr"), Item("Expr"), Item("Add")>>)
  BY DEF VisitIdentifier, VisitNumber, VisitBinOp, EmitLast
<1> QED
  BY <1>1, <1>2, Plain, PlainItems, PlainKeepsIInv, UnchangedDescs

LEMMA VisitFunCallKeepsIInv == ASSUME IInv, VisitFunCall PROVE IInv'
<1>1. todo # <<>> /\ ~OfIf(Head(todo)) /\ UNCHANGED <<labelDescs, nStmts>>
  BY DEF VisitFunCall, AtExpr, Doing, OfIf, OnlyTree
<1>2. PICK n \in 1 .. MaxArgs :
        Replace([i \in 1 .. n + 1 |-> Item("Expr")] \o <<[k |-> "Call", args |-> n]>>)
  BY DEF VisitFunCall
<1> DEFINE exprs == [i \in 1 .. n + 1 |-> Item("Expr")]
           call  == [k |-> "Call", args |-> n]
           items == exprs \o <<call>>
<1>3. n \in Nat
  BY <1>2, BoundsAssumption
<1>4. exprs \in Seq({Item("Expr"), call}) /\ <<call>> \in Seq({Item("Expr"), call})
  BY <1>3
<1>5. items \in Seq({Item("Expr"), call})
  BY <1>4
<1> HIDE DEF items
<1>6. IsSeq(items) /\ \A i \in DOMAIN items : items[i] \in {Item("Expr"), call}
  BY <1>5, SeqIsSeq
<1>7. ~OfIf(Item("Expr")) /\ ~OfIf(call)
  BY PlainItems
<1>8. Replace(items)
  BY <1>2 DEF items
<1> QED
  BY <1>1, <1>6, <1>7, <1>8, PlainKeepsIInv, UnchangedDescs

LEMMA VisitFunExprKeepsIInv == ASSUME IInv, VisitFunExpr PROVE IInv'
<1>1. todo # <<>> /\ ~OfIf(Head(todo)) /\ UNCHANGED <<labelDescs, nStmts>>
  BY DEF VisitFunExpr, AtExpr, Doing, OfIf
<1>2. PICK body \in {<<Item("Expr"), Item("Return")>>, <<Item("StmtListItem"), Item("More")>>} :
        Replace(body \o <<Exit(Len(gens) + 1)>>)
  BY DEF VisitFunExpr
<1> DEFINE kinds == {"Expr", "Return", "StmtListItem", "More"}
           plain == {Item(kind) : kind \in kinds} \union {Exit(Len(gens) + 1)}
           items == body \o <<Exit(Len(gens) + 1)>>
<1>3. \A item \in plain : ~OfIf(item)
  BY PlainItems
<1>4. body \in Seq(plain) /\ <<Exit(Len(gens) + 1)>> \in Seq(plain)
  <2>1. /\ Item("Expr") \in plain /\ Item("Return") \in plain /\ Item("StmtListItem") \in plain
        /\ Item("More") \in plain /\ Exit(Len(gens) + 1) \in plain
    OBVIOUS
  <2> HIDE DEF plain
  <2>2. \A a, b \in plain : <<a, b>> \in Seq(plain) /\ <<b>> \in Seq(plain)
    OBVIOUS
  <2>3. CASE body = <<Item("Expr"), Item("Return")>>
    BY <2>1, <2>2, <2>3
  <2>4. CASE body = <<Item("StmtListItem"), Item("More")>>
    BY <2>1, <2>2, <2>4
  <2> QED
    BY <1>2, <2>3, <2>4
<1> HIDE DEF plain
<1>5. items \in Seq(plain)
  BY <1>4
<1>6. Replace(items)
  BY <1>2
<1> HIDE DEF items
<1>7. IsSeq(items) /\ \A i \in DOMAIN items : items[i] \in plain
  BY <1>5, SeqIsSeq
<1> QED
  BY <1>1, <1>3, <1>6, <1>7, PlainKeepsIInv, UnchangedDescs

LEMMA StatementsKeepIInv ==
  ASSUME IInv,
         MoreStmts \/ VisitExprStmt \/ VisitReturn \/ VisitContinue \/ VisitDecl \/ StoreDecl \/ VisitLabel
  PROVE  IInv'
<1>1. todo # <<>> /\ ~OfIf(Head(todo)) /\ UNCHANGED <<labelDescs, nStmts>>
  BY DEF MoreStmts, VisitExprStmt, VisitReturn, VisitContinue, VisitDecl, StoreDecl, VisitLabel,
         AtStmt, Doing, OfIf, OnlyCode, OnlyTree
<1>2. \/ Replace(<<>>) \/ Replace(<<Item("StmtListItem"), Item("More")>>)
      \/ Replace(<<Item("Expr"), Item("Pop")>>) \/ Replace(<<Item("Expr"), Item("Return")>>)
      \/ \E n \in Names : Replace(<<Item("Expr"), [k |-> "Store", name |-> n]>>)
      \/ Replace(<<Item("Stmt")>>)
  BY DEF MoreStmts, VisitExprStmt, VisitReturn, VisitContinue, VisitDecl, StoreDecl, VisitLabel
<1> QED
  BY <1>1, <1>2, Plain, PlainItems, PlainKeepsIInv, UnchangedDescs

\* A break adds itself to a descriptor, whose statement stays.
LEMMA VisitBreakKeepsIInv == ASSUME IInv, VisitBreak PROVE IInv'
<1>1. CASE UNCHANGED <<todo, labelDescs, nStmts>>
  BY <1>1, SameTreeKeepsIInv
<1>2. CASE /\ \E d, at : labelDescs' = [labelDescs EXCEPT ![d].breaks = Append(@, at)]
           /\ Replace(<<>>) /\ nStmts' = nStmts
  <2>1. PICK d, at : labelDescs' = [labelDescs EXCEPT ![d].breaks = Append(@, at)]
    BY <1>2
  <2>2. IsSeq(labelDescs) /\ Len(labelDescs) \in Nat /\ DOMAIN labelDescs = 1 .. Len(labelDescs)
    BY SeqFacts DEF IInv
  <2>3. DOMAIN labelDescs' = DOMAIN labelDescs
    BY <2>1
  <2>4. IsSeq(labelDescs')
    <3>1. labelDescs' = [i \in 1 .. Len(labelDescs) |-> labelDescs'[i]]
      BY <2>1, <2>2
    <3>2. Len(labelDescs') = Len(labelDescs)
      BY <3>1, <2>2
    <3> QED
      BY <3>1, <3>2, <2>2 DEF IsSeq
  <2>5. ASSUME NEW i \in DOMAIN labelDescs
        PROVE  IsDesc(labelDescs'[i]) /\ labelDescs'[i].stmt = labelDescs[i].stmt
    <3>1. IsDesc(labelDescs[i])
      BY DEF IInv
    <3>2. labelDescs'[i] = labelDescs[i] \/ \E b : labelDescs'[i] = [labelDescs[i] EXCEPT !.breaks = b]
      BY <2>1
    <3> QED
      BY <3>1, <3>2 DEF IsDesc
  <2>6. SameDescs
    BY <2>3, <2>4, <2>5 DEF SameDescs
  <2>7. todo # <<>> /\ ~OfIf(Head(todo))
    BY DEF VisitBreak, AtStmt, Doing, OfIf
  <2> QED
    BY <1>2, <2>6, <2>7, Plain, PlainKeepsIInv
<1> QED
  BY <1>1, <1>2 DEF VisitBreak, Stop

\* After the condition and after the if-case, what is left of the visitIf is in its place.
LEMMA IfCasesKeepIInv == ASSUME IInv, VisitIfCode \/ VisitElseCode PROVE IInv'
<1>1. todo # <<>> /\ OfIf(Head(todo)) /\ UNCHANGED <<labelDescs, nStmts>>
  BY DEF VisitIfCode, VisitElseCode, Doing, OfIf, OnlyCode
<1>2. PICK kind \in {"ElseCode", "EndIf"} :
        Replace(<<Item("Stmt"), [k |-> kind, stmt |-> Head(todo).stmt, past |-> pos + 3,
                                  depth |-> Head(todo).depth]>>)
  BY DEF VisitIfCode, VisitElseCode
<1> DEFINE items == <<Item("Stmt"), [k |-> kind, stmt |-> Head(todo).stmt, past |-> pos + 3,
                                  depth |-> Head(todo).depth]>>
<1>3. /\ IsSeq(items) /\ DOMAIN items = 1 .. 2 /\ ~OfIf(items[1]) /\ OfIf(items[2])
      /\ items[2].stmt = Head(todo).stmt
  BY DEF IsSeq, Item, OfIf
<1>4. Replace(items)
  BY <1>2
<1> HIDE DEF items
<1>5. Resumes(items, 2)
  BY <1>1, <1>3 DEF Resumes
<1> QED
  BY <1>1, <1>3, <1>4, <1>5, ResumesKeepsIInv, UnchangedDescs

LEMMA ExitFunctionKeepsIInv == ASSUME IInv, ExitFunction PROVE IInv'
<1>1. todo # <<>> /\ ~OfIf(Head(todo))
  BY DEF ExitFunction, Doing, OfIf
<1>2. \/ UNCHANGED <<todo, labelDescs, nStmts>>
      \/ Replace(<<>>) /\ UNCHANGED <<labelDescs, nStmts>>
  BY DEF ExitFunction, Stop
<1> QED
  BY <1>1, <1>2, Plain, PlainKeepsIInv, UnchangedDescs, SameTreeKeepsIInv

-----------------------------------------------------------------------------
LEMMA InitIInv == Init => IInv
<1> SUFFICES ASSUME Init PROVE IInv
  OBVIOUS
<1>1. IsSeq(todo) /\ \A i \in DOMAIN todo : ~OfIf(todo[i])
  BY Plain, PlainItems DEF Init
<1>2. IsSeq(labelDescs) /\ DOMAIN labelDescs = {} /\ nStmts = 0
  BY DEF Init, IsSeq
<1> QED
  BY <1>1, <1>2 DEF IInv, Entered, Distinct, Enclosed, Ordered

LEMMA NextKeepsIInv == IInv /\ [Next]_vars => IInv'
<1> SUFFICES ASSUME IInv, [Next]_vars PROVE IInv'
  OBVIOUS
<1>1. CASE UNCHANGED vars
  BY <1>1, SameTreeKeepsIInv DEF vars
<1>2. CASE EndIf
  <2>1. CASE Stop("undefined")
    BY <2>1, SameTreeKeepsIInv DEF Stop
  <2>2. CASE ~Stop("undefined")
    <3>1. status' = status
      BY <1>2, <2>2 DEF EndIf
    <3> QED
      BY <1>2, <3>1, EndIfKeepsIInv
  <2> QED
    BY <2>1, <2>2
<1> QED
  BY <1>1, <1>2, ExpressionsKeepIInv, VisitFunCallKeepsIInv, VisitFunExprKeepsIInv, StatementsKeepIInv,
     VisitBreakKeepsIInv, VisitIfKeepsIInv, IfCasesKeepIInv, ExitFunctionKeepsIInv DEF Next

\* enterStmt and exitStmt push and pop m_labelDescs as visitIf is entered and left: the
\* descriptors are in the order of the ifs being visited, each of which is visited once.
THEOREM Invariance == Spec => []IInv
BY InitIInv, NextKeepsIInv, PTL DEF Spec

\* Whatever the tree, the descriptors visitBreak searches are of ifs that enclose the
\* break, an inner one's after those around it.
THEOREM LabelsAlwaysEnclose == Spec => []LabelsEnclose
<1>1. ASSUME IInv PROVE LabelsEnclose
  <2>1. IsSeq(labelDescs) /\ DOMAIN labelDescs = 1 .. Len(labelDescs) /\ Len(labelDescs) \in Nat
    BY <1>1, SeqFacts DEF IInv
  <2>2. \A d \in 2 .. Len(labelDescs) : d \in DOMAIN labelDescs /\ d - 1 \in DOMAIN labelDescs /\ d - 1 < d
    BY <2>1
  <2>3. \A d \in DOMAIN labelDescs :
          {i \in DOMAIN todo : OfIf(todo[i]) /\ todo[i].stmt = labelDescs[d].stmt} # {}
    BY <1>1 DEF IInv, Enclosed
  <2>4. ASSUME NEW d \in 2 .. Len(labelDescs),
               NEW i \in DOMAIN todo, OfIf(todo[i]), todo[i].stmt = labelDescs[d].stmt,
               NEW j \in DOMAIN todo, OfIf(todo[j]), todo[j].stmt = labelDescs[d - 1].stmt
        PROVE  i < j
    BY <1>1, <2>2, <2>4 DEF IInv, Ordered
  <2> QED
    BY <2>3, <2>4 DEF LabelsEnclose
<1> QED
  BY <1>1, Invariance, PTL

-----------------------------------------------------------------------------
(***************************************************************************)
(* That breaks land on the end of the statement they leave, for trees of   *)
(* every size, unless one has left its function.                           *)
(*                                                                         *)
(* A break's jump is patched long after it was emitted, when the statement *)
(* ends, and stays as it is while the function grows.  Three things make   *)
(* it right.  Until the statement ends, the break is in its descriptor,    *)
(* which visitIf finds at the back, as above.  It is patched in            *)
(* the encoder it is in: the work that is left for a function comes before *)
(* that for the function around it.  And nothing else is written into its  *)
(* cells: jumps are patched where they are, and no two are in one place.   *)
(***************************************************************************)

(***************************************************************************)
(* The functions being compiled, and the work that is left for each.       *)
(***************************************************************************)
OfFunction(item) == item.k = "ExitFunction"
HasDepth(item)   == OfIf(item) \/ OfFunction(item)
HasPast(item)    == item.k \in {"ElseCode", "EndIf"}

DepthsExist == \A i \in DOMAIN todo : HasDepth(todo[i]) => todo[i].depth \in 1 .. Len(gens)

\* What is left for a function comes before its end, and that before what is left for
\* those around it.
DepthsFall ==
  \A i, j \in DOMAIN todo :
    i < j /\ HasDepth(todo[i]) /\ HasDepth(todo[j]) =>
      /\ todo[j].depth <= todo[i].depth
      /\ OfFunction(todo[i]) => todo[j].depth < todo[i].depth

FunctionsEnd ==
  \A g \in 1 .. Len(gens) : \E i \in DOMAIN todo : OfFunction(todo[i]) /\ todo[i].depth = g

Nested ==
  /\ IsSeq(gens) /\ DepthsExist /\ DepthsFall /\ FunctionsEnd
  /\ status = "compiling" => Len(gens) > 0

-----------------------------------------------------------------------------
(***************************************************************************)
(* The jumps of an encoder.                                                *)
(***************************************************************************)
Apart(a, b) == a + 2 <= b \/ b + 2 <= a

IsEncoder(gen) ==
  gen = [code |-> gen.code, literals |-> gen.literals, decls |-> gen.decls,
         breaks |-> gen.breaks, ends |-> gen.ends]

\* Breaks are whole jumps of statements that have been entered, each in a place of its own.
BreaksPlaced(gen) ==
  /\ \A b \in gen.breaks : b.at \in 3 .. Len(gen.code) /\ b.stmt \in 1 .. nStmts
  /\ \A b, c \in gen.breaks : b = c \/ Apart(b.at, c.at)

\* A statement has ended once, and is not being visited.
EndsPlaced(gen) ==
  /\ \A e \in gen.ends :
       /\ e.at \in Nat /\ e.stmt \in 1 .. nStmts
       /\ \A i \in DOMAIN todo : OfIf(todo[i]) => todo[i].stmt # e.stmt
  /\ \A e, f \in gen.ends : e.stmt = f.stmt => e = f

Encoders ==
  \A g \in 1 .. Len(gens) :
    IsEncoder(gens[g]) /\ IsSeq(gens[g].code) /\ BreaksPlaced(gens[g]) /\ EndsPlaced(gens[g])

\* The jumps that will be patched at the end of a case are no breaks.
PastsPlaced ==
  \A i \in DOMAIN todo :
    HasPast(todo[i]) =>
      LET gen == gens[todo[i].depth]
      IN  /\ todo[i].past \in 3 .. Len(gen.code)
          /\ \A b \in gen.breaks : Apart(b.at, todo[i].past)

\* A descriptor was made for the encoder its statement is visited for.
DescsPlaced ==
  \A d \in DOMAIN labelDescs :
    /\ IsSeq(labelDescs[d].breaks)
    /\ \A i \in DOMAIN todo :
         OfIf(todo[i]) /\ todo[i].stmt = labelDescs[d].stmt => todo[i].depth = labelDescs[d].depth

\* Its breaks are breaks of that encoder and of its statement.
DescsOwn ==
  \A d \in DOMAIN labelDescs : \A k \in DOMAIN labelDescs[d].breaks :
    \E b \in gens[labelDescs[d].depth].breaks :
      b.at = labelDescs[d].breaks[k] /\ b.stmt = labelDescs[d].stmt

\* A break's statement has ended, or the break is in its descriptor.
Ended(gen, b)  == \E e \in gen.ends : e.stmt = b.stmt
Pending(g, b) ==
  \E d \in DOMAIN labelDescs :
    /\ labelDescs[d].stmt = b.stmt /\ labelDescs[d].depth = g
    /\ \E k \in DOMAIN labelDescs[d].breaks : labelDescs[d].breaks[k] = b.at

BreaksKept == \A g \in 1 .. Len(gens) : \A b \in gens[g].breaks : Ended(gens[g], b) \/ Pending(g, b)

Lands(gen) ==
  OffsetsFit(gen.code) =>
    \A b \in gen.breaks, e \in gen.ends :
      b.stmt = e.stmt => b.at + Int16(gen.code[b.at - 1], gen.code[b.at]) = e.at

AllLand == \A g \in 1 .. Len(gens) : Lands(gens[g])

BInv ==
  /\ Nested /\ Encoders /\ PastsPlaced /\ DescsPlaced
  /\ ~crossed => DescsOwn /\ BreaksKept /\ AllLand

-----------------------------------------------------------------------------
(***************************************************************************)
(* Offsets.                                                                *)
(***************************************************************************)
\* An offset that fits is read back from its two bytes.
LEMMA OffsetReadsBack ==
  ASSUME NEW x \in Nat, 2 * x < ByteSize * ByteSize
  PROVE  Int16(HighByte(x), LowByte(x)) = x
<1> DEFINE B == ByteSize
<1>1. B \in Nat /\ B > 1
  BY ByteSizeAssumption
<1>2. PICK q \in Int, r \in 0 .. B - 1 : x = B * q + r /\ x \div B = q /\ x % B = r
  BY <1>1
<1>3. q >= 0
  BY <1>1, <1>2
<1>4. q < B
  <2> SUFFICES ASSUME q >= B PROVE FALSE
    BY <1>1, <1>2
  <2>1. B * q >= B * B
    BY <1>1, <1>2
  <2>2. B * q \in Int /\ B * B \in Int
    BY <1>1, <1>2
  <2> QED
    BY <1>1, <1>2, <2>1, <2>2
<1>5. q % B = q
  BY <1>1, <1>3, <1>4
<1>6. q * B + r = x
  BY <1>1, <1>2
<1> QED
  BY <1>1, <1>2, <1>5, <1>6 DEF Int16, HighByte, LowByte

-----------------------------------------------------------------------------
(***************************************************************************)
(* Items.                                                                  *)
(***************************************************************************)
\* Only the last of the items that take the place of the head is of a function or an if.
OneDeep(items) == \A i \in DOMAIN items : HasDepth(items[i]) => i = Len(items)

LEMMA DeepItems ==
  ASSUME NEW items, IsSeq(items), IsSeq(todo), todo # <<>>, Replace(items), OneDeep(items)
  PROVE  LET n == Len(items)
         IN  /\ n \in Nat /\ DOMAIN items = 1 .. n /\ 1 \in DOMAIN todo /\ Head(todo) = todo[1]
             /\ \A i \in DOMAIN todo' : HasDepth(todo'[i]) =>
                  \/ n # 0 /\ i = n /\ todo'[i] = items[n]
                  \/ i > n /\ (i - n) + 1 \in DOMAIN todo /\ (i - n) + 1 # 1 /\ todo'[i] = todo[(i - n) + 1]
             /\ \A j \in DOMAIN todo : j # 1 =>
                  (j + n) - 1 \in DOMAIN todo' /\ (j + n) - 1 > n /\ todo'[(j + n) - 1] = todo[j]
             /\ n # 0 => n \in DOMAIN todo' /\ todo'[n] = items[n]
             /\ \A i \in DOMAIN todo : i \in Nat
             /\ \A i \in DOMAIN todo' : i \in Nat
<1> DEFINE n == Len(items)
<1>1. /\ DOMAIN todo' = 1 .. n + Len(todo) - 1
      /\ \A i \in DOMAIN items : todo'[i] = items[i]
      /\ \A i \in n + 1 .. n + Len(todo) - 1 : todo'[i] = todo[(i - n) + 1]
      /\ n \in Nat /\ DOMAIN items = 1 .. n
      /\ Len(todo) \in Nat \ {0} /\ DOMAIN todo = 1 .. Len(todo) /\ Head(todo) = todo[1]
  BY Replaced
<1> HIDE DEF n
<1>2. ASSUME NEW i \in DOMAIN todo', HasDepth(todo'[i])
      PROVE  \/ n # 0 /\ i = n /\ todo'[i] = items[n]
             \/ i > n /\ (i - n) + 1 \in DOMAIN todo /\ (i - n) + 1 # 1 /\ todo'[i] = todo[(i - n) + 1]
  <2>1. CASE i \in 1 .. n
    <3>1. i \in DOMAIN items /\ todo'[i] = items[i]
      BY <2>1, <1>1
    <3>2. i = n
      BY <3>1, <1>2 DEF OneDeep, n
    <3> QED
      BY <3>1, <3>2, <2>1, <1>1
  <2>2. CASE ~(i \in 1 .. n)
    <3>1. i \in n + 1 .. n + Len(todo) - 1
      BY <2>2, <1>1
    <3>2. (i - n) + 1 \in 1 .. Len(todo) /\ (i - n) + 1 # 1 /\ i > n
      BY <3>1, <1>1
    <3> QED
      BY <3>1, <3>2, <1>1
  <2> QED
    BY <2>1, <2>2
<1>3. ASSUME NEW j \in DOMAIN todo, j # 1
      PROVE  (j + n) - 1 \in DOMAIN todo' /\ (j + n) - 1 > n /\ todo'[(j + n) - 1] = todo[j]
  <2>1. \A l \in 1 .. Len(todo) : l # 1 =>
          /\ (l + n) - 1 \in n + 1 .. n + Len(todo) - 1 /\ (l + n) - 1 \in 1 .. n + Len(todo) - 1
          /\ (((l + n) - 1) - n) + 1 = l /\ (l + n) - 1 > n
    BY <1>1
  <2>2. j \in 1 .. Len(todo)
    BY <1>1
  <2> QED
    BY <2>1, <2>2, <1>1, <1>3
<1>4. n # 0 => n \in DOMAIN todo' /\ todo'[n] = items[n]
  BY <1>1
<1>5. (\A i \in DOMAIN todo : i \in Nat) /\ (\A i \in DOMAIN todo' : i \in Nat) /\ 1 \in DOMAIN todo
  BY <1>1
<1> QED
  BY <1>1, <1>2, <1>3, <1>4, <1>5 DEF n

\* The work at hand is for the encoder on top.
LEMMA HeadDepth ==
  ASSUME Nested, IsSeq(todo), todo # <<>>, HasDepth(Head(todo))
  PROVE  Head(todo).depth = Len(gens) /\ Len(gens) \in Nat \ {0}
<1>1. 1 \in DOMAIN todo /\ Head(todo) = todo[1] /\ \A i \in DOMAIN todo : i = 1 \/ 1 < i
  <2> DEFINE S == {todo[i] : i \in DOMAIN todo}
  <2>1. todo \in Seq(S)
    BY SeqFacts
  <2> HIDE DEF S
  <2>2. Len(todo) \in Nat \ {0} /\ DOMAIN todo = 1 .. Len(todo) /\ Head(todo) = todo[1]
    BY <2>1
  <2> QED
    BY <2>2
<1>2. todo[1].depth \in 1 .. Len(gens) /\ Len(gens) \in Nat
  BY <1>1 DEF Nested, DepthsExist, IsSeq
<1>3. PICK i \in DOMAIN todo : OfFunction(todo[i]) /\ todo[i].depth = Len(gens)
  BY <1>2 DEF Nested, FunctionsEnd
<1>4. todo[i].depth <= todo[1].depth
  BY <1>1, <1>2, <1>3 DEF Nested, DepthsFall, HasDepth
<1> QED
  BY <1>1, <1>2, <1>3, <1>4

\* A step that neither enters nor leaves a function.
LEMMA NestedStays ==
  ASSUME Nested, IsSeq(todo), todo # <<>>, NEW items, IsSeq(items), Replace(items), OneDeep(items),
         ~OfFunction(Head(todo)),
         \A i \in DOMAIN items : HasDepth(items[i]) => ~OfFunction(items[i]) /\ items[i].depth = Len(gens),
         IsSeq(gens'), Len(gens') = Len(gens), status' = status, Len(gens) > 0
  PROVE  Nested'
<1> DEFINE n == Len(items)
           Old(i) == (i - n) + 1
           New(i) == n # 0 /\ i = n /\ ~OfFunction(todo'[i]) /\ todo'[i].depth = Len(gens)
           Kept(i) == i > n /\ Old(i) \in DOMAIN todo /\ todo'[i] = todo[Old(i)]
<1>1. /\ n \in Nat /\ Len(gens) \in Nat
      /\ \A i \in DOMAIN todo' : i \in Nat /\ (HasDepth(todo'[i]) => New(i) \/ Kept(i))
  <2>1. n \in DOMAIN items \/ n = 0
    BY DeepItems
  <2> QED
    BY <2>1, DeepItems DEF Nested, IsSeq
<1>2. \A j \in DOMAIN todo : OfFunction(todo[j]) =>
        \E i \in DOMAIN todo' : todo'[i] = todo[j]
  BY DeepItems
<1> HIDE DEF n, New, Kept
<1>3. DepthsExist'
  <2>1. \A i \in DOMAIN todo' : HasDepth(todo'[i]) => todo'[i].depth \in 1 .. Len(gens)
    BY <1>1 DEF Nested, DepthsExist, New, Kept
  <2> QED
    BY <2>1 DEF DepthsExist
<1>4. DepthsFall'
  <2> SUFFICES ASSUME NEW i \in DOMAIN todo', NEW j \in DOMAIN todo', i < j,
                      HasDepth(todo'[i]), HasDepth(todo'[j])
               PROVE  /\ todo'[j].depth <= todo'[i].depth
                      /\ OfFunction(todo'[i]) => todo'[j].depth < todo'[i].depth
    BY DEF DepthsFall
  <2>1. i \in Nat /\ j \in Nat
    BY <1>1
  <2>2. CASE New(i)
    <3>1. Kept(j)
      BY <1>1, <2>1, <2>2 DEF New
    <3>2. todo'[j].depth \in 1 .. Len(gens)
      BY <3>1 DEF Nested, DepthsExist, Kept
    <3> QED
      BY <1>1, <2>2, <3>2 DEF New
  <2>3. CASE Kept(i)
    <3>1. Kept(j)
      BY <1>1, <2>1, <2>3 DEF New, Kept
    <3>2. Old(i) < Old(j)
      BY <1>1, <2>1
    <3> QED
      BY <2>3, <3>1, <3>2 DEF Nested, DepthsFall, Kept
  <2> QED
    BY <1>1, <2>2, <2>3
<1>5. FunctionsEnd'
  <2>1. \A g \in 1 .. Len(gens) : \E i \in DOMAIN todo' : OfFunction(todo'[i]) /\ todo'[i].depth = g
    BY <1>2 DEF Nested, FunctionsEnd
  <2> QED
    BY <2>1 DEF FunctionsEnd
<1> QED
  BY <1>3, <1>4, <1>5 DEF Nested

\* A step that enters a function.
LEMMA NestedEnters ==
  ASSUME Nested, IsSeq(todo), todo # <<>>, NEW items, IsSeq(items), Replace(items), OneDeep(items),
         ~HasDepth(Head(todo)), Len(items) # 0,
         OfFunction(items[Len(items)]), items[Len(items)].depth = Len(gens) + 1,
         IsSeq(gens'), Len(gens') = Len(gens) + 1
  PROVE  Nested'
<1> DEFINE n == Len(items)
           Old(i) == (i - n) + 1
           New(i) == i = n /\ OfFunction(todo'[i]) /\ todo'[i].depth = Len(gens) + 1
           Kept(i) == i > n /\ Old(i) \in DOMAIN todo /\ todo'[i] = todo[Old(i)]
<1>1. /\ n \in Nat /\ Len(gens) \in Nat
      /\ \A i \in DOMAIN todo' : i \in Nat /\ (HasDepth(todo'[i]) => New(i) \/ Kept(i))
  BY DeepItems DEF Nested, IsSeq
<1>2. \A j \in DOMAIN todo : OfFunction(todo[j]) =>
        \E i \in DOMAIN todo' : todo'[i] = todo[j]
  BY DeepItems DEF HasDepth
<1>3. n \in DOMAIN todo' /\ New(n)
  BY DeepItems
<1> HIDE DEF n, New, Kept
<1>4. DepthsExist'
  <2>1. \A i \in DOMAIN todo' : HasDepth(todo'[i]) => todo'[i].depth \in 1 .. Len(gens) + 1
    BY <1>1 DEF Nested, DepthsExist, New, Kept
  <2> QED
    BY <2>1 DEF DepthsExist
<1>5. DepthsFall'
  <2> SUFFICES ASSUME NEW i \in DOMAIN todo', NEW j \in DOMAIN todo', i < j,
                      HasDepth(todo'[i]), HasDepth(todo'[j])
               PROVE  /\ todo'[j].depth <= todo'[i].depth
                      /\ OfFunction(todo'[i]) => todo'[j].depth < todo'[i].depth
    BY DEF DepthsFall
  <2>1. i \in Nat /\ j \in Nat
    BY <1>1
  <2>2. CASE New(i)
    <3>1. Kept(j)
      BY <1>1, <2>1, <2>2 DEF New
    <3>2. todo'[j].depth \in 1 .. Len(gens)
      BY <3>1 DEF Nested, DepthsExist, Kept
    <3> QED
      BY <1>1, <2>2, <3>2 DEF New
  <2>3. CASE Kept(i)
    <3>1. Kept(j)
      BY <1>1, <2>1, <2>3 DEF New, Kept
    <3>2. Old(i) < Old(j)
      BY <1>1, <2>1
    <3> QED
      BY <2>3, <3>1, <3>2 DEF Nested, DepthsFall, Kept
  <2> QED
    BY <1>1, <2>2, <2>3
<1>6. FunctionsEnd'
  <2>1. \A g \in 1 .. Len(gens) : \E i \in DOMAIN todo' : OfFunction(todo'[i]) /\ todo'[i].depth = g
    BY <1>2 DEF Nested, FunctionsEnd
  <2>2. \A g \in 1 .. Len(gens) + 1 : g \in 1 .. Len(gens) \/ g = Len(gens) + 1
    BY <1>1
  <2>3. \A g \in 1 .. Len(gens) + 1 : \E i \in DOMAIN todo' : OfFunction(todo'[i]) /\ todo'[i].depth = g
    BY <1>3, <2>1, <2>2 DEF New
  <2> QED
    BY <2>3 DEF FunctionsEnd
<1> QED
  BY <1>1, <1>4, <1>5, <1>6 DEF Nested

\* The rest of todo, when its head is done with.
LEMMA DoneItems ==
  ASSUME IsSeq(todo), todo # <<>>, Replace(<<>>)
  PROVE  /\ 1 \in DOMAIN todo /\ Head(todo) = todo[1]
         /\ \A i \in DOMAIN todo' :
              i \in Nat /\ i >= 1 /\ i + 1 \in DOMAIN todo /\ todo'[i] = todo[i + 1]
         /\ \A j \in DOMAIN todo :
              j # 1 => j \in Nat /\ j - 1 \in DOMAIN todo' /\ todo'[j - 1] = todo[j]
<1> DEFINE none == <<>>
<1>1. IsSeq(none) /\ Len(none) = 0 /\ Replace(none)
  BY DEF IsSeq
<1> HIDE DEF none
<1>2. /\ DOMAIN todo' = 1 .. 0 + Len(todo) - 1
      /\ \A i \in 0 + 1 .. 0 + Len(todo) - 1 : todo'[i] = todo[(i - 0) + 1]
      /\ Len(todo) \in Nat \ {0} /\ DOMAIN todo = 1 .. Len(todo) /\ Head(todo) = todo[1]
  BY <1>1, Replaced
<1> QED
  BY <1>2

\* A step that leaves a function.
LEMMA NestedLeaves ==
  ASSUME Nested, IsSeq(todo), todo # <<>>, Replace(<<>>), OfFunction(Head(todo)),
         IsSeq(gens'), Len(gens') = Len(gens) - 1, status' = "compiling" => Len(gens') > 0
  PROVE  Nested'
<1>1. /\ 1 \in DOMAIN todo /\ Head(todo) = todo[1]
      /\ \A i \in DOMAIN todo' :
           i \in Nat /\ i >= 1 /\ i + 1 \in DOMAIN todo /\ todo'[i] = todo[i + 1]
      /\ \A j \in DOMAIN todo :
           j # 1 => j \in Nat /\ j - 1 \in DOMAIN todo' /\ todo'[j - 1] = todo[j]
  BY DoneItems
<1>2. todo[1].depth = Len(gens) /\ Len(gens) \in Nat \ {0}
  BY <1>1, HeadDepth DEF HasDepth
<1>3. DepthsExist'
  <2> SUFFICES ASSUME NEW i \in DOMAIN todo', HasDepth(todo'[i])
               PROVE  todo'[i].depth \in 1 .. Len(gens) - 1
    BY DEF DepthsExist
  <2>1. todo[i + 1].depth \in 1 .. Len(gens)
    BY <1>1 DEF Nested, DepthsExist
  <2>2. 1 < i + 1 /\ HasDepth(todo[1])
    BY <1>1 DEF HasDepth
  <2>3. todo[i + 1].depth < todo[1].depth
    BY <1>1, <2>2 DEF Nested, DepthsFall
  <2> QED
    BY <1>1, <1>2, <2>1, <2>3
<1>4. DepthsFall'
  <2> SUFFICES ASSUME NEW i \in DOMAIN todo', NEW j \in DOMAIN todo', i < j,
                      HasDepth(todo'[i]), HasDepth(todo'[j])
               PROVE  /\ todo'[j].depth <= todo'[i].depth
                      /\ OfFunction(todo'[i]) => todo'[j].depth < todo'[i].depth
    BY DEF DepthsFall
  <2>1. i + 1 < j + 1
    BY <1>1
  <2> QED
    BY <1>1, <2>1 DEF Nested, DepthsFall
<1>5. FunctionsEnd'
  <2> SUFFICES ASSUME NEW g \in 1 .. Len(gens) - 1
               PROVE  \E i \in DOMAIN todo' : OfFunction(todo'[i]) /\ todo'[i].depth = g
    BY DEF FunctionsEnd
  <2>1. g \in 1 .. Len(gens) /\ g # Len(gens)
    BY <1>2
  <2>2. PICK j \in DOMAIN todo : OfFunction(todo[j]) /\ todo[j].depth = g
    BY <2>1 DEF Nested, FunctionsEnd
  <2>3. j # 1
    BY <1>2, <2>1, <2>2
  <2> QED
    BY <1>1, <2>2, <2>3
<1> QED
  BY <1>3, <1>4, <1>5 DEF Nested

-----------------------------------------------------------------------------
(***************************************************************************)
(* Steps that add to the code: all but breaks, the ends of ifs and of      *)
(* functions, and entering a function.                                     *)
(***************************************************************************)
Extends(old, new) ==
  /\ IsEncoder(new) /\ IsSeq(new.code) /\ Len(old.code) <= Len(new.code)
  /\ new.breaks = old.breaks /\ new.ends = old.ends
  /\ \A b \in old.breaks : new.code[b.at] = old.code[b.at] /\ new.code[b.at - 1] = old.code[b.at - 1]

LEMMA LandsStill ==
  ASSUME NEW old, NEW new, Lands(old), Extends(old, new), IsSeq(old.code)
  PROVE  Lands(new)
<1>1. Len(old.code) \in Nat /\ Len(new.code) \in Nat /\ ByteSize * ByteSize \in Nat
  BY ByteSizeAssumption DEF Extends, IsSeq
<1>2. OffsetsFit(new.code) => OffsetsFit(old.code)
  BY <1>1 DEF OffsetsFit, Extends
<1> QED
  BY <1>2 DEF Lands, Extends

\* The items that take the place of the head are of no function; one may be what is
\* left of an if, the one at the head or a new one.
Continues(items) ==
  \A i \in DOMAIN items : HasDepth(items[i]) =>
    /\ ~OfFunction(items[i]) /\ items[i].depth = Len(gens)
    /\ HasPast(items[i]) =>
         /\ items[i].past \in 3 .. Len(gens'[Len(gens)].code)
         /\ \A b \in gens[Len(gens)].breaks : Apart(b.at, items[i].past)
    /\ \/ OfIf(Head(todo)) /\ items[i].stmt = Head(todo).stmt
       \/ items[i].stmt = nStmts + 1 /\ nStmts' = nStmts + 1

\* There may be one descriptor more, of a new if.
DescsContinue ==
  \/ labelDescs' = labelDescs
  \/ \E desc : /\ labelDescs' = Append(labelDescs, desc) /\ nStmts' = nStmts + 1
               /\ desc.stmt = nStmts + 1 /\ desc.depth = Len(gens) /\ desc.breaks = <<>>

LEMMA DescsAfter ==
  ASSUME IInv, DescsContinue
  PROVE  /\ \A d \in DOMAIN labelDescs : d \in DOMAIN labelDescs' /\ labelDescs'[d] = labelDescs[d]
         /\ \A d \in DOMAIN labelDescs' :
              \/ d \in DOMAIN labelDescs /\ labelDescs'[d] = labelDescs[d]
              \/ /\ nStmts' = nStmts + 1 /\ labelDescs'[d].stmt = nStmts + 1
                 /\ labelDescs'[d].depth = Len(gens) /\ labelDescs'[d].breaks = <<>>
<1>1. CASE labelDescs' = labelDescs
  BY <1>1
<1>2. ASSUME NEW desc,
             labelDescs' = Append(labelDescs, desc), nStmts' = nStmts + 1,
             desc.stmt = nStmts + 1, desc.depth = Len(gens), desc.breaks = <<>>
      PROVE  /\ \A d \in DOMAIN labelDescs : d \in DOMAIN labelDescs' /\ labelDescs'[d] = labelDescs[d]
             /\ \A d \in DOMAIN labelDescs' :
                  \/ d \in DOMAIN labelDescs /\ labelDescs'[d] = labelDescs[d]
                  \/ labelDescs'[d] = desc
  <2>1. IsSeq(labelDescs) /\ Len(labelDescs) \in Nat /\ DOMAIN labelDescs = 1 .. Len(labelDescs)
    BY SeqFacts DEF IInv
  <2>2. /\ DOMAIN labelDescs' = 1 .. Len(labelDescs) + 1
        /\ \A d \in DOMAIN labelDescs : labelDescs'[d] = labelDescs[d]
        /\ labelDescs'[Len(labelDescs) + 1] = desc
    BY <1>2, <2>1, AppendFacts
  <2>3. \A d \in 1 .. Len(labelDescs) + 1 : d \in 1 .. Len(labelDescs) \/ d = Len(labelDescs) + 1
    BY <2>1
  <2>4. \A d \in 1 .. Len(labelDescs) : d \in 1 .. Len(labelDescs) + 1
    BY <2>1
  <2> QED
    BY <2>1, <2>2, <2>3, <2>4
<1> QED
  BY <1>1, <1>2 DEF DescsContinue

LEMMA GrowKeepsBInv ==
  ASSUME IInv, BInv, todo # <<>>, status = "compiling", status' = status, crossed' = crossed,
         nStmts' \in {nStmts, nStmts + 1},
         NEW items, IsSeq(items), Replace(items), OneDeep(items), ~OfFunction(Head(todo)), Continues(items),
         DescsContinue,
         IsSeq(gens'), Len(gens') = Len(gens), \A g \in 1 .. Len(gens) : Extends(gens[g], gens'[g])
  PROVE  BInv'
<1> DEFINE n   == Len(items)
           top == Len(gens)
           Old(i) == (i - n) + 1
           New(i) == n \in DOMAIN items /\ i = n /\ todo'[i] = items[n]
           Kept(i) == i > n /\ Old(i) \in DOMAIN todo /\ todo'[i] = todo[Old(i)]
<1>1. IsSeq(todo) /\ nStmts \in Nat /\ nStmts' \in Nat /\ nStmts <= nStmts'
  BY DEF IInv
<1>2. /\ 1 \in DOMAIN todo /\ Head(todo) = todo[1]
      /\ \A i \in DOMAIN todo' : HasDepth(todo'[i]) => New(i) \/ Kept(i)
  <2>1. n \in DOMAIN items \/ n = 0
    BY <1>1, DeepItems
  <2> QED
    BY <1>1, <2>1, DeepItems
<1>3. top \in Nat /\ top > 0 /\ top \in 1 .. top
  BY DEF BInv, Nested, IsSeq
<1>4. Nested'
  BY <1>1, <1>3, NestedStays DEF BInv, Continues
<1>5. /\ \A d \in DOMAIN labelDescs : d \in DOMAIN labelDescs' /\ labelDescs'[d] = labelDescs[d]
      /\ \A d \in DOMAIN labelDescs' :
           \/ d \in DOMAIN labelDescs /\ labelDescs'[d] = labelDescs[d]
           \/ /\ nStmts' = nStmts + 1 /\ labelDescs'[d].stmt = nStmts + 1
              /\ labelDescs'[d].depth = top /\ labelDescs'[d].breaks = <<>>
  BY DescsAfter
\* The if that is left of in items is the head's or a new one.
<1>6. ASSUME NEW i \in DOMAIN todo', OfIf(todo'[i]), New(i)
      PROVE  /\ todo'[i].depth = top
             /\ \/ OfIf(todo[1]) /\ todo'[i].stmt = todo[1].stmt /\ todo[1].depth = top
                \/ todo'[i].stmt = nStmts + 1
  <2>1. /\ todo'[i].depth = top
        /\ \/ OfIf(todo[1]) /\ todo'[i].stmt = todo[1].stmt
           \/ todo'[i].stmt = nStmts + 1
    BY <1>2, <1>6 DEF Continues, HasDepth
  <2>2. OfIf(todo[1]) => todo[1].depth = top
    BY <1>1, <1>2, HeadDepth DEF BInv, HasDepth
  <2> QED
    BY <2>1, <2>2
<1> HIDE DEF n, New, Kept, Old
<1>7. ASSUME NEW g \in 1 .. top
      PROVE  /\ IsSeq(gens[g].code) /\ Len(gens[g].code) \in Nat
             /\ IsEncoder(gens'[g]) /\ IsSeq(gens'[g].code) /\ Len(gens'[g].code) \in Nat
             /\ Len(gens[g].code) <= Len(gens'[g].code)
             /\ gens'[g].breaks = gens[g].breaks /\ gens'[g].ends = gens[g].ends
  BY DEF BInv, Encoders, Extends, IsSeq
<1>8. Encoders'
  <2>1. ASSUME NEW g \in 1 .. top, NEW b \in gens'[g].breaks
        PROVE  b.at \in 3 .. Len(gens'[g].code) /\ b.stmt \in 1 .. nStmts'
    <3>1. b.at \in 3 .. Len(gens[g].code) /\ b.stmt \in 1 .. nStmts
      BY <1>7, <2>1 DEF BInv, Encoders, BreaksPlaced
    <3>2. \A a, l, m \in Nat : l <= m /\ a \in 3 .. l => a \in 3 .. m
      OBVIOUS
    <3>3. b.at \in 3 .. Len(gens'[g].code)
      BY <1>7, <3>1, <3>2
    <3> QED
      BY <1>1, <3>1, <3>3
  <2>2. \A g \in 1 .. top : \A b, c \in gens'[g].breaks : b = c \/ Apart(b.at, c.at)
    BY <1>7 DEF BInv, Encoders, BreaksPlaced
  <2>3. ASSUME NEW g \in 1 .. top, NEW e \in gens'[g].ends
        PROVE  /\ e.at \in Nat /\ e.stmt \in 1 .. nStmts'
               /\ \A i \in DOMAIN todo' : OfIf(todo'[i]) => todo'[i].stmt # e.stmt
    <3>1. /\ e.at \in Nat /\ e.stmt \in 1 .. nStmts
          /\ \A i \in DOMAIN todo : OfIf(todo[i]) => todo[i].stmt # e.stmt
      BY <1>7, <2>3 DEF BInv, Encoders, EndsPlaced
    <3>2. e.stmt \in 1 .. nStmts' /\ e.stmt # nStmts + 1
      BY <1>1, <3>1
    <3>3. \A i \in DOMAIN todo' : OfIf(todo'[i]) => todo'[i].stmt # e.stmt
      BY <1>2, <1>6, <3>1, <3>2 DEF Kept, HasDepth
    <3> QED
      BY <3>1, <3>2, <3>3
  <2>4. \A g \in 1 .. top : \A e, f \in gens'[g].ends : e.stmt = f.stmt => e = f
    BY <1>7 DEF BInv, Encoders, EndsPlaced
  <2> QED
    BY <1>7, <2>1, <2>2, <2>3, <2>4 DEF Encoders, BreaksPlaced, EndsPlaced
<1>9. PastsPlaced'
  <2> SUFFICES ASSUME NEW i \in DOMAIN todo', HasPast(todo'[i])
               PROVE  /\ todo'[i].past \in 3 .. Len(gens'[todo'[i].depth].code)
                      /\ \A b \in gens'[todo'[i].depth].breaks : Apart(b.at, todo'[i].past)
    BY DEF PastsPlaced
  <2>1. HasDepth(todo'[i])
    BY DEF HasPast, HasDepth, OfIf
  <2>2. CASE New(i)
    <3>1. /\ todo'[i].depth = top /\ todo'[i].past \in 3 .. Len(gens'[top].code)
          /\ \A b \in gens[top].breaks : Apart(b.at, todo'[i].past)
      BY <2>1, <2>2 DEF Continues, New, n
    <3> QED
      BY <1>3, <1>7, <3>1
  <2>3. CASE Kept(i)
    <3> DEFINE g == todo'[i].depth
    <3>1. /\ g \in 1 .. top /\ todo'[i].past \in 3 .. Len(gens[g].code)
          /\ \A b \in gens[g].breaks : Apart(b.at, todo'[i].past)
      BY <2>1, <2>3 DEF BInv, PastsPlaced, Nested, DepthsExist, Kept
    <3> HIDE DEF g
    <3>2. todo'[i].past \in 3 .. Len(gens'[g].code)
      BY <1>7, <3>1
    <3> QED
      BY <1>7, <3>1, <3>2 DEF g
  <2> QED
    BY <1>2, <2>1, <2>2, <2>3
<1>10. \A d \in DOMAIN labelDescs : labelDescs[d].stmt \in 1 .. nStmts
  BY DEF IInv, Enclosed, Entered
<1>11. DescsPlaced'
  <2> SUFFICES ASSUME NEW d \in DOMAIN labelDescs'
               PROVE  /\ IsSeq(labelDescs'[d].breaks)
                      /\ \A i \in DOMAIN todo' :
                           OfIf(todo'[i]) /\ todo'[i].stmt = labelDescs'[d].stmt
                             => todo'[i].depth = labelDescs'[d].depth
    BY DEF DescsPlaced
  <2>1. CASE d \in DOMAIN labelDescs /\ labelDescs'[d] = labelDescs[d]
    <3>1. IsSeq(labelDescs'[d].breaks) /\ labelDescs'[d].stmt \in 1 .. nStmts
      BY <1>10, <2>1 DEF BInv, DescsPlaced
    <3>2. ASSUME NEW i \in DOMAIN todo', OfIf(todo'[i]), todo'[i].stmt = labelDescs'[d].stmt
          PROVE  todo'[i].depth = labelDescs'[d].depth
      <4>1. CASE Kept(i)
        BY <2>1, <3>2, <4>1 DEF BInv, DescsPlaced, Kept
      <4>2. CASE New(i)
        <5>1. todo'[i].stmt # nStmts + 1
          BY <1>1, <3>1, <3>2
        <5>2. todo'[i].depth = top /\ OfIf(todo[1]) /\ todo'[i].stmt = todo[1].stmt /\ todo[1].depth = top
          BY <1>6, <3>2, <4>2, <5>1
        <5> QED
          BY <1>2, <2>1, <3>2, <5>2 DEF BInv, DescsPlaced
      <4> QED
        BY <1>2, <3>2, <4>1, <4>2 DEF HasDepth
    <3> QED
      BY <3>1, <3>2
  <2>2. CASE labelDescs'[d].stmt = nStmts + 1 /\ labelDescs'[d].depth = top /\ labelDescs'[d].breaks = <<>>
    <3>1. IsSeq(labelDescs'[d].breaks)
      BY <2>2 DEF IsSeq
    <3>2. ASSUME NEW i \in DOMAIN todo', OfIf(todo'[i]), todo'[i].stmt = nStmts + 1
          PROVE  todo'[i].depth = top
      <4>1. ~Kept(i)
        BY <1>1, <3>2 DEF IInv, Entered, Kept
      <4> QED
        BY <1>2, <1>6, <3>2, <4>1 DEF HasDepth
    <3> QED
      BY <2>2, <3>1, <3>2
  <2> QED
    BY <1>5, <2>1, <2>2
<1>12. ASSUME ~crossed' PROVE DescsOwn' /\ BreaksKept' /\ AllLand'
  <2>1. DescsOwn /\ BreaksKept /\ AllLand
    BY <1>12 DEF BInv
  <2>2. DescsOwn'
    <3> SUFFICES ASSUME NEW d \in DOMAIN labelDescs', NEW k \in DOMAIN labelDescs'[d].breaks
                 PROVE  \E b \in gens'[labelDescs'[d].depth].breaks :
                          b.at = labelDescs'[d].breaks[k] /\ b.stmt = labelDescs'[d].stmt
      BY DEF DescsOwn
    <3>1. d \in DOMAIN labelDescs /\ labelDescs'[d] = labelDescs[d]
      BY <1>5
    <3>2. labelDescs[d].depth \in 1 .. top
      BY <3>1 DEF IInv, Enclosed, BInv, DescsPlaced, Nested, DepthsExist, HasDepth
    <3> QED
      BY <1>7, <2>1, <3>1, <3>2 DEF DescsOwn
  <2>3. BreaksKept'
    <3> SUFFICES ASSUME NEW g \in 1 .. top, NEW b \in gens'[g].breaks
                 PROVE  \/ \E e \in gens'[g].ends : e.stmt = b.stmt
                        \/ \E d \in DOMAIN labelDescs' :
                             /\ labelDescs'[d].stmt = b.stmt /\ labelDescs'[d].depth = g
                             /\ \E k \in DOMAIN labelDescs'[d].breaks : labelDescs'[d].breaks[k] = b.at
      BY DEF BreaksKept, Ended, Pending
    <3>1. Ended(gens[g], b) \/ Pending(g, b)
      BY <1>7, <2>1 DEF BreaksKept
    <3> QED
      BY <1>5, <1>7, <3>1 DEF Ended, Pending
  <2>4. \A g \in 1 .. top : Lands(gens'[g])
    BY <1>7, <2>1, LandsStill DEF AllLand
  <2>5. AllLand'
    BY <2>4 DEF AllLand, Lands, OffsetsFit, Int16
  <2> QED
    BY <2>2, <2>3, <2>5
<1> QED
  BY <1>4, <1>8, <1>9, <1>11, <1>12 DEF BInv
-----------------------------------------------------------------------------
(***************************************************************************)
(* What the visitors do to an encoder.                                     *)
(***************************************************************************)
LEMMA ConcatFacts ==
  ASSUME NEW s, IsSeq(s), NEW t, IsSeq(t)
  PROVE  /\ IsSeq(s \o t) /\ Len(s) \in Nat /\ Len(t) \in Nat /\ Len(s \o t) = Len(s) + Len(t)
         /\ \A i \in 1 .. Len(s) : (s \o t)[i] = s[i]
<1> DEFINE S == {s[i] : i \in DOMAIN s} \union {t[i] : i \in DOMAIN t}
<1>1. s \in Seq(S) /\ t \in Seq(S)
  <2>1. (\A i \in DOMAIN s : s[i] \in S) /\ (\A i \in DOMAIN t : t[i] \in S)
    OBVIOUS
  <2> HIDE DEF S
  <2> QED
    BY <2>1, SeqFacts
<1> HIDE DEF S
<1>2. s \o t \in Seq(S) /\ Len(s \o t) = Len(s) + Len(t) /\ Len(s) \in Nat /\ Len(t) \in Nat
  BY <1>1
<1>3. \A i \in 1 .. Len(s) : (s \o t)[i] = s[i]
  BY <1>1
<1> QED
  BY <1>2, <1>3, SeqIsSeq

LEMMA ExtendsItself ==
  ASSUME NEW gen, IsEncoder(gen), IsSeq(gen.code)
  PROVE  Extends(gen, gen)
BY DEF Extends, IsSeq

LEMMA ExtendsFurther ==
  ASSUME NEW old, NEW mid, NEW new, Extends(old, mid), Extends(mid, new), IsSeq(old.code)
  PROVE  Extends(old, new)
BY DEF Extends, IsSeq

\* What the lemmas below need of the encoder they are about.
IsPlaced(gen) == IsEncoder(gen) /\ IsSeq(gen.code) /\ \A b \in gen.breaks : b.at \in 3 .. Len(gen.code)

LEMMA CodeExtends ==
  ASSUME NEW gen, IsPlaced(gen), NEW cells, IsSeq(cells), NEW new, IsEncoder(new),
         new.code = gen.code \o cells, new.breaks = gen.breaks, new.ends = gen.ends
  PROVE  Extends(gen, new) /\ IsPlaced(new) /\ Len(new.code) = Len(gen.code) + Len(cells)
<1>1. /\ IsSeq(new.code) /\ Len(gen.code) \in Nat /\ Len(cells) \in Nat
      /\ Len(new.code) = Len(gen.code) + Len(cells)
      /\ \A i \in 1 .. Len(gen.code) : new.code[i] = gen.code[i]
  BY ConcatFacts DEF IsPlaced
<1>2. \A l, m \in Nat : \A a \in 3 .. l : a \in 1 .. l /\ a - 1 \in 1 .. l /\ a \in 3 .. l + m /\ l <= l + m
  OBVIOUS
<1>3. Len(gen.code) <= Len(new.code)
  BY <1>1
<1>4. \A b \in gen.breaks : /\ b.at \in 1 .. Len(gen.code) /\ b.at - 1 \in 1 .. Len(gen.code)
                            /\ b.at \in 3 .. Len(new.code)
  BY <1>1, <1>2 DEF IsPlaced
<1>5. \A b \in gen.breaks : new.code[b.at] = gen.code[b.at] /\ new.code[b.at - 1] = gen.code[b.at - 1]
  BY <1>1, <1>4
<1> QED
  BY <1>1, <1>3, <1>4, <1>5 DEF Extends, IsPlaced

LEMMA EmittedExtends ==
  ASSUME NEW gen, IsPlaced(gen), NEW cells, IsSeq(cells)
  PROVE  LET new == Emitted(gen, cells)
         IN  Extends(gen, new) /\ IsPlaced(new) /\ Len(new.code) = Len(gen.code) + Len(cells)
<1> DEFINE new == Emitted(gen, cells)
<1>1. DOMAIN gen = {"code", "literals", "decls", "breaks", "ends"}
  BY DEF IsPlaced, IsEncoder
<1>2. new = [f \in DOMAIN gen |-> IF f = "code" THEN gen.code \o cells ELSE gen[f]]
  BY DEF Emitted
<1> HIDE DEF new
<1>3. IsEncoder(new) /\ new.code = gen.code \o cells /\ new.breaks = gen.breaks /\ new.ends = gen.ends
  BY <1>1, <1>2 DEF IsEncoder
<1>4. Extends(gen, new) /\ IsPlaced(new) /\ Len(new.code) = Len(gen.code) + Len(cells)
  BY <1>3, CodeExtends
<1> QED
  BY <1>4 DEF new

LEMMA EmittedLiteralExtends ==
  ASSUME NEW gen, IsPlaced(gen), NEW op, NEW literal
  PROVE  LET new == EmittedLiteral(gen, op, literal)
         IN  Extends(gen, new) /\ IsPlaced(new)
<1> DEFINE cells == <<op, Len(gen.literals) % ByteSize>>
           new == EmittedLiteral(gen, op, literal)
<1>1. DOMAIN gen = {"code", "literals", "decls", "breaks", "ends"}
  BY DEF IsPlaced, IsEncoder
<1>2. new = [f \in DOMAIN gen |-> IF f = "code" THEN gen.code \o cells
                                ELSE IF f = "literals" THEN Append(gen.literals, literal) ELSE gen[f]]
  BY DEF EmittedLiteral
<1>3. IsSeq(cells)
  BY Plain DEF IsSeq
<1> HIDE DEF new, cells
<1>4. IsEncoder(new) /\ new.code = gen.code \o cells /\ new.breaks = gen.breaks /\ new.ends = gen.ends
  BY <1>1, <1>2 DEF IsEncoder
<1>5. Extends(gen, new) /\ IsPlaced(new)
  BY <1>3, <1>4, CodeExtends
<1> QED
  BY <1>5 DEF new

LEMMA DeclaredExtends ==
  ASSUME NEW gen, IsPlaced(gen), NEW n
  PROVE  Extends(gen, [gen EXCEPT !.decls[n] = Local])
<1> DEFINE new == [gen EXCEPT !.decls[n] = Local]
<1>1. gen = [code |-> gen.code, literals |-> gen.literals, decls |-> gen.decls,
             breaks |-> gen.breaks, ends |-> gen.ends]
  BY DEF IsPlaced, IsEncoder
<1>2. new = [code |-> gen.code, literals |-> gen.literals, decls |-> [gen.decls EXCEPT ![n] = Local],
             breaks |-> gen.breaks, ends |-> gen.ends]
  BY <1>1
<1>3. IsEncoder(new) /\ new.code = gen.code /\ new.breaks = gen.breaks /\ new.ends = gen.ends
  BY <1>2 DEF IsEncoder
<1> HIDE DEF new
<1>4. Extends(gen, gen)
  BY ExtendsItself DEF IsPlaced
<1>5. Extends(gen, new)
  BY <1>3, <1>4 DEF Extends
<1> QED
  BY <1>5 DEF new

\* The encoder on top gives way to one that extends it.
LEMMA CoderExtends ==
  ASSUME Nested, Encoders, status = "compiling", NEW gen, Extends(coder, gen), SetCoder(gen)
  PROVE  /\ IsSeq(gens') /\ Len(gens') = Len(gens) /\ gens'[Len(gens)] = gen
         /\ \A g \in 1 .. Len(gens) : Extends(gens[g], gens'[g])
<1> DEFINE top == Len(gens)
<1>1. IsSeq(gens) /\ top \in Nat /\ top > 0 /\ top \in 1 .. top /\ DOMAIN gens = 1 .. top
  BY SeqFacts DEF Nested, IsSeq
<1>2. coder = gens[top]
  BY DEF coder, Last
<1>3. gens' = [g \in 1 .. top |-> IF g = top THEN gen ELSE gens[g]]
  BY <1>1 DEF SetCoder
<1> HIDE DEF top
<1>4. Len(gens') = top /\ IsSeq(gens')
  BY <1>1, <1>3 DEF IsSeq
<1>5. \A g \in 1 .. top : Extends(gens[g], gens[g])
  BY ExtendsItself DEF Encoders, top
<1> QED
  BY <1>1, <1>2, <1>3, <1>4, <1>5 DEF top

LEMMA CoderPlaced ==
  ASSUME BInv, status = "compiling"
  PROVE  /\ IsPlaced(coder) /\ coder = gens[Len(gens)] /\ pos = Len(gens[Len(gens)].code)
         /\ Len(gens) \in 1 .. Len(gens) /\ pos \in Nat
<1>1. Len(gens) \in 1 .. Len(gens)
  BY DEF BInv, Nested, IsSeq
<1>2. coder = gens[Len(gens)]
  BY DEF coder, Last
<1>3. IsPlaced(coder)
  BY <1>1, <1>2 DEF BInv, Encoders, BreaksPlaced, IsPlaced
<1> QED
  BY <1>1, <1>2, <1>3 DEF pos, IsPlaced, IsSeq
-----------------------------------------------------------------------------
(***************************************************************************)
(* The visitors that add to the code.                                      *)
(***************************************************************************)
\* A step of an item that is of no if and no function, to others that are not.
LEMMA PlainKeepsBInv ==
  ASSUME IInv, BInv, todo # <<>>, status = "compiling",
         UNCHANGED <<labelDescs, nStmts, status, crossed>>,
         NEW items, IsSeq(items), Replace(items), ~OfFunction(Head(todo)),
         \A i \in DOMAIN items : ~HasDepth(items[i]),
         gens' = gens \/ \E gen : Extends(coder, gen) /\ SetCoder(gen)
  PROVE  BInv'
<1>1. OneDeep(items) /\ Continues(items) /\ DescsContinue
  BY DEF OneDeep, Continues, DescsContinue
<1>2. IsSeq(gens') /\ Len(gens') = Len(gens) /\ \A g \in 1 .. Len(gens) : Extends(gens[g], gens'[g])
  <2>1. CASE gens' = gens
    <3>1. \A g \in 1 .. Len(gens) : Extends(gens[g], gens[g])
      BY ExtendsItself DEF BInv, Encoders
    <3> QED
      BY <2>1, <3>1 DEF BInv, Nested
  <2>2. CASE \E gen : Extends(coder, gen) /\ SetCoder(gen)
    BY <2>2, CoderExtends DEF BInv
  <2> QED
    BY <2>1, <2>2
<1>3. nStmts' \in {nStmts, nStmts + 1}
  OBVIOUS
<1> QED
  BY <1>1, <1>2, <1>3, GrowKeepsBInv

LEMMA Shallow ==
  /\ IsSeq(<<>>) /\ \A i \in DOMAIN <<>> : ~HasDepth(<<>>[i])
  /\ \A a : ~HasDepth(a) => IsSeq(<<a>>) /\ \A i \in DOMAIN <<a>> : ~HasDepth(<<a>>[i])
  /\ \A a, b : ~HasDepth(a) /\ ~HasDepth(b) =>
       IsSeq(<<a, b>>) /\ \A i \in DOMAIN <<a, b>> : ~HasDepth(<<a, b>>[i])
  /\ \A a, b, c : ~HasDepth(a) /\ ~HasDepth(b) /\ ~HasDepth(c) =>
       IsSeq(<<a, b, c>>) /\ \A i \in DOMAIN <<a, b, c>> : ~HasDepth(<<a, b, c>>[i])
BY DEF IsSeq

LEMMA ShallowItems ==
  /\ \A kind \in {"Expr", "Add", "Pop", "Return", "StmtListItem", "Stmt", "More"} :
       ~HasDepth(Item(kind))
  /\ \A n : ~HasDepth([k |-> "Call", args |-> n])
  /\ \A n : ~HasDepth([k |-> "Store", name |-> n])
BY DEF HasDepth, OfIf, OfFunction, Item

LEMMA ExpressionsKeepBInv ==
  ASSUME IInv, BInv, VisitIdentifier \/ VisitNumber \/ VisitBinOp \/ EmitLast PROVE BInv'
<1>1. /\ todo # <<>> /\ ~OfFunction(Head(todo)) /\ status = "compiling"
      /\ UNCHANGED <<labelDescs, nStmts, status, crossed>>
  BY DEF VisitIdentifier, VisitNumber, VisitBinOp, EmitLast, AtExpr, Doing, OfFunction, OnlyCode, OnlyTree
<1>2. Replace(<<>>) \/ Replace(<<Item("Expr"), Item("Expr"), Item("Add")>>)
  BY DEF VisitIdentifier, VisitNumber, VisitBinOp, EmitLast
<1>3. IsPlaced(coder)
  BY <1>1, CoderPlaced
<1>4. gens' = gens \/ \E gen : Extends(coder, gen) /\ SetCoder(gen)
  <2>1. CASE VisitIdentifier
    <3>1. PICK n \in Names : SetCoder(EmittedLiteral(coder, kResolve, StringOop(n)))
      BY <2>1 DEF VisitIdentifier
    <3> QED
      BY <1>3, <3>1, EmittedLiteralExtends
  <2>2. CASE VisitNumber
    <3>1. SetCoder(EmittedLiteral(coder, kPushLiteral, Double(nDoubles + 1)))
      BY <2>2 DEF VisitNumber
    <3> QED
      BY <1>3, <3>1, EmittedLiteralExtends
  <2>3. CASE VisitBinOp
    BY <2>3 DEF VisitBinOp, OnlyTree
  <2>4. CASE EmitLast
    <3>1. PICK cells : IsSeq(cells) /\ SetCoder(Emitted(coder, cells))
      <4>1. IsSeq(<<kAdd>>) /\ IsSeq(<<kCall, Head(todo).args % ByteSize>>) /\ IsSeq(<<kPop>>) /\ IsSeq(<<kReturn>>)
        BY DEF IsSeq
      <4> QED
        BY <2>4, <4>1 DEF EmitLast
    <3> QED
      BY <1>3, <3>1, EmittedExtends
  <2> QED
    BY <2>1, <2>2, <2>3, <2>4
<1> QED
  BY <1>1, <1>2, <1>4, Shallow, ShallowItems, PlainKeepsBInv

LEMMA VisitFunCallKeepsBInv == ASSUME IInv, BInv, VisitFunCall PROVE BInv'
<1>1. /\ todo # <<>> /\ ~OfFunction(Head(todo)) /\ status = "compiling"
      /\ UNCHANGED <<gens, labelDescs, nStmts, status, crossed>>
  BY DEF VisitFunCall, AtExpr, Doing, OfFunction, OnlyTree
<1>2. PICK n \in 1 .. MaxArgs :
        Replace([i \in 1 .. n + 1 |-> Item("Expr")] \o <<[k |-> "Call", args |-> n]>>)
  BY DEF VisitFunCall
<1> DEFINE exprs == [i \in 1 .. n + 1 |-> Item("Expr")]
           call  == [k |-> "Call", args |-> n]
           items == exprs \o <<call>>
<1>3. n \in Nat
  BY <1>2, BoundsAssumption
<1>4. exprs \in Seq({Item("Expr"), call}) /\ <<call>> \in Seq({Item("Expr"), call})
  BY <1>3
<1>5. items \in Seq({Item("Expr"), call})
  BY <1>4
<1> HIDE DEF items
<1>6. IsSeq(items) /\ \A i \in DOMAIN items : items[i] \in {Item("Expr"), call}
  BY <1>5, SeqIsSeq
<1>7. ~HasDepth(Item("Expr")) /\ ~HasDepth(call)
  BY ShallowItems
<1>8. Replace(items)
  BY <1>2 DEF items
<1> QED
  BY <1>1, <1>6, <1>7, <1>8, PlainKeepsBInv

LEMMA StatementsKeepBInv ==
  ASSUME IInv, BInv,
         MoreStmts \/ VisitExprStmt \/ VisitReturn \/ VisitContinue \/ VisitDecl \/ StoreDecl \/ VisitLabel
  PROVE  BInv'
<1>1. /\ todo # <<>> /\ ~OfFunction(Head(todo)) /\ status = "compiling"
      /\ UNCHANGED <<labelDescs, nStmts, status, crossed>>
  BY DEF MoreStmts, VisitExprStmt, VisitReturn, VisitContinue, VisitDecl, StoreDecl, VisitLabel,
         AtStmt, Doing, OfFunction, OnlyCode, OnlyTree
<1>2. \/ Replace(<<>>) \/ Replace(<<Item("StmtListItem"), Item("More")>>)
      \/ Replace(<<Item("Expr"), Item("Pop")>>) \/ Replace(<<Item("Expr"), Item("Return")>>)
      \/ \E n \in Names : Replace(<<Item("Expr"), [k |-> "Store", name |-> n]>>)
      \/ Replace(<<Item("Stmt")>>)
  BY DEF MoreStmts, VisitExprStmt, VisitReturn, VisitContinue, VisitDecl, StoreDecl, VisitLabel
<1>3. IsPlaced(coder)
  BY <1>1, CoderPlaced
<1>4. gens' = gens \/ \E gen : Extends(coder, gen) /\ SetCoder(gen)
  <2>1. CASE VisitDecl
    <3>1. PICK n \in Names : SetCoder([coder EXCEPT !.decls[n] = Local])
      BY <2>1 DEF VisitDecl
    <3> QED
      BY <1>3, <3>1, DeclaredExtends
  <2>2. CASE StoreDecl
    <3> DEFINE mid == EmittedLiteral(coder, kResolvedStore, StringOop(Head(todo).name))
    <3>1. SetCoder(Emitted(mid, <<kPop>>)) /\ IsSeq(<<kPop>>)
      BY <2>2 DEF StoreDecl, IsSeq
    <3>2. Extends(coder, mid) /\ IsPlaced(mid)
      BY <1>3, EmittedLiteralExtends
    <3> HIDE DEF mid
    <3>3. Extends(mid, Emitted(mid, <<kPop>>))
      BY <3>1, <3>2, EmittedExtends
    <3> QED
      BY <1>3, <3>1, <3>2, <3>3, ExtendsFurther DEF IsPlaced
  <2>3. CASE ~VisitDecl /\ ~StoreDecl
    BY <2>3 DEF MoreStmts, VisitExprStmt, VisitReturn, VisitContinue, VisitLabel, OnlyTree
  <2> QED
    BY <2>1, <2>2, <2>3
<1> QED
  BY <1>1, <1>2, <1>4, Shallow, ShallowItems, PlainKeepsBInv

LEMMA VisitIfKeepsBInv == ASSUME IInv, BInv, VisitIf PROVE BInv'
<1>1. PICK else \in BOOLEAN :
        Replace(<<Item("Expr"), [k |-> "IfCode", stmt |-> nStmts + 1, else |-> else, depth |-> Len(gens)]>>)
  BY DEF VisitIf
<1> DEFINE items == <<Item("Expr"), [k |-> "IfCode", stmt |-> nStmts + 1, else |-> else, depth |-> Len(gens)]>>
<1>2. /\ IsSeq(items) /\ Len(items) = 2 /\ DOMAIN items = 1 .. 2 /\ ~HasDepth(items[1])
      /\ ~OfFunction(items[2]) /\ ~HasPast(items[2])
      /\ items[2].depth = Len(gens) /\ items[2].stmt = nStmts + 1
  BY ShallowItems DEF IsSeq, OfFunction, HasPast
<1>3. /\ todo # <<>> /\ ~OfFunction(Head(todo)) /\ status = "compiling" /\ nStmts' = nStmts + 1
      /\ UNCHANGED <<gens, status, crossed>>
  BY DEF VisitIf, AtStmt, Doing, OfFunction
<1>4. Replace(items)
  BY <1>1
<1> HIDE DEF items
<1>5. \A i \in DOMAIN items : i = 1 \/ i = 2
  BY <1>2
<1>6. OneDeep(items) /\ Continues(items)
  BY <1>2, <1>3, <1>5 DEF OneDeep, Continues
<1>7. DescsContinue
  <2> DEFINE desc == [ident |-> Last(nextLabels), stmt |-> nStmts + 1, breaks |-> <<>>,
                      copies |-> Len(nextLabels), depth |-> Len(gens)]
  <2>1. labelDescs' = labelDescs \/ labelDescs' = Append(labelDescs, desc)
    BY DEF VisitIf
  <2>2. desc.stmt = nStmts + 1 /\ desc.depth = Len(gens) /\ desc.breaks = <<>>
    OBVIOUS
  <2> HIDE DEF desc
  <2> QED
    BY <1>3, <2>1, <2>2 DEF DescsContinue
<1>8. IsSeq(gens') /\ Len(gens') = Len(gens) /\ \A g \in 1 .. Len(gens) : Extends(gens[g], gens'[g])
  <2>1. \A g \in 1 .. Len(gens) : Extends(gens[g], gens[g])
    BY ExtendsItself DEF BInv, Encoders
  <2> QED
    BY <1>3, <2>1 DEF BInv, Nested
<1> QED
  BY <1>2, <1>3, <1>4, <1>6, <1>7, <1>8, GrowKeepsBInv

\* One of the last two cells of a jump is written when it is patched.
LEMMA PatchedCells ==
  ASSUME NEW code, IsSeq(code), NEW at, NEW target
  PROVE  LET new == ReplaceJumpTarget(code, at, target)
         IN  /\ IsSeq(new) /\ Len(new) = Len(code)
             /\ \A i \in 1 .. Len(code) : i # at /\ i # at - 1 => new[i] = code[i]
<1> DEFINE new == ReplaceJumpTarget(code, at, target)
<1>1. DOMAIN code = 1 .. Len(code) /\ Len(code) \in Nat
  BY SeqFacts
<1>2. new = [i \in 1 .. Len(code) |-> new[i]]
  BY <1>1 DEF ReplaceJumpTarget
<1>3. \A i \in 1 .. Len(code) : i # at /\ i # at - 1 => new[i] = code[i]
  BY <1>1 DEF ReplaceJumpTarget
<1> HIDE DEF new
<1>4. Len(new) = Len(code)
  BY <1>1, <1>2
<1>5. IsSeq(new)
  BY <1>1, <1>2, <1>4 DEF IsSeq
<1> QED
  BY <1>3, <1>4, <1>5 DEF new

LEMMA RecodedExtends ==
  ASSUME NEW gen, IsPlaced(gen), NEW code, IsSeq(code), Len(gen.code) <= Len(code),
         \A b \in gen.breaks : code[b.at] = gen.code[b.at] /\ code[b.at - 1] = gen.code[b.at - 1]
  PROVE  Extends(gen, [gen EXCEPT !.code = code]) /\ [gen EXCEPT !.code = code].code = code
<1> DEFINE new == [gen EXCEPT !.code = code]
<1>1. DOMAIN gen = {"code", "literals", "decls", "breaks", "ends"}
  BY DEF IsPlaced, IsEncoder
<1>2. new = [f \in DOMAIN gen |-> IF f = "code" THEN code ELSE gen[f]]
  OBVIOUS
<1> HIDE DEF new
<1>3. IsEncoder(new) /\ new.code = code /\ new.breaks = gen.breaks /\ new.ends = gen.ends
  BY <1>1, <1>2 DEF IsEncoder
<1>4. Extends(gen, new) /\ new.code = code
  BY <1>3 DEF Extends
<1> QED
  BY <1>4 DEF new

\* The jump past the if-case is emitted and, if there is an else-case, that past the
\* condition is patched, where no break is.
LEMMA IfCasesKeepBInv == ASSUME IInv, BInv, VisitIfCode \/ VisitElseCode PROVE BInv'
<1>1. /\ todo # <<>> /\ OfIf(Head(todo)) /\ ~OfFunction(Head(todo)) /\ HasDepth(Head(todo))
      /\ status = "compiling"
      /\ UNCHANGED <<labelDescs, nStmts, status, crossed>>
  BY DEF VisitIfCode, VisitElseCode, Doing, OfIf, OfFunction, HasDepth, OnlyCode
<1>2. PICK kind \in {"ElseCode", "EndIf"} :
        Replace(<<Item("Stmt"), [k |-> kind, stmt |-> Head(todo).stmt, past |-> pos + 3,
                                  depth |-> Head(todo).depth]>>)
  BY DEF VisitIfCode, VisitElseCode
<1> DEFINE items == <<Item("Stmt"), [k |-> kind, stmt |-> Head(todo).stmt, past |-> pos + 3,
                                  depth |-> Head(todo).depth]>>
<1>3. /\ IsSeq(items) /\ Len(items) = 2 /\ DOMAIN items = 1 .. 2 /\ ~HasDepth(items[1])
      /\ ~OfFunction(items[2]) /\ items[2].stmt = Head(todo).stmt /\ items[2].past = pos + 3
      /\ items[2].depth = Head(todo).depth
  BY ShallowItems DEF IsSeq, OfFunction
<1>4. Replace(items)
  BY <1>2
<1> HIDE DEF items
<1>5. Head(todo).depth = Len(gens) /\ Len(gens) \in Nat \ {0}
  BY <1>1, HeadDepth DEF BInv, IInv
<1>6. /\ IsPlaced(coder) /\ coder = gens[Len(gens)] /\ pos = Len(coder.code) /\ pos \in Nat
      /\ Len(gens) \in 1 .. Len(gens)
  BY <1>1, CoderPlaced
<1>7. \E gen : Extends(coder, gen) /\ SetCoder(gen) /\ Len(gen.code) = pos + 3
  <2>1. \A op : IsSeq(<<op, 0, 0>>) /\ Len(<<op, 0, 0>>) = 3
    BY DEF IsSeq
  <2>2. CASE VisitIfCode
    <3>1. SetCoder(Emitted(coder, <<kJumpIfFalse, 0, 0>>))
      BY <2>2 DEF VisitIfCode
    <3> QED
      BY <1>6, <2>1, <3>1, EmittedExtends
  <2>3. CASE VisitElseCode
    <3> DEFINE past == Head(todo).past
               code == coder.code \o <<kJump, 0, 0>>
               new  == ReplaceJumpTarget(code, past, Len(code))
    <3>1. SetCoder([coder EXCEPT !.code = new]) /\ Head(todo).k = "ElseCode"
      BY <2>3 DEF VisitElseCode, Doing
    <3>2. IsSeq(code) /\ Len(code) = pos + 3 /\ \A i \in 1 .. pos : code[i] = coder.code[i]
      BY <1>6, <2>1, ConcatFacts DEF IsPlaced
    <3> HIDE DEF code
    <3>3. IsSeq(new) /\ Len(new) = Len(code) /\ \A i \in 1 .. Len(code) : i # past /\ i # past - 1 => new[i] = code[i]
      BY <3>2, PatchedCells
    <3> HIDE DEF new
    <3>4. /\ 1 \in DOMAIN todo /\ Head(todo) = todo[1] /\ HasPast(todo[1])
      <4>1. 1 \in DOMAIN todo /\ Head(todo) = todo[1]
        BY <1>1, <1>3, <1>4, Replaced DEF IInv
      <4> QED
        BY <3>1, <4>1 DEF HasPast
    <3>5. past \in 3 .. pos /\ \A b \in coder.breaks : Apart(b.at, past)
      BY <1>5, <1>6, <3>4 DEF BInv, PastsPlaced
    <3>6. ASSUME NEW b \in coder.breaks
          PROVE  new[b.at] = coder.code[b.at] /\ new[b.at - 1] = coder.code[b.at - 1]
      <4>1. b.at \in 3 .. pos /\ Apart(b.at, past)
        BY <1>6, <3>5 DEF IsPlaced
      <4>2. \A n, l \in Nat : \A a \in 3 .. n, p \in 3 .. n : l = n + 3 /\ Apart(a, p) =>
              /\ a \in 1 .. n /\ a - 1 \in 1 .. n /\ a \in 1 .. l /\ a - 1 \in 1 .. l
              /\ a # p /\ a # p - 1 /\ a - 1 # p /\ a - 1 # p - 1
        BY DEF Apart
      <4>3. past \in 3 .. pos /\ Len(code) \in Nat /\ Len(code) = pos + 3 /\ pos \in Nat
        BY <1>6, <3>2, <3>5
      <4> HIDE DEF past
      <4>4. /\ b.at \in 1 .. pos /\ b.at - 1 \in 1 .. pos /\ b.at \in 1 .. Len(code) /\ b.at - 1 \in 1 .. Len(code)
            /\ b.at # past /\ b.at # past - 1 /\ b.at - 1 # past /\ b.at - 1 # past - 1
        BY <4>1, <4>2, <4>3
      <4> QED
        BY <3>2, <3>3, <4>4
    <3>7. Len(coder.code) <= Len(new)
      BY <1>6, <3>2, <3>3
    <3>8. Extends(coder, [coder EXCEPT !.code = new]) /\ [coder EXCEPT !.code = new].code = new
      BY <1>6, <3>3, <3>6, <3>7, RecodedExtends
    <3> QED
      BY <3>1, <3>2, <3>3, <3>8
  <2> QED
    BY <2>2, <2>3
<1>8. PICK gen : Extends(coder, gen) /\ SetCoder(gen) /\ Len(gen.code) = pos + 3
  BY <1>7
<1>9. /\ IsSeq(gens') /\ Len(gens') = Len(gens) /\ gens'[Len(gens)] = gen
      /\ \A g \in 1 .. Len(gens) : Extends(gens[g], gens'[g])
  BY <1>1, <1>8, CoderExtends DEF BInv
<1>10. /\ pos + 3 \in 3 .. Len(gens'[Len(gens)].code)
       /\ \A b \in gens[Len(gens)].breaks : Apart(b.at, pos + 3)
  <2>1. \A n \in Nat : n + 3 \in 3 .. n + 3 /\ \A a \in 3 .. n : Apart(a, n + 3)
    BY DEF Apart
  <2> QED
    BY <1>6, <1>8, <1>9, <2>1 DEF IsPlaced
<1>11. \A i \in DOMAIN items : i = 1 \/ i = 2
  BY <1>3
<1>12. OneDeep(items) /\ Continues(items)
  BY <1>1, <1>3, <1>5, <1>10, <1>11 DEF OneDeep, Continues
<1>13. DescsContinue /\ nStmts' \in {nStmts, nStmts + 1}
  BY <1>1 DEF DescsContinue
<1> QED
  BY <1>1, <1>3, <1>4, <1>9, <1>12, <1>13, GrowKeepsBInv

-----------------------------------------------------------------------------
(***************************************************************************)
(* The greatest of some numbers: how visitBreak finds its descriptor, and  *)
(* which of the jumps that are patched leaves its bytes in a cell.         *)
(***************************************************************************)
LEMMA Least ==
  ASSUME NEW T, T \subseteq Nat, T # {}
  PROVE  \E x \in T : \A y \in T : x <= y
<1> DEFINE R == {ss \in Nat \X Nat : ss[1] < ss[2]}
<1>1. IsWellFoundedOn(R, Nat)
  BY NatLessThanWellFounded DEF OpToRel
<1>2. \A x, y \in Nat : <<x, y>> \notin R => y <= x
  OBVIOUS
<1> HIDE DEF R
<1>3. PICK x \in T : \A y \in T : <<y, x>> \notin R
  BY <1>1, WFMin
<1>4. \A y \in T : x <= y
  BY <1>2, <1>3
<1> QED
  BY <1>4

LEMMA Greatest ==
  ASSUME NEW n \in Nat, NEW S, S \subseteq 1 .. n, S # {}
  PROVE  \E x \in S : \A y \in S : y <= x
<1> DEFINE T == {n - x : x \in S}
<1>1. T \subseteq Nat
  <2>1. \A x \in 1 .. n : n - x \in Nat
    OBVIOUS
  <2> QED
    BY <2>1
<1>2. T # {}
  <2>1. PICK x \in S : TRUE
    OBVIOUS
  <2>2. n - x \in T
    OBVIOUS
  <2> QED
    BY <2>2
<1>3. PICK t \in T : \A y \in T : t <= y
  <2> HIDE DEF T
  <2> QED
    BY <1>1, <1>2, Least
<1>4. PICK x \in S : t = n - x
  OBVIOUS
<1>5. \A y \in S : n - x <= n - y
  BY <1>3, <1>4
<1>6. \A a, b \in 1 .. n : n - a <= n - b => b <= a
  OBVIOUS
<1>7. \A y \in S : y <= x
  BY <1>5, <1>6
<1> QED
  BY <1>7

-----------------------------------------------------------------------------
(***************************************************************************)
(* Breaks.                                                                 *)
(***************************************************************************)
\* Nothing in BInv is about what these leave alone.
LEMMA StopKeepsBInv ==
  ASSUME BInv, UNCHANGED <<todo, gens, labelDescs, nStmts, crossed>>,
         status' = "compiling" => status = "compiling"
  PROVE  BInv'
<1>1. Nested'
  BY DEF BInv, Nested, DepthsExist, DepthsFall, FunctionsEnd
<1>2. Encoders' /\ PastsPlaced' /\ DescsPlaced'
  BY DEF BInv, Encoders, BreaksPlaced, EndsPlaced, PastsPlaced, DescsPlaced
<1>3. ~crossed' => DescsOwn' /\ BreaksKept' /\ AllLand'
  BY DEF BInv, DescsOwn, BreaksKept, Ended, Pending, AllLand, Lands
<1> QED
  BY <1>1, <1>2, <1>3 DEF BInv

LEMMA BreakMatches ==
  ASSUME IInv, VisitBreak
  PROVE  \/ \E how \in {"error", "undefined"} : Stop(how)
         \/ \E d \in DOMAIN labelDescs :
              /\ SetCoder([Emitted(coder, <<kJump, 0, 0>>)
                             EXCEPT !.breaks = @ \union {[at |-> pos + 3, stmt |-> labelDescs[d].stmt]}])
              /\ labelDescs' = [labelDescs EXCEPT ![d].breaks = Append(@, pos + 3)]
              /\ crossed' = (crossed \/ labelDescs[d].depth # Len(gens))
              /\ Replace(<<>>)
              /\ UNCHANGED <<fuel, nextLabels, funs, nDoubles, nStmts, status>>
<1> DEFINE Matches(l) == {i \in DOMAIN labelDescs : l \in {NoLabel, labelDescs[i].ident}}
           Found(l)   == CHOOSE i \in Matches(l) : \A j \in Matches(l) : j <= i
           Breaks(d)  ==
             /\ SetCoder([Emitted(coder, <<kJump, 0, 0>>)
                            EXCEPT !.breaks = @ \union {[at |-> pos + 3, stmt |-> labelDescs[d].stmt]}])
             /\ labelDescs' = [labelDescs EXCEPT ![d].breaks = Append(@, pos + 3)]
             /\ crossed' = (crossed \/ labelDescs[d].depth # Len(gens))
             /\ Replace(<<>>)
             /\ UNCHANGED <<fuel, nextLabels, funs, nDoubles, nStmts, status>>
<1>1. PICK l \in LabelNames \union {NoLabel} :
        \/ Matches(l) = {} /\ Stop(IF l = NoLabel THEN "undefined" ELSE "error")
        \/ Matches(l) # {} /\ Breaks(Found(l))
  BY DEF VisitBreak
<1>2. CASE Matches(l) = {}
  <2>1. (IF l = NoLabel THEN "undefined" ELSE "error") \in {"error", "undefined"}
    OBVIOUS
  <2>2. Stop(IF l = NoLabel THEN "undefined" ELSE "error")
    BY <1>1, <1>2
  <2> QED
    BY <2>1, <2>2
<1>3. CASE Matches(l) # {}
  <2>1. Len(labelDescs) \in Nat /\ DOMAIN labelDescs = 1 .. Len(labelDescs)
    BY SeqFacts DEF IInv
  <2> DEFINE S == Matches(l)
  <2>2. S \subseteq 1 .. Len(labelDescs) /\ S # {} /\ S \subseteq DOMAIN labelDescs
    BY <1>3, <2>1
  <2> HIDE DEF S
  <2>3. \E i \in S : \A j \in S : j <= i
    BY <2>1, <2>2, Greatest
  <2>4. (CHOOSE i \in S : \A j \in S : j <= i) \in S
    BY <2>3
  <2>5. Found(l) \in DOMAIN labelDescs
    BY <2>2, <2>4 DEF S
  <2>6. Breaks(Found(l))
    BY <1>1, <1>3
  <2> HIDE DEF Found, Breaks
  <2>7. \E d \in DOMAIN labelDescs : Breaks(d)
    BY <2>5, <2>6
  <2> QED
    BY <2>7 DEF Breaks
<1> QED
  BY <1>2, <1>3

\* The encoder that a break has been added to.
LEMMA BrokenEncoder ==
  ASSUME BInv, status = "compiling", NEW b, b.at = pos + 3, b.stmt \in 1 .. nStmts,
         \A e \in coder.ends : e.stmt # b.stmt
  PROVE  LET gen == [Emitted(coder, <<kJump, 0, 0>>) EXCEPT !.breaks = @ \union {b}]
         IN  /\ IsEncoder(gen) /\ IsSeq(gen.code) /\ gen.ends = coder.ends
             /\ gen.breaks = coder.breaks \union {b}
             /\ Len(gen.code) = pos + 3 /\ BreaksPlaced(gen)
             /\ Lands(coder) => Lands(gen)
<1> DEFINE mid == Emitted(coder, <<kJump, 0, 0>>)
           gen == [mid EXCEPT !.breaks = @ \union {b}]
<1>1. IsPlaced(coder) /\ pos = Len(coder.code) /\ pos \in Nat /\ coder = gens[Len(gens)] /\ Len(gens) \in 1 .. Len(gens)
  BY CoderPlaced DEF pos
<1>2. IsSeq(<<kJump, 0, 0>>) /\ Len(<<kJump, 0, 0>>) = 3
  BY DEF IsSeq
<1>3. Extends(coder, mid) /\ IsPlaced(mid) /\ Len(mid.code) = pos + 3
  BY <1>1, <1>2, EmittedExtends
<1> HIDE DEF mid
<1>4. DOMAIN mid = {"code", "literals", "decls", "breaks", "ends"}
  BY <1>3 DEF IsPlaced, IsEncoder
<1>5. gen = [f \in DOMAIN mid |-> IF f = "breaks" THEN mid.breaks \union {b} ELSE mid[f]]
  OBVIOUS
<1> HIDE DEF gen
<1>6. IsEncoder(gen) /\ gen.code = mid.code /\ gen.breaks = coder.breaks \union {b} /\ gen.ends = coder.ends
  BY <1>3, <1>4, <1>5 DEF IsEncoder, Extends
<1>7. /\ \A c \in coder.breaks : c.at \in 3 .. pos /\ c.stmt \in 1 .. nStmts
      /\ \A c, d \in coder.breaks : c = d \/ Apart(c.at, d.at)
  BY <1>1 DEF BInv, Encoders, BreaksPlaced
<1>8. BreaksPlaced(gen)
  <2>1. \A n \in Nat : n + 3 \in 3 .. n + 3 /\ \A a \in 3 .. n : a \in 3 .. n + 3 /\ Apart(a, n + 3) /\ Apart(n + 3, a)
    BY DEF Apart
  <2>2. \A c \in gen.breaks : c.at \in 3 .. pos + 3 /\ c.stmt \in 1 .. nStmts
    BY <1>1, <1>6, <1>7, <2>1
  <2>3. \A c \in coder.breaks : Apart(c.at, b.at) /\ Apart(b.at, c.at)
    BY <1>1, <1>7, <2>1
  <2>4. \A c, d \in gen.breaks : c = d \/ Apart(c.at, d.at)
    BY <1>6, <1>7, <2>3
  <2> QED
    BY <1>3, <1>6, <2>2, <2>4 DEF BreaksPlaced
<1>9. ASSUME Lands(coder) PROVE Lands(gen)
  <2>1. Lands(mid)
    BY <1>1, <1>3, <1>9, LandsStill DEF IsPlaced
  <2>2. mid.breaks = coder.breaks /\ mid.ends = coder.ends
    BY <1>3 DEF Extends
  <2> QED
    BY <1>6, <2>1, <2>2 DEF Lands
<1> QED
  BY <1>3, <1>6, <1>8, <1>9 DEF gen, mid, IsPlaced

LEMMA VisitBreakKeepsBInv == ASSUME IInv, BInv, VisitBreak PROVE BInv'
<1>1. CASE UNCHANGED <<todo, gens, labelDescs, nStmts, crossed>> /\ status' # "compiling"
  BY <1>1, StopKeepsBInv
<1>2. ASSUME NEW d \in DOMAIN labelDescs,
             SetCoder([Emitted(coder, <<kJump, 0, 0>>)
                        EXCEPT !.breaks = @ \union {[at |-> pos + 3, stmt |-> labelDescs[d].stmt]}]),
             labelDescs' = [labelDescs EXCEPT ![d].breaks = Append(@, pos + 3)],
             crossed' = (crossed \/ labelDescs[d].depth # Len(gens)),
             Replace(<<>>), UNCHANGED <<nStmts, status>>
      PROVE  BInv'
  <2> DEFINE top == Len(gens)
             b   == [at |-> pos + 3, stmt |-> labelDescs[d].stmt]
             gen == [Emitted(coder, <<kJump, 0, 0>>) EXCEPT !.breaks = @ \union {b}]
  <2>1. todo # <<>> /\ ~HasDepth(Head(todo)) /\ ~OfFunction(Head(todo)) /\ status = "compiling" /\ IsSeq(todo)
    BY DEF VisitBreak, AtStmt, Doing, HasDepth, OfIf, OfFunction, IInv
  <2>2. /\ IsPlaced(coder) /\ coder = gens[top] /\ pos = Len(coder.code) /\ pos \in Nat
        /\ top \in 1 .. top /\ top \in Nat /\ top > 0 /\ IsSeq(gens) /\ DOMAIN gens = 1 .. top
    BY <2>1, CoderPlaced, SeqFacts DEF BInv, Nested, pos
  <2>3. b.at = pos + 3 /\ b.stmt = labelDescs[d].stmt
    OBVIOUS
  \* Its statement is being visited.
  <2>4. PICK o \in DOMAIN todo : OfIf(todo[o]) /\ todo[o].stmt = labelDescs[d].stmt
    BY DEF IInv, Enclosed
  <2>5. b.stmt \in 1 .. nStmts /\ \A g \in 1 .. top : \A e \in gens[g].ends : e.stmt # b.stmt
    BY <2>3, <2>4 DEF IInv, Entered, BInv, Encoders, EndsPlaced
  <2>6. gens' = [g \in 1 .. top |-> IF g = top THEN gen ELSE gens[g]]
    BY <1>2, <2>2 DEF SetCoder
  <2> HIDE DEF b
  <2>7. /\ IsEncoder(gen) /\ IsSeq(gen.code) /\ gen.ends = coder.ends
        /\ gen.breaks = coder.breaks \union {b}
        /\ Len(gen.code) = pos + 3 /\ BreaksPlaced(gen)
        /\ Lands(coder) => Lands(gen)
    BY <2>1, <2>2, <2>3, <2>5, BrokenEncoder
  <2> HIDE DEF gen, top
  <2>8. /\ IsSeq(gens') /\ Len(gens') = top /\ gens'[top] = gen
        /\ \A g \in 1 .. top : g # top => gens'[g] = gens[g]
    <3>1. Len(gens') = top
      BY <2>2, <2>6
    <3> QED
      BY <2>2, <2>6, <3>1 DEF IsSeq
  <2>9. \A i \in DOMAIN todo' : \E j \in DOMAIN todo : todo'[i] = todo[j]
    BY <1>2, <2>1, DoneItems
  <2>10. /\ DOMAIN labelDescs' = DOMAIN labelDescs
         /\ \A c \in DOMAIN labelDescs : c # d => labelDescs'[c] = labelDescs[c]
         /\ labelDescs'[d].stmt = labelDescs[d].stmt /\ labelDescs'[d].depth = labelDescs[d].depth
         /\ labelDescs'[d].breaks = Append(labelDescs[d].breaks, pos + 3)
    <3>1. IsDesc(labelDescs[d])
      BY DEF IInv
    <3>2. labelDescs'[d] = [labelDescs[d] EXCEPT !.breaks = Append(@, pos + 3)]
      BY <1>2
    <3>3. /\ DOMAIN labelDescs' = DOMAIN labelDescs
          /\ \A c \in DOMAIN labelDescs : c # d => labelDescs'[c] = labelDescs[c]
      BY <1>2
    <3> QED
      BY <3>1, <3>2, <3>3 DEF IsDesc
  <2>11. /\ IsSeq(Append(labelDescs[d].breaks, pos + 3))
         /\ DOMAIN Append(labelDescs[d].breaks, pos + 3) = 1 .. Len(labelDescs[d].breaks) + 1
         /\ Len(labelDescs[d].breaks) \in Nat /\ DOMAIN labelDescs[d].breaks = 1 .. Len(labelDescs[d].breaks)
         /\ \A k \in DOMAIN labelDescs[d].breaks :
               Append(labelDescs[d].breaks, pos + 3)[k] = labelDescs[d].breaks[k]
         /\ Append(labelDescs[d].breaks, pos + 3)[Len(labelDescs[d].breaks) + 1] = pos + 3
    <3>1. IsSeq(labelDescs[d].breaks)
      BY DEF BInv, DescsPlaced
    <3> QED
      BY <3>1, SeqFacts, AppendFacts
  <2>12. Nested'
    <3> DEFINE none == <<>>
    <3>1. IsSeq(none) /\ Len(none) = 0 /\ Replace(none) /\ OneDeep(none) /\ \A i \in DOMAIN none : ~HasDepth(none[i])
      BY <1>2, Shallow DEF OneDeep
    <3> HIDE DEF none
    <3> QED
      BY <1>2, <2>1, <2>2, <2>8, <3>1, NestedStays DEF BInv, top
  <2>13. Encoders'
    <3>1. ASSUME NEW g \in 1 .. top, NEW e \in gens[g].ends
          PROVE  /\ e.at \in Nat /\ e.stmt \in 1 .. nStmts
                 /\ \A i \in DOMAIN todo' : OfIf(todo'[i]) => todo'[i].stmt # e.stmt
      BY <2>9 DEF BInv, Encoders, EndsPlaced, top
    <3>2. \A g \in 1 .. top : \A e, f \in gens[g].ends : e.stmt = f.stmt => e = f
      BY DEF BInv, Encoders, EndsPlaced, top
    <3>3. \A g \in 1 .. top : gens'[g].ends = gens[g].ends
      BY <2>2, <2>7, <2>8
    <3>4. \A g \in 1 .. top : IsEncoder(gens'[g]) /\ IsSeq(gens'[g].code)
      BY <2>7, <2>8 DEF BInv, Encoders, top
    <3>5. \A g \in 1 .. top : /\ \A c \in gens'[g].breaks : c.at \in 3 .. Len(gens'[g].code) /\ c.stmt \in 1 .. nStmts
                             /\ \A c, e \in gens'[g].breaks : c = e \/ Apart(c.at, e.at)
      BY <2>7, <2>8 DEF BInv, Encoders, BreaksPlaced, top
    <3> QED
      BY <1>2, <2>8, <3>1, <3>2, <3>3, <3>4, <3>5 DEF Encoders, BreaksPlaced, EndsPlaced
  <2>14. PastsPlaced'
    <3> SUFFICES ASSUME NEW i \in DOMAIN todo', HasPast(todo'[i])
                 PROVE  /\ todo'[i].past \in 3 .. Len(gens'[todo'[i].depth].code)
                        /\ \A c \in gens'[todo'[i].depth].breaks : Apart(c.at, todo'[i].past)
      BY DEF PastsPlaced
    <3> DEFINE g    == todo'[i].depth
               past == todo'[i].past
    <3>1. PICK j \in DOMAIN todo : todo'[i] = todo[j]
      BY <2>9
    <3>2. g \in 1 .. top
      BY <3>1 DEF BInv, Nested, DepthsExist, HasDepth, HasPast, OfIf, top
    <3>3. past \in 3 .. Len(gens[g].code) /\ \A c \in gens[g].breaks : Apart(c.at, past)
      BY <3>1 DEF BInv, PastsPlaced
    <3> HIDE DEF g, past
    <3>4. CASE g = top
      <4>1. \A n \in Nat : \A a \in 3 .. n : a \in 3 .. n + 3 /\ Apart(n + 3, a)
        BY DEF Apart
      <4>2. past \in 3 .. pos
        BY <2>2, <3>3, <3>4
      <4>3. past \in 3 .. pos + 3 /\ Apart(pos + 3, past)
        BY <2>2, <4>1, <4>2
      <4> QED
        BY <2>2, <2>3, <2>7, <2>8, <3>3, <3>4, <4>3 DEF g, past
    <3>5. CASE g # top
      BY <2>8, <3>2, <3>3, <3>5 DEF g, past
    <3> QED
      BY <3>4, <3>5
  <2>15. DescsPlaced'
    <3> SUFFICES ASSUME NEW c \in DOMAIN labelDescs
                 PROVE  /\ IsSeq(labelDescs'[c].breaks)
                        /\ \A i \in DOMAIN todo' :
                             OfIf(todo'[i]) /\ todo'[i].stmt = labelDescs'[c].stmt
                               => todo'[i].depth = labelDescs'[c].depth
      BY <2>10 DEF DescsPlaced
    <3>1. /\ IsSeq(labelDescs'[c].breaks)
          /\ labelDescs'[c].stmt = labelDescs[c].stmt /\ labelDescs'[c].depth = labelDescs[c].depth
      BY <2>10, <2>11 DEF BInv, DescsPlaced
    <3> QED
      BY <2>9, <3>1 DEF BInv, DescsPlaced
  <2>16. ASSUME ~crossed' PROVE DescsOwn' /\ BreaksKept' /\ AllLand'
    <3>1. DescsOwn /\ BreaksKept /\ AllLand /\ labelDescs[d].depth = top
      BY <1>2, <2>16 DEF BInv, top
    <3>2. \A g \in 1 .. top : \A c \in gens[g].breaks : c \in gens'[g].breaks
      BY <2>2, <2>7, <2>8
    <3>3. b \in gens'[top].breaks
      BY <2>7, <2>8
    <3>4. DescsOwn'
      <4> SUFFICES ASSUME NEW c \in DOMAIN labelDescs, NEW k \in DOMAIN labelDescs'[c].breaks
                   PROVE  \E x \in gens'[labelDescs'[c].depth].breaks :
                            x.at = labelDescs'[c].breaks[k] /\ x.stmt = labelDescs'[c].stmt
        BY <2>10 DEF DescsOwn
      <4>1. labelDescs[c].depth \in 1 .. top
        BY DEF IInv, Enclosed, BInv, DescsPlaced, Nested, DepthsExist, HasDepth, top
      <4>2. CASE k \in DOMAIN labelDescs[c].breaks
        <5>1. labelDescs'[c].breaks[k] = labelDescs[c].breaks[k]
          BY <2>10, <2>11, <4>2
        <5>2. labelDescs'[c].depth = labelDescs[c].depth /\ labelDescs'[c].stmt = labelDescs[c].stmt
          BY <2>10
        <5> QED
          BY <3>1, <3>2, <4>1, <4>2, <5>1, <5>2 DEF DescsOwn
      <4>3. CASE ~(k \in DOMAIN labelDescs[c].breaks)
        <5>1. c = d /\ labelDescs'[c].breaks[k] = pos + 3
          <6>1. c = d
            BY <2>10, <4>3
          <6>2. k \in 1 .. Len(labelDescs[d].breaks) + 1 /\ ~(k \in 1 .. Len(labelDescs[d].breaks))
            BY <2>10, <2>11, <4>3, <6>1
          <6>3. k = Len(labelDescs[d].breaks) + 1
            BY <2>11, <6>2
          <6> QED
            BY <2>10, <2>11, <6>1, <6>3
        <5> QED
          BY <2>3, <2>10, <3>1, <3>3, <5>1
      <4> QED
        BY <4>2, <4>3
    <3>5. BreaksKept'
      <4> SUFFICES ASSUME NEW g \in 1 .. top, NEW x \in gens'[g].breaks
                   PROVE  \/ \E e \in gens'[g].ends : e.stmt = x.stmt
                          \/ \E c \in DOMAIN labelDescs' :
                               /\ labelDescs'[c].stmt = x.stmt /\ labelDescs'[c].depth = g
                               /\ \E k \in DOMAIN labelDescs'[c].breaks : labelDescs'[c].breaks[k] = x.at
        BY <2>8 DEF BreaksKept, Ended, Pending
      <4>1. CASE x \in gens[g].breaks
        <5>1. CASE Ended(gens[g], x)
          BY <2>2, <2>7, <2>8, <5>1 DEF Ended
        <5>2. CASE Pending(g, x)
          <6>1. PICK c \in DOMAIN labelDescs :
                  /\ labelDescs[c].stmt = x.stmt /\ labelDescs[c].depth = g
                  /\ \E k \in DOMAIN labelDescs[c].breaks : labelDescs[c].breaks[k] = x.at
            BY <5>2 DEF Pending
          <6>2. PICK k \in DOMAIN labelDescs[c].breaks : labelDescs[c].breaks[k] = x.at
            BY <6>1
          <6>3. k \in DOMAIN labelDescs'[c].breaks /\ labelDescs'[c].breaks[k] = x.at
            BY <2>10, <2>11, <6>2
          <6> QED
            BY <2>10, <6>1, <6>3
        <5> QED
          BY <3>1, <4>1, <5>1, <5>2 DEF BreaksKept, top
      <4>2. CASE ~(x \in gens[g].breaks)
        <5>1. g = top /\ x = b
          BY <2>2, <2>7, <2>8, <4>2
        <5>2. Len(labelDescs[d].breaks) + 1 \in DOMAIN labelDescs'[d].breaks
          BY <2>10, <2>11
        <5>3. labelDescs'[d].breaks[Len(labelDescs[d].breaks) + 1] = x.at
          BY <2>3, <2>10, <2>11, <5>1
        <5> QED
          BY <2>3, <2>10, <3>1, <5>1, <5>2, <5>3
      <4> QED
        BY <4>1, <4>2
    <3>6. \A g \in 1 .. top : Lands(gens'[g])
      BY <2>2, <2>7, <2>8, <3>1 DEF AllLand, top
    <3>7. AllLand'
      BY <2>8, <3>6 DEF AllLand, Lands, OffsetsFit, Int16
    <3> QED
      BY <3>4, <3>5, <3>7
  <2> QED
    BY <2>12, <2>13, <2>14, <2>15, <2>16 DEF BInv
<1>3. (\E how \in {"error", "undefined"} : Stop(how)) =>
        UNCHANGED <<todo, gens, labelDescs, nStmts, crossed>> /\ status' # "compiling"
  BY DEF Stop
<1> QED
  BY <1>1, <1>2, <1>3, BreakMatches

-----------------------------------------------------------------------------
(***************************************************************************)
(* The end of a statement.                                                 *)
(***************************************************************************)
\* Jumps that are apart from each other are patched independently.
LEMMA BreaksPatchedCells ==
  ASSUME NEW code, IsSeq(code), NEW breaks, IsSeq(breaks)
  PROVE  LET new == BreaksPatched(code, breaks)
         IN  /\ IsSeq(new) /\ Len(new) = Len(code)
             /\ \A i \in 1 .. Len(code) :
                  (\A k \in DOMAIN breaks : i # breaks[k] /\ i # breaks[k] - 1) => new[i] = code[i]
             /\ \A at \in 3 .. Len(code) :
                  /\ \E k \in DOMAIN breaks : breaks[k] = at
                  /\ \A k \in DOMAIN breaks : breaks[k] \in Nat /\ (breaks[k] = at \/ Apart(breaks[k], at))
                  => new[at] = LowByte(Len(code) - at) /\ new[at - 1] = HighByte(Len(code) - at)
<1> DEFINE new        == BreaksPatched(code, breaks)
           Writers(i) == {k \in DOMAIN breaks : i \in {breaks[k] - 1, breaks[k]}}
           Final(i)   == CHOOSE k \in Writers(i) : \A j \in Writers(i) : j <= k
<1>1. /\ DOMAIN code = 1 .. Len(code) /\ Len(code) \in Nat
      /\ DOMAIN breaks = 1 .. Len(breaks) /\ Len(breaks) \in Nat
  BY SeqFacts
<1>2. new = [i \in 1 .. Len(code) |->
               IF Writers(i) = {} THEN code[i]
               ELSE ReplaceJumpTarget(code, breaks[Final(i)], Len(code))[i]]
  BY <1>1 DEF BreaksPatched
<1> HIDE DEF new, Final
<1>3. IsSeq(new) /\ Len(new) = Len(code)
  <2>1. Len(new) = Len(code) /\ new = [i \in 1 .. Len(code) |-> new[i]]
    BY <1>1, <1>2
  <2> QED
    BY <1>1, <2>1 DEF IsSeq
<1>4. ASSUME NEW i \in 1 .. Len(code), \A k \in DOMAIN breaks : i # breaks[k] /\ i # breaks[k] - 1
      PROVE  new[i] = code[i]
  BY <1>2, <1>4
<1> HIDE DEF Writers
<1>5. ASSUME NEW i, Writers(i) # {} PROVE Final(i) \in Writers(i)
  <2> DEFINE S == Writers(i)
  <2>1. S \subseteq 1 .. Len(breaks) /\ S # {}
    BY <1>1, <1>5 DEF Writers
  <2> HIDE DEF S
  <2>2. \E k \in S : \A j \in S : j <= k
    BY <1>1, <2>1, Greatest
  <2>3. (CHOOSE k \in S : \A j \in S : j <= k) \in S
    BY <2>2
  <2> QED
    BY <2>3 DEF S, Final
<1>6. ASSUME NEW at \in 3 .. Len(code),
             \E k \in DOMAIN breaks : breaks[k] = at,
             \A k \in DOMAIN breaks : breaks[k] \in Nat /\ (breaks[k] = at \/ Apart(breaks[k], at))
      PROVE  new[at] = LowByte(Len(code) - at) /\ new[at - 1] = HighByte(Len(code) - at)
  <2>1. /\ at \in 1 .. Len(code) /\ at - 1 \in 1 .. Len(code) /\ at # at - 1
        /\ \A a \in Nat : at \in {a - 1, a} /\ (a = at \/ Apart(a, at)) => a = at
        /\ \A a \in Nat : at - 1 \in {a - 1, a} /\ (a = at \/ Apart(a, at)) => a = at
    BY <1>1 DEF Apart
  <2>2. Writers(at) # {} /\ Writers(at - 1) # {}
    BY <1>6 DEF Writers
  <2>3. Final(at) \in Writers(at) /\ Final(at - 1) \in Writers(at - 1)
    BY <1>5, <2>2
  <2>4. breaks[Final(at)] = at /\ breaks[Final(at - 1)] = at
    BY <1>6, <2>1, <2>3 DEF Writers
  <2>5. /\ new[at] = ReplaceJumpTarget(code, at, Len(code))[at]
        /\ new[at - 1] = ReplaceJumpTarget(code, at, Len(code))[at - 1]
    BY <1>2, <2>1, <2>2, <2>4
  <2>6. /\ ReplaceJumpTarget(code, at, Len(code))[at] = LowByte(Len(code) - at)
        /\ ReplaceJumpTarget(code, at, Len(code))[at - 1] = HighByte(Len(code) - at)
    BY <1>1, <2>1 DEF ReplaceJumpTarget
  <2> QED
    BY <2>5, <2>6
<1> QED
  BY <1>3, <1>4, <1>6 DEF new

\* A descriptor of the statement that ends is the one at the back.
LEMMA OwnDescIsLast ==
  ASSUME IInv, todo # <<>>, OfIf(Head(todo)),
         NEW d \in DOMAIN labelDescs, labelDescs[d].stmt = Head(todo).stmt
  PROVE  labelDescs # <<>> /\ d = Len(labelDescs) /\ Last(labelDescs) = labelDescs[d]
<1>1. IsSeq(labelDescs) /\ Len(labelDescs) \in Nat /\ DOMAIN labelDescs = 1 .. Len(labelDescs)
  BY SeqFacts DEF IInv
<1>2. 1 \in DOMAIN todo /\ Head(todo) = todo[1] /\ \A i \in DOMAIN todo : i \in Nat /\ i >= 1
  <2> DEFINE S == {todo[i] : i \in DOMAIN todo}
  <2>1. todo \in Seq(S)
    BY SeqFacts DEF IInv
  <2> HIDE DEF S
  <2>2. Len(todo) \in Nat \ {0} /\ DOMAIN todo = 1 .. Len(todo) /\ Head(todo) = todo[1]
    BY <2>1
  <2> QED
    BY <2>2
<1>3. d = Len(labelDescs)
  <2> SUFFICES ASSUME d # Len(labelDescs) PROVE FALSE
    OBVIOUS
  <2>1. Len(labelDescs) \in DOMAIN labelDescs /\ d < Len(labelDescs)
    BY <1>1
  <2>2. PICK j \in DOMAIN todo : OfIf(todo[j]) /\ todo[j].stmt = labelDescs[Len(labelDescs)].stmt
    BY <2>1 DEF IInv, Enclosed
  <2>3. j < 1
    BY <1>2, <2>1, <2>2 DEF IInv, Ordered
  <2> QED
    BY <1>2, <2>3
<1>4. labelDescs # <<>>
  BY <1>1
<1> QED
  BY <1>1, <1>3, <1>4, FrontFacts

\* A pending break of the statement that ends is among those that are patched, and all
\* of them are breaks of the encoder on top, of this statement.
LEMMA PatchedAreOwn ==
  ASSUME IInv, BInv, ~crossed, todo # <<>>, OfIf(Head(todo)), labelDescs # <<>>,
         Last(labelDescs).stmt = Head(todo).stmt
  PROVE  \A k \in DOMAIN Last(labelDescs).breaks :
           \E b \in gens[Len(gens)].breaks :
             b.at = Last(labelDescs).breaks[k] /\ b.stmt = Head(todo).stmt
<1>1. Len(labelDescs) \in DOMAIN labelDescs /\ Last(labelDescs) = labelDescs[Len(labelDescs)]
  BY FrontFacts DEF IInv
<1>2. Head(todo).depth = Len(gens)
  BY HeadDepth DEF BInv, IInv, HasDepth
<1>3. 1 \in DOMAIN todo /\ Head(todo) = todo[1]
  <2> DEFINE S == {todo[i] : i \in DOMAIN todo}
  <2>1. todo \in Seq(S)
    BY SeqFacts DEF IInv
  <2> HIDE DEF S
  <2>2. Len(todo) \in Nat \ {0} /\ DOMAIN todo = 1 .. Len(todo) /\ Head(todo) = todo[1]
    BY <2>1
  <2> QED
    BY <2>2
<1>4. labelDescs[Len(labelDescs)].depth = Len(gens)
  BY <1>1, <1>2, <1>3 DEF BInv, DescsPlaced
<1> QED
  BY <1>1, <1>4 DEF BInv, DescsOwn

LEMMA EndIfKeepsBInv == ASSUME IInv, BInv, EndIf, status' = status PROVE BInv'
<1> DEFINE stmt   == Head(todo).stmt
           past   == Head(todo).past
           top    == Len(gens)
           mine   == labelDescs # <<>> /\ Last(labelDescs).stmt = stmt
           breaks == IF mine THEN Last(labelDescs).breaks ELSE <<>>
           first  == ReplaceJumpTarget(coder.code, past, pos)
           code   == BreaksPatched(first, breaks)
           end    == [stmt |-> stmt, at |-> pos]
           gen    == [coder EXCEPT !.code = code, !.ends = @ \union {end}]
<1>1. /\ SetCoder(gen) /\ labelDescs' = DescPopped(stmt) /\ Replace(<<>>)
      /\ UNCHANGED <<nStmts, crossed>>
      /\ todo # <<>> /\ Head(todo).k = "EndIf" /\ status = "compiling"
  <2>1. status = "compiling" /\ todo # <<>> /\ Head(todo).k = "EndIf"
    BY DEF EndIf, Doing
  <2>2. ~Stop("undefined")
    BY <2>1 DEF Stop
  <2> QED
    BY <2>1, <2>2 DEF EndIf
<1>2. OfIf(Head(todo)) /\ HasPast(Head(todo)) /\ HasDepth(Head(todo)) /\ ~OfFunction(Head(todo))
  BY <1>1 DEF OfIf, HasPast, HasDepth, OfFunction
<1>3. /\ IsPlaced(coder) /\ coder = gens[top] /\ pos = Len(coder.code) /\ pos \in Nat
      /\ top \in 1 .. top /\ top \in Nat /\ top > 0 /\ IsSeq(gens) /\ DOMAIN gens = 1 .. top
  BY <1>1, CoderPlaced, SeqFacts DEF BInv, Nested, pos
<1>4. Head(todo).depth = top /\ IsSeq(todo)
  BY <1>1, <1>2, HeadDepth DEF BInv, IInv
<1>5. /\ 1 \in DOMAIN todo /\ Head(todo) = todo[1]
      /\ \A i \in DOMAIN todo' :
           i \in Nat /\ i >= 1 /\ i + 1 \in DOMAIN todo /\ todo'[i] = todo[i + 1]
  BY <1>1, <1>4, DoneItems
\* The rest of todo is of other statements.
<1>6. /\ \A i \in DOMAIN todo' : \E j \in DOMAIN todo : todo'[i] = todo[j]
      /\ \A i \in DOMAIN todo' : OfIf(todo'[i]) => todo'[i].stmt # stmt
  <2>1. \A i \in DOMAIN todo' : i + 1 # 1
    BY <1>5
  <2> QED
    BY <1>2, <1>5, <2>1 DEF IInv, Distinct
<1>7. stmt \in 1 .. nStmts /\ \A g \in 1 .. top : \A e \in gens[g].ends : e.stmt # stmt
  BY <1>2, <1>5 DEF IInv, Entered, BInv, Encoders, EndsPlaced
<1>8. past \in 3 .. pos /\ \A b \in coder.breaks : Apart(b.at, past)
  BY <1>2, <1>3, <1>4, <1>5 DEF BInv, PastsPlaced
<1>9. end.stmt = stmt /\ end.at = pos
  OBVIOUS
<1> HIDE DEF stmt, past, end
<1>10. \A d \in DOMAIN labelDescs :
         labelDescs[d].stmt = stmt => mine /\ d = Len(labelDescs) /\ Last(labelDescs) = labelDescs[d]
  BY <1>1, <1>2, OwnDescIsLast DEF stmt
<1>11. /\ \A d \in DOMAIN labelDescs' : d \in DOMAIN labelDescs /\ labelDescs'[d] = labelDescs[d]
       /\ \A d \in DOMAIN labelDescs :
            labelDescs[d].stmt # stmt => d \in DOMAIN labelDescs' /\ labelDescs'[d] = labelDescs[d]
  <2>1. IsSeq(labelDescs) /\ Len(labelDescs) \in Nat /\ DOMAIN labelDescs = 1 .. Len(labelDescs)
    BY SeqFacts DEF IInv
  <2>2. CASE mine
    <3>1. /\ labelDescs' = Front(labelDescs) /\ DOMAIN Front(labelDescs) = 1 .. Len(labelDescs) - 1
          /\ \A i \in 1 .. Len(labelDescs) - 1 : Front(labelDescs)[i] = labelDescs[i]
          /\ Last(labelDescs) = labelDescs[Len(labelDescs)]
      BY <1>1, <2>1, <2>2, FrontFacts DEF DescPopped
    <3>2. \A n \in Nat : /\ \A d \in 1 .. n - 1 : d \in 1 .. n
                        /\ \A d \in 1 .. n : d = n \/ d \in 1 .. n - 1
      OBVIOUS
    <3>3. \A d \in 1 .. Len(labelDescs) - 1 : d \in DOMAIN labelDescs
      BY <2>1, <3>2
    <3>4. \A d \in DOMAIN labelDescs : labelDescs[d].stmt # stmt => d \in 1 .. Len(labelDescs) - 1
      BY <2>1, <2>2, <3>1, <3>2
    <3> QED
      BY <3>1, <3>3, <3>4
  <2>3. CASE ~mine
    BY <1>1, <2>3 DEF DescPopped
  <2> QED
    BY <2>2, <2>3
<1>12. IsSeq(breaks)
  <2>1. CASE mine
    <3>1. Len(labelDescs) \in DOMAIN labelDescs /\ Last(labelDescs) = labelDescs[Len(labelDescs)]
      BY <2>1, FrontFacts DEF IInv
    <3> QED
      BY <2>1, <3>1 DEF BInv, DescsPlaced
  <2>2. CASE ~mine
    BY <2>2, Shallow
  <2> QED
    BY <2>1, <2>2
<1>13. /\ IsSeq(first) /\ Len(first) = pos
       /\ \A i \in 1 .. pos : i # past /\ i # past - 1 => first[i] = coder.code[i]
  BY <1>3, PatchedCells DEF IsPlaced
<1>14. ~crossed => \A k \in DOMAIN breaks :
                     \E b \in coder.breaks : b.at = breaks[k] /\ b.stmt = stmt
  <2>1. CASE mine
    BY <1>1, <1>2, <1>3, <2>1, PatchedAreOwn DEF stmt
  <2>2. CASE ~mine
    BY <2>2
  <2> QED
    BY <2>1, <2>2
<1> HIDE DEF first, breaks
<1>15. /\ IsSeq(code) /\ Len(code) = pos
       /\ \A i \in 1 .. pos : (\A k \in DOMAIN breaks : i # breaks[k] /\ i # breaks[k] - 1) => code[i] = first[i]
       /\ \A at \in 3 .. pos :
            /\ \E k \in DOMAIN breaks : breaks[k] = at
            /\ \A k \in DOMAIN breaks : breaks[k] \in Nat /\ (breaks[k] = at \/ Apart(breaks[k], at))
            => code[at] = LowByte(pos - at) /\ code[at - 1] = HighByte(pos - at)
  <2>1. \A p : Len(first) = p =>
       /\ IsSeq(code) /\ Len(code) = p
       /\ \A i \in 1 .. p : (\A k \in DOMAIN breaks : i # breaks[k] /\ i # breaks[k] - 1) => code[i] = first[i]
       /\ \A at \in 3 .. p :
            /\ \E k \in DOMAIN breaks : breaks[k] = at
            /\ \A k \in DOMAIN breaks : breaks[k] \in Nat /\ (breaks[k] = at \/ Apart(breaks[k], at))
            => code[at] = LowByte(p - at) /\ code[at - 1] = HighByte(p - at)
    BY <1>12, <1>13, BreaksPatchedCells
  <2> QED
    BY <1>13, <2>1
<1> HIDE DEF code
<1>16. /\ IsEncoder(gen) /\ gen.code = code /\ gen.breaks = coder.breaks
       /\ gen.ends = coder.ends \union {end}
  <2>1. DOMAIN coder = {"code", "literals", "decls", "breaks", "ends"}
    BY <1>3 DEF IsPlaced, IsEncoder
  <2>2. gen = [f \in DOMAIN coder |-> IF f = "code" THEN code
                                     ELSE IF f = "ends" THEN coder.ends \union {end} ELSE coder[f]]
    OBVIOUS
  <2> HIDE DEF gen
  <2> QED
    BY <2>1, <2>2 DEF IsEncoder
<1>17. gens' = [g \in 1 .. top |-> IF g = top THEN gen ELSE gens[g]]
  BY <1>1, <1>3 DEF SetCoder
<1> HIDE DEF gen, top, mine
<1>18. /\ IsSeq(gens') /\ Len(gens') = top /\ gens'[top] = gen
       /\ \A g \in 1 .. top : g # top => gens'[g] = gens[g]
  <2>1. Len(gens') = top
    BY <1>3, <1>17
  <2> QED
    BY <1>3, <1>17, <2>1 DEF IsSeq
<1>19. \A g \in 1 .. top :
         /\ gens'[g].breaks = gens[g].breaks /\ Len(gens'[g].code) = Len(gens[g].code)
         /\ IsEncoder(gens'[g]) /\ IsSeq(gens'[g].code)
         /\ \A e \in gens[g].ends : e \in gens'[g].ends
         /\ \A e \in gens'[g].ends : e \in gens[g].ends \/ (g = top /\ e = end)
  BY <1>3, <1>15, <1>16, <1>18 DEF BInv, Encoders, top
<1>20. Nested'
  <2> DEFINE none == <<>>
  <2>1. IsSeq(none) /\ Len(none) = 0 /\ Replace(none) /\ OneDeep(none) /\ \A i \in DOMAIN none : ~HasDepth(none[i])
    BY <1>1, Shallow DEF OneDeep
  <2> HIDE DEF none
  <2> QED
    BY <1>1, <1>2, <1>3, <1>4, <1>18, <2>1, NestedStays DEF BInv, top
<1>21. Encoders'
  <2>1. \A g \in 1 .. top :
          /\ \A b \in gens'[g].breaks : b.at \in 3 .. Len(gens'[g].code) /\ b.stmt \in 1 .. nStmts
          /\ \A b, c \in gens'[g].breaks : b = c \/ Apart(b.at, c.at)
    BY <1>19 DEF BInv, Encoders, BreaksPlaced, top
  <2>2. ASSUME NEW g \in 1 .. top, NEW e \in gens'[g].ends
        PROVE  /\ e.at \in Nat /\ e.stmt \in 1 .. nStmts
               /\ \A i \in DOMAIN todo' : OfIf(todo'[i]) => todo'[i].stmt # e.stmt
    <3>1. CASE e \in gens[g].ends
      <4>1. /\ e.at \in Nat /\ e.stmt \in 1 .. nStmts
            /\ \A i \in DOMAIN todo : OfIf(todo[i]) => todo[i].stmt # e.stmt
        BY <3>1 DEF BInv, Encoders, EndsPlaced, top
      <4> QED
        BY <1>6, <4>1
    <3>2. CASE e = end
      BY <1>3, <1>6, <1>7, <1>9, <3>2
    <3> QED
      BY <1>19, <3>1, <3>2
  <2>3. ASSUME NEW g \in 1 .. top, NEW e \in gens'[g].ends, NEW f \in gens'[g].ends, e.stmt = f.stmt
        PROVE  e = f
    <3>1. \A x \in gens[g].ends : x.stmt # stmt
      BY <1>7 DEF top
    <3>2. e \in gens[g].ends /\ f \in gens[g].ends => e = f
      BY <2>3 DEF BInv, Encoders, EndsPlaced, top
    <3> QED
      BY <1>9, <1>19, <2>3, <3>1, <3>2
  <2> QED
    BY <1>1, <1>18, <1>19, <2>1, <2>2, <2>3 DEF Encoders, BreaksPlaced, EndsPlaced
<1>22. PastsPlaced'
  <2> SUFFICES ASSUME NEW i \in DOMAIN todo', HasPast(todo'[i])
               PROVE  /\ todo'[i].past \in 3 .. Len(gens'[todo'[i].depth].code)
                      /\ \A b \in gens'[todo'[i].depth].breaks : Apart(b.at, todo'[i].past)
    BY DEF PastsPlaced
  <2>1. PICK j \in DOMAIN todo : todo'[i] = todo[j]
    BY <1>6
  <2>2. todo[j].depth \in 1 .. top
    BY <2>1 DEF BInv, Nested, DepthsExist, HasDepth, HasPast, OfIf, top
  <2> QED
    BY <1>19, <2>1, <2>2 DEF BInv, PastsPlaced
<1>23. DescsPlaced'
  BY <1>6, <1>11 DEF BInv, DescsPlaced
<1>24. ASSUME ~crossed' PROVE DescsOwn' /\ BreaksKept' /\ AllLand'
  <2>1. ~crossed /\ DescsOwn /\ BreaksKept /\ AllLand
    BY <1>1, <1>24 DEF BInv
  <2>2. DescsOwn'
    <3> SUFFICES ASSUME NEW d \in DOMAIN labelDescs', NEW k \in DOMAIN labelDescs'[d].breaks
                 PROVE  \E b \in gens'[labelDescs'[d].depth].breaks :
                          b.at = labelDescs'[d].breaks[k] /\ b.stmt = labelDescs'[d].stmt
      BY DEF DescsOwn
    <3>1. d \in DOMAIN labelDescs /\ labelDescs'[d] = labelDescs[d]
      BY <1>11
    <3>2. labelDescs[d].depth \in 1 .. top
      BY <3>1 DEF IInv, Enclosed, BInv, DescsPlaced, Nested, DepthsExist, HasDepth, top
    <3> QED
      BY <1>19, <2>1, <3>1, <3>2 DEF DescsOwn
  <2>3. BreaksKept'
    <3> SUFFICES ASSUME NEW g \in 1 .. top, NEW b \in gens'[g].breaks
                 PROVE  \/ \E e \in gens'[g].ends : e.stmt = b.stmt
                        \/ \E d \in DOMAIN labelDescs' :
                             /\ labelDescs'[d].stmt = b.stmt /\ labelDescs'[d].depth = g
                             /\ \E k \in DOMAIN labelDescs'[d].breaks : labelDescs'[d].breaks[k] = b.at
      BY <1>18 DEF BreaksKept, Ended, Pending
    <3>1. Ended(gens[g], b) \/ Pending(g, b)
      BY <1>19, <2>1 DEF BreaksKept, top
    <3>2. CASE Ended(gens[g], b)
      BY <1>19, <3>2 DEF Ended
    <3>3. CASE Pending(g, b)
      <4>1. PICK d \in DOMAIN labelDescs :
              /\ labelDescs[d].stmt = b.stmt /\ labelDescs[d].depth = g
              /\ \E k \in DOMAIN labelDescs[d].breaks : labelDescs[d].breaks[k] = b.at
        BY <3>3 DEF Pending
      <4>2. CASE labelDescs[d].stmt # stmt
        BY <1>11, <4>1, <4>2
      <4>3. CASE labelDescs[d].stmt = stmt
        <5>1. labelDescs[d].depth = top
          BY <1>2, <1>4, <1>5, <4>3 DEF BInv, DescsPlaced, stmt
        <5>2. end \in gens'[g].ends /\ end.stmt = b.stmt
          BY <1>9, <1>16, <1>18, <4>1, <4>3, <5>1
        <5> QED
          BY <5>2
      <4> QED
        BY <4>2, <4>3
    <3> QED
      BY <3>1, <3>2, <3>3
  <2>4. Lands(gen)
    <3> SUFFICES ASSUME OffsetsFit(code), NEW b \in coder.breaks, NEW e \in coder.ends \union {end},
                        b.stmt = e.stmt
                 PROVE  b.at + Int16(code[b.at - 1], code[b.at]) = e.at
      BY <1>16 DEF Lands
    <3>1. b.at \in 3 .. pos /\ b.at \in 1 .. pos /\ b.at - 1 \in 1 .. pos
      <4>1. \A n \in Nat : \A a \in 3 .. n : a \in 1 .. n /\ a - 1 \in 1 .. n
        OBVIOUS
      <4>2. b.at \in 3 .. pos
        BY <1>3 DEF IsPlaced
      <4> QED
        BY <1>3, <4>1, <4>2
    <3>2. \A c \in coder.breaks : c.at \in Nat /\ (c = b \/ Apart(c.at, b.at))
      BY <1>3 DEF BInv, Encoders, BreaksPlaced, top
    <3>3. \A k \in DOMAIN breaks : \E c \in coder.breaks : c.at = breaks[k] /\ c.stmt = stmt
      BY <1>14, <2>1
    <3>4. CASE e \in coder.ends
      <4>1. b.stmt # stmt
        BY <1>3, <1>7, <3>4
      <4>2. \A k \in DOMAIN breaks : breaks[k] \in Nat /\ Apart(breaks[k], b.at)
        BY <3>2, <3>3, <4>1
      <4>3. \A a, c \in Nat : Apart(a, c) => c # a /\ c # a - 1 /\ c - 1 # a /\ c - 1 # a - 1
        BY DEF Apart
      <4>4. b.at \in Nat /\ past \in Nat
        BY <1>3, <1>8, <3>1
      <4>5. code[b.at] = first[b.at] /\ code[b.at - 1] = first[b.at - 1]
        BY <1>15, <3>1, <4>2, <4>3, <4>4
      <4>6. Apart(past, b.at)
        BY <1>8, <4>4 DEF Apart
      <4>7. first[b.at] = coder.code[b.at] /\ first[b.at - 1] = coder.code[b.at - 1]
        BY <1>13, <3>1, <4>3, <4>4, <4>6
      <4>8. Lands(coder) /\ OffsetsFit(coder.code)
        BY <1>3, <1>15, <2>1 DEF AllLand, OffsetsFit, top
      <4> QED
        BY <3>4, <4>5, <4>7, <4>8 DEF Lands
    <3>5. CASE e = end
      <4>1. b.stmt = stmt /\ e.at = pos
        BY <1>9, <3>5
      <4>2. Pending(top, b)
        BY <1>3, <1>7, <2>1, <4>1 DEF BreaksKept, Ended, top
      <4>3. PICK d \in DOMAIN labelDescs :
              /\ labelDescs[d].stmt = b.stmt
              /\ \E k \in DOMAIN labelDescs[d].breaks : labelDescs[d].breaks[k] = b.at
        BY <4>2 DEF Pending
      <4>4. \E k \in DOMAIN breaks : breaks[k] = b.at
        BY <1>10, <4>1, <4>3 DEF breaks
      <4>5. \A k \in DOMAIN breaks : breaks[k] \in Nat /\ (breaks[k] = b.at \/ Apart(breaks[k], b.at))
        BY <3>2, <3>3
      <4>6. code[b.at] = LowByte(pos - b.at) /\ code[b.at - 1] = HighByte(pos - b.at)
        BY <1>15, <3>1, <4>4, <4>5
      <4>7. pos - b.at \in Nat /\ 2 * (pos - b.at) < ByteSize * ByteSize
        <5>1. 2 * pos < ByteSize * ByteSize
          BY <1>15 DEF OffsetsFit
        <5>2. \A n, s \in Nat : \A a \in 3 .. n : 2 * n < s => n - a \in Nat /\ 2 * (n - a) < s
          OBVIOUS
        <5>3. ByteSize * ByteSize \in Nat
          BY ByteSizeAssumption
        <5> QED
          BY <1>3, <3>1, <5>1, <5>2, <5>3
      <4>8. Int16(code[b.at - 1], code[b.at]) = pos - b.at
        BY <4>6, <4>7, OffsetReadsBack
      <4> QED
        BY <1>3, <3>1, <4>1, <4>8
    <3> QED
      BY <3>4, <3>5
  <2>5. \A g \in 1 .. top : Lands(gens'[g])
    BY <1>18, <2>1, <2>4 DEF AllLand, top
  <2>6. AllLand'
    BY <1>18, <2>5 DEF AllLand, Lands, OffsetsFit, Int16
  <2> QED
    BY <2>2, <2>3, <2>6
<1> QED
  BY <1>20, <1>21, <1>22, <1>23, <1>24 DEF BInv

-----------------------------------------------------------------------------
(***************************************************************************)
(* Functions.                                                              *)
(***************************************************************************)
LEMMA NewEncoderFacts ==
  ASSUME NEW formals
  PROVE  LET gen == NewEncoder(formals)
         IN  IsEncoder(gen) /\ IsSeq(gen.code) /\ gen.breaks = {} /\ gen.ends = {}
BY DEF NewEncoder, IsEncoder, IsSeq

LEMMA BodyItems ==
  ASSUME NEW a, NEW b, NEW x
  PROVE  LET items == <<a, b>> \o <<x>>
         IN  items \in Seq({a, b, x}) /\ Len(items) = 3 /\ items[1] = a /\ items[2] = b /\ items[3] = x
<1> DEFINE S == {a, b, x}
           s == <<a, b>>
           t == <<x>>
           items == s \o t
<1>1. s \in Seq(S) /\ t \in Seq(S)
  OBVIOUS
<1>2. Len(s) = 2 /\ Len(t) = 1
  OBVIOUS
<1>3. s[1] = a /\ s[2] = b /\ t[1] = x
  OBVIOUS
<1> HIDE DEF S, s, t
<1>4. items \in Seq(S)
  BY <1>1
<1>5. Len(items) = Len(s) + Len(t)
  BY <1>1
<1>6. Len(items) = 3
  BY <1>2, <1>5
<1>7. \A i \in 1 .. Len(s) : items[i] = s[i]
  BY <1>1
<1>8. \A i \in Len(s) + 1 .. Len(s) + Len(t) : items[i] = t[i - Len(s)]
  BY <1>1
<1> HIDE DEF items
<1>9. items[1] = s[1] /\ items[2] = s[2]
  <2>1. 1 \in 1 .. Len(s) /\ 2 \in 1 .. Len(s)
    BY <1>2
  <2> QED
    BY <1>7, <2>1
<1>10. items[3] = t[1]
  <2>1. 3 \in Len(s) + 1 .. Len(s) + Len(t) /\ 3 - Len(s) = 1
    BY <1>2
  <2> QED
    BY <1>8, <2>1
<1> QED
  BY <1>3, <1>4, <1>6, <1>9, <1>10 DEF S, s, t, items

LEMMA VisitFunExprKeepsBInv == ASSUME IInv, BInv, VisitFunExpr PROVE BInv'
<1> DEFINE top == Len(gens)
<1>1. /\ todo # <<>> /\ ~HasDepth(Head(todo)) /\ status = "compiling"
      /\ UNCHANGED <<labelDescs, nStmts, status, crossed>>
  BY DEF VisitFunExpr, AtExpr, Doing, HasDepth, OfIf, OfFunction
<1>2. PICK formals : gens' = Append(gens, NewEncoder(formals))
  BY DEF VisitFunExpr
<1>3. PICK body \in {<<Item("Expr"), Item("Return")>>, <<Item("StmtListItem"), Item("More")>>} :
        Replace(body \o <<Exit(top + 1)>>)
  BY DEF VisitFunExpr
<1> DEFINE gen   == NewEncoder(formals)
           items == body \o <<Exit(top + 1)>>
<1>4. IsEncoder(gen) /\ IsSeq(gen.code) /\ gen.breaks = {} /\ gen.ends = {}
  BY NewEncoderFacts
<1>5. IsSeq(gens) /\ IsSeq(todo)
  BY DEF BInv, Nested, IInv
<1>6. OfFunction(Exit(top + 1)) /\ Exit(top + 1).depth = top + 1
  BY DEF OfFunction, Exit
<1>7. /\ IsSeq(items) /\ Len(items) = 3 /\ DOMAIN items = 1 .. 3
      /\ ~HasDepth(items[1]) /\ ~HasDepth(items[2])
      /\ OfFunction(items[3]) /\ items[3].depth = top + 1
  <2> DEFINE a == IF body = <<Item("Expr"), Item("Return")>> THEN Item("Expr") ELSE Item("StmtListItem")
             b == IF body = <<Item("Expr"), Item("Return")>> THEN Item("Return") ELSE Item("More")
             x == Exit(top + 1)
  <2>1. ~HasDepth(a) /\ ~HasDepth(b)
    BY ShallowItems
  <2>2. body = <<a, b>>
    BY <1>3
  <2>3. items = <<a, b>> \o <<x>>
    BY <2>2
  <2> HIDE DEF a, b, x, items
  <2>4. items \in Seq({a, b, x}) /\ Len(items) = 3 /\ items[1] = a /\ items[2] = b /\ items[3] = x
    BY <2>3, BodyItems
  <2>6. Len(items) = 3 /\ items[1] = a /\ items[2] = b /\ items[3] = x
    BY <2>4
  <2>7. IsSeq(items) /\ DOMAIN items = 1 .. 3
    BY <2>4, SeqIsSeq
  <2> QED
    BY <1>6, <2>1, <2>6, <2>7 DEF x
<1> HIDE DEF items, gen, top
<1>8. Replace(items) /\ gens' = Append(gens, gen)
  BY <1>2, <1>3 DEF items, gen
<1>9. /\ IsSeq(gens') /\ Len(gens') = top + 1 /\ top \in Nat /\ gens'[top + 1] = gen
      /\ \A g \in 1 .. top : gens'[g] = gens[g]
      /\ \A g \in 1 .. top + 1 : g = top + 1 \/ g \in 1 .. top
  <2>1. /\ IsSeq(gens') /\ DOMAIN gens' = 1 .. top + 1 /\ \A g \in DOMAIN gens : gens'[g] = gens[g]
        /\ gens'[top + 1] = gen /\ top \in Nat /\ DOMAIN gens = 1 .. top
    BY <1>5, <1>8, AppendFacts, SeqFacts DEF top
  <2>2. DOMAIN gens' = 1 .. Len(gens') /\ Len(gens') \in Nat
    BY <2>1, SeqFacts
  <2>3. \A m, n \in Nat : 1 .. m = 1 .. n + 1 => m = n + 1
    <3> SUFFICES ASSUME NEW m \in Nat, NEW n \in Nat, 1 .. m = 1 .. n + 1 PROVE m = n + 1
      OBVIOUS
    <3>1. n + 1 \in 1 .. m
      OBVIOUS
    <3>2. m \in 1 .. m
      BY <3>1
    <3>3. m \in 1 .. n + 1
      BY <3>2
    <3> QED
      BY <3>1, <3>3
  <2>4. Len(gens') = top + 1
    BY <2>1, <2>2, <2>3
  <2>5. \A g \in 1 .. top + 1 : g = top + 1 \/ g \in 1 .. top
    BY <2>1
  <2> QED
    BY <2>1, <2>4, <2>5
<1>10. \A i \in DOMAIN items : i = 1 \/ i = 2 \/ i = 3
  BY <1>7
<1>11. OneDeep(items)
  BY <1>7, <1>10 DEF OneDeep
<1>12. /\ \A i \in DOMAIN todo' : OfIf(todo'[i]) => \E j \in DOMAIN todo : todo'[i] = todo[j]
       /\ \A i \in DOMAIN todo' : HasPast(todo'[i]) => \E j \in DOMAIN todo : todo'[i] = todo[j]
  <2>1. \A i \in DOMAIN todo' : HasDepth(todo'[i]) => todo'[i] = items[3] \/ \E j \in DOMAIN todo : todo'[i] = todo[j]
    <3> DEFINE n == Len(items)
    <3>1. \A i \in DOMAIN todo' : HasDepth(todo'[i]) =>
            \/ n # 0 /\ i = n /\ todo'[i] = items[n]
            \/ i > n /\ (i - n) + 1 \in DOMAIN todo /\ (i - n) + 1 # 1 /\ todo'[i] = todo[(i - n) + 1]
      BY <1>1, <1>5, <1>7, <1>8, <1>11, DeepItems
    <3>2. n = 3
      BY <1>7
    <3> HIDE DEF n
    <3> QED
      BY <3>1, <3>2
  <2>2. ~OfIf(items[3]) /\ ~HasPast(items[3])
    BY <1>7 DEF OfIf, HasPast, OfFunction
  <2> QED
    BY <2>1, <2>2 DEF HasDepth, OfIf, HasPast
<1>13. Nested'
  <2>1. Len(items) # 0 /\ OfFunction(items[Len(items)]) /\ items[Len(items)].depth = Len(gens) + 1
    BY <1>7 DEF top
  <2>2. IsSeq(gens') /\ Len(gens') = Len(gens) + 1 /\ Nested
    BY <1>9 DEF BInv, top
  <2> QED
    BY <1>1, <1>5, <1>7, <1>8, <1>11, <2>1, <2>2, NestedEnters
<1>14. Encoders'
  <2>1. \A g \in 1 .. top :
          /\ IsEncoder(gens'[g]) /\ IsSeq(gens'[g].code) /\ BreaksPlaced(gens[g])
          /\ \A e \in gens'[g].ends :
               /\ e.at \in Nat /\ e.stmt \in 1 .. nStmts
               /\ \A i \in DOMAIN todo' : OfIf(todo'[i]) => todo'[i].stmt # e.stmt
          /\ \A e, f \in gens'[g].ends : e.stmt = f.stmt => e = f
    BY <1>9, <1>12 DEF BInv, Encoders, EndsPlaced, top
  <2>2. \A g \in 1 .. top + 1 :
          /\ \A b \in gens'[g].breaks : b.at \in 3 .. Len(gens'[g].code) /\ b.stmt \in 1 .. nStmts
          /\ \A b, c \in gens'[g].breaks : b = c \/ Apart(b.at, c.at)
    BY <1>4, <1>9, <2>1 DEF BreaksPlaced
  <2> QED
    BY <1>1, <1>4, <1>9, <2>1, <2>2 DEF Encoders, BreaksPlaced, EndsPlaced
<1>15. PastsPlaced'
  <2> SUFFICES ASSUME NEW i \in DOMAIN todo', HasPast(todo'[i])
               PROVE  /\ todo'[i].past \in 3 .. Len(gens'[todo'[i].depth].code)
                      /\ \A b \in gens'[todo'[i].depth].breaks : Apart(b.at, todo'[i].past)
    BY DEF PastsPlaced
  <2>1. PICK j \in DOMAIN todo : todo'[i] = todo[j]
    BY <1>12
  <2>2. todo[j].depth \in 1 .. top
    BY <2>1 DEF BInv, Nested, DepthsExist, HasDepth, HasPast, OfIf, top
  <2> QED
    BY <1>9, <2>1, <2>2 DEF BInv, PastsPlaced
<1>16. DescsPlaced'
  BY <1>1, <1>12 DEF BInv, DescsPlaced
<1>17. ASSUME ~crossed' PROVE DescsOwn' /\ BreaksKept' /\ AllLand'
  <2>1. DescsOwn /\ BreaksKept /\ AllLand
    BY <1>1, <1>17 DEF BInv
  <2>2. \A d \in DOMAIN labelDescs : labelDescs[d].depth \in 1 .. top
    BY DEF IInv, Enclosed, BInv, DescsPlaced, Nested, DepthsExist, HasDepth, top
  <2>3. DescsOwn'
    BY <1>1, <1>9, <2>1, <2>2 DEF DescsOwn
  <2>4. BreaksKept'
    BY <1>1, <1>4, <1>9, <2>1 DEF BreaksKept, Ended, Pending, top
  <2>5. \A g \in 1 .. top + 1 : Lands(gens'[g])
    BY <1>4, <1>9, <2>1 DEF AllLand, Lands, top
  <2>6. AllLand'
    BY <1>9, <2>5 DEF AllLand, Lands, OffsetsFit, Int16
  <2> QED
    BY <2>3, <2>4, <2>6
<1> QED
  BY <1>13, <1>14, <1>15, <1>16, <1>17 DEF BInv

\* When a function ends, no statement of it is being visited.
LEMMA NoneOfFunction ==
  ASSUME IInv, BInv, todo # <<>>, OfFunction(Head(todo))
  PROVE  \A d \in DOMAIN labelDescs : labelDescs[d].depth \in 1 .. Len(gens) - 1
<1> SUFFICES ASSUME NEW d \in DOMAIN labelDescs
             PROVE  labelDescs[d].depth \in 1 .. Len(gens) - 1
  OBVIOUS
<1>1. 1 \in DOMAIN todo /\ Head(todo) = todo[1] /\ \A i \in DOMAIN todo : i = 1 \/ 1 < i
  <2> DEFINE S == {todo[i] : i \in DOMAIN todo}
  <2>1. todo \in Seq(S)
    BY SeqFacts DEF IInv
  <2> HIDE DEF S
  <2>2. Len(todo) \in Nat \ {0} /\ DOMAIN todo = 1 .. Len(todo) /\ Head(todo) = todo[1]
    BY <2>1
  <2> QED
    BY <2>2
<1>2. todo[1].depth = Len(gens) /\ Len(gens) \in Nat
  BY <1>1, HeadDepth DEF BInv, IInv, HasDepth
<1>3. PICK i \in DOMAIN todo : OfIf(todo[i]) /\ todo[i].stmt = labelDescs[d].stmt
  BY DEF IInv, Enclosed
<1>4. todo[i].depth = labelDescs[d].depth /\ todo[i].depth \in 1 .. Len(gens)
  BY <1>3 DEF BInv, DescsPlaced, Nested, DepthsExist, HasDepth
<1>5. i # 1
  BY <1>1, <1>3 DEF OfIf, OfFunction
<1>6. todo[i].depth < todo[1].depth
  BY <1>1, <1>3, <1>5 DEF BInv, Nested, DepthsFall, HasDepth
<1> QED
  BY <1>2, <1>4, <1>6

\* The encoders that are left, the new one in the place of that around the function.
LEMMA Left ==
  ASSUME NEW s, IsSeq(s), Len(s) > 1, NEW e
  PROVE  LET new == Append(Front(Front(s)), e)
         IN  /\ IsSeq(new) /\ Len(new) = Len(s) - 1
             /\ \A g \in 1 .. Len(s) - 2 : new[g] = s[g]
             /\ new[Len(s) - 1] = e /\ Last(Front(s)) = s[Len(s) - 1]
<1> DEFINE n     == Len(s)
           front == Front(s)
           rest  == Front(front)
           new   == Append(rest, e)
<1>1. n \in Nat /\ n > 1 /\ s # <<>>
  BY SeqFacts
<1>2. IsSeq(front) /\ DOMAIN front = 1 .. n - 1 /\ \A i \in 1 .. n - 1 : front[i] = s[i]
  BY <1>1, FrontFacts
<1>3. \A l, m \in Nat : 1 .. l = 1 .. m => l = m
  <2> SUFFICES ASSUME NEW l \in Nat, NEW m \in Nat, 1 .. l = 1 .. m PROVE l = m
    OBVIOUS
  <2>1. l = 0 \/ l \in 1 .. m
    OBVIOUS
  <2>2. m = 0 \/ m \in 1 .. l
    OBVIOUS
  <2> QED
    BY <2>1, <2>2
<1> HIDE DEF front
<1>4. Len(front) = n - 1 /\ n - 1 \in Nat
  <2>1. DOMAIN front = 1 .. Len(front) /\ Len(front) \in Nat
    BY <1>2, SeqFacts
  <2> QED
    BY <1>1, <1>2, <1>3, <2>1
<1>5. front # <<>>
  BY <1>1, <1>4
<1>6. /\ IsSeq(rest) /\ DOMAIN rest = 1 .. Len(front) - 1 /\ \A i \in 1 .. Len(front) - 1 : rest[i] = front[i]
      /\ Last(front) = front[Len(front)]
  BY <1>2, <1>5, FrontFacts
<1> HIDE DEF rest, n
<1>7. Len(front) - 1 = n - 2 /\ n - 2 \in Nat
  BY <1>1, <1>4
<1>8. Len(rest) = n - 2
  <2>1. DOMAIN rest = 1 .. Len(rest) /\ Len(rest) \in Nat
    BY <1>6, SeqFacts
  <2> QED
    BY <1>3, <1>6, <1>7, <2>1
<1>9. /\ IsSeq(new) /\ DOMAIN new = 1 .. Len(rest) + 1
      /\ \A i \in DOMAIN rest : new[i] = rest[i]
      /\ new[Len(rest) + 1] = e
  BY <1>6, AppendFacts
<1> HIDE DEF new
<1>10. Len(rest) + 1 = n - 1
  BY <1>1, <1>8
<1>11. Len(new) = n - 1
  <2>1. DOMAIN new = 1 .. Len(new) /\ Len(new) \in Nat
    BY <1>9, SeqFacts
  <2> QED
    BY <1>3, <1>4, <1>9, <1>10, <2>1
<1>12. \A g \in 1 .. n - 2 : g \in 1 .. n - 1
  BY <1>1
<1>13. n - 1 \in 1 .. n - 1
  BY <1>1
<1>14. \A g \in 1 .. n - 2 : new[g] = s[g]
  BY <1>2, <1>6, <1>7, <1>9, <1>12
<1>15. Last(front) = s[n - 1]
  BY <1>2, <1>4, <1>6, <1>13
<1> QED
  BY <1>9, <1>10, <1>11, <1>14, <1>15 DEF new, rest, front, n

LEMMA ExitFunctionKeepsBInv == ASSUME IInv, BInv, ExitFunction PROVE BInv'
<1> DEFINE top   == Len(gens)
           outer == Last(Front(gens))
           made  == Emitted(EmittedLiteral(outer, kPushLiteral, FunctionOop(Len(funs) + 1)), <<kCreateClosure>>)
<1>1. todo # <<>> /\ OfFunction(Head(todo)) /\ status = "compiling"
  BY DEF ExitFunction, Doing, OfFunction
<1>2. CASE Stop("undefined")
  BY <1>2, StopKeepsBInv DEF Stop
<1>3. CASE ~Stop("undefined")
  <2>1. /\ Replace(<<>>) /\ UNCHANGED <<labelDescs, nStmts, crossed>>
        /\ IF top = 1 THEN gens' = <<>> /\ status' = "done"
           ELSE gens' = Append(Front(Front(gens)), made) /\ UNCHANGED status
    BY <1>3 DEF ExitFunction
  <2>2. IsSeq(gens) /\ top \in Nat /\ top > 0 /\ IsSeq(todo) /\ DOMAIN gens = 1 .. top
    BY <1>1, SeqFacts DEF BInv, Nested, IInv
  <2> HIDE DEF made, top
  \* The encoders that are left; the one around the function has been added to.
  <2>3. /\ IsSeq(gens') /\ Len(gens') = top - 1
        /\ \A g \in 1 .. top - 1 : g \in 1 .. top /\ Extends(gens[g], gens'[g])
    <3>1. CASE top = 1
      BY <2>1, <3>1 DEF IsSeq
    <3>2. CASE top # 1
      <4>4. /\ IsSeq(gens') /\ Len(gens') = top - 1
            /\ \A g \in 1 .. top - 2 : gens'[g] = gens[g]
            /\ gens'[top - 1] = made /\ outer = gens[top - 1]
        <5> DEFINE new == Append(Front(Front(gens)), made)
        <5>1. Len(gens) > 1 /\ gens' = new
          BY <2>1, <2>2, <3>2 DEF top
        <5>2. /\ IsSeq(new) /\ Len(new) = Len(gens) - 1
              /\ \A g \in 1 .. Len(gens) - 2 : new[g] = gens[g]
              /\ new[Len(gens) - 1] = made /\ outer = gens[Len(gens) - 1]
          BY <2>2, <5>1, Left
        <5> HIDE DEF new, outer
        <5> QED
          BY <5>1, <5>2 DEF top
      <4>6. /\ top - 1 \in 1 .. top
            /\ \A g \in 1 .. top - 1 : g \in 1 .. top /\ (g \in 1 .. top - 2 \/ g = top - 1)
        BY <2>2, <3>2
      <4>7. IsPlaced(outer)
        BY <4>4, <4>6 DEF BInv, Encoders, BreaksPlaced, IsPlaced, top
      <4>8. Extends(outer, made)
        <5> DEFINE mid == EmittedLiteral(outer, kPushLiteral, FunctionOop(Len(funs) + 1))
        <5>1. Extends(outer, mid) /\ IsPlaced(mid)
          BY <4>7, EmittedLiteralExtends
        <5>2. made = Emitted(mid, <<kCreateClosure>>) /\ IsSeq(<<kCreateClosure>>)
          BY DEF made, IsSeq
        <5> HIDE DEF mid
        <5>3. Extends(mid, made)
          BY <5>1, <5>2, EmittedExtends
        <5> QED
          BY <4>7, <5>1, <5>3, ExtendsFurther DEF IsPlaced
      <4>9. \A g \in 1 .. top : Extends(gens[g], gens[g])
        BY ExtendsItself DEF BInv, Encoders, top
      <4> QED
        BY <4>4, <4>6, <4>8, <4>9
    <3> QED
      BY <3>1, <3>2
  <2>4. \A i \in DOMAIN todo' : \E j \in DOMAIN todo : todo'[i] = todo[j]
    BY <1>1, <2>1, <2>2, DoneItems
  <2>5. \A d \in DOMAIN labelDescs : labelDescs[d].depth \in 1 .. top - 1
    BY <1>1, NoneOfFunction DEF top
  <2>6. Nested'
    <3>1. status' = "compiling" => Len(gens') > 0
      BY <2>1, <2>2, <2>3
    <3> QED
      BY <1>1, <2>1, <2>2, <2>3, <3>1, NestedLeaves DEF BInv, top
  <2>7. \A g \in 1 .. top - 1 :
          /\ g \in 1 .. top
          /\ IsSeq(gens[g].code) /\ Len(gens[g].code) \in Nat
          /\ IsEncoder(gens'[g]) /\ IsSeq(gens'[g].code) /\ Len(gens'[g].code) \in Nat
          /\ Len(gens[g].code) <= Len(gens'[g].code)
          /\ gens'[g].breaks = gens[g].breaks /\ gens'[g].ends = gens[g].ends
    BY <2>3 DEF BInv, Encoders, Extends, IsSeq, top
  <2>8. \A a, l, m \in Nat : l <= m /\ a \in 3 .. l => a \in 3 .. m
    OBVIOUS
  <2>9. Encoders'
    <3>1. ASSUME NEW g \in 1 .. top - 1, NEW b \in gens'[g].breaks
          PROVE  b.at \in 3 .. Len(gens'[g].code) /\ b.stmt \in 1 .. nStmts
      <4>1. b.at \in 3 .. Len(gens[g].code) /\ b.stmt \in 1 .. nStmts
        BY <2>7, <3>1 DEF BInv, Encoders, BreaksPlaced, top
      <4> QED
        BY <2>7, <2>8, <4>1
    <3>2. \A g \in 1 .. top - 1 :
            /\ \A b, c \in gens'[g].breaks : b = c \/ Apart(b.at, c.at)
            /\ \A e, f \in gens'[g].ends : e.stmt = f.stmt => e = f
      BY <2>7 DEF BInv, Encoders, BreaksPlaced, EndsPlaced, top
    <3>3. \A g \in 1 .. top - 1 : \A e \in gens'[g].ends :
            /\ e.at \in Nat /\ e.stmt \in 1 .. nStmts
            /\ \A i \in DOMAIN todo' : OfIf(todo'[i]) => todo'[i].stmt # e.stmt
      BY <2>4, <2>7 DEF BInv, Encoders, EndsPlaced, top
    <3> QED
      BY <2>1, <2>3, <2>7, <3>1, <3>2, <3>3 DEF Encoders, BreaksPlaced, EndsPlaced
  <2>10. PastsPlaced'
    <3> SUFFICES ASSUME NEW i \in DOMAIN todo', HasPast(todo'[i])
                 PROVE  /\ todo'[i].past \in 3 .. Len(gens'[todo'[i].depth].code)
                        /\ \A b \in gens'[todo'[i].depth].breaks : Apart(b.at, todo'[i].past)
      BY DEF PastsPlaced
    <3>1. PICK j \in DOMAIN todo : todo'[i] = todo[j]
      BY <2>4
    <3>2. todo'[i].depth \in 1 .. top - 1
      <4>1. HasDepth(todo'[i])
        BY DEF HasPast, HasDepth, OfIf
      <4>2. \A k \in DOMAIN todo' : HasDepth(todo'[k]) => todo'[k].depth \in 1 .. Len(gens')
        BY <2>6 DEF Nested, DepthsExist
      <4> QED
        BY <2>3, <4>1, <4>2
    <3> DEFINE g == todo'[i].depth
    <3>3. /\ todo'[i].past \in 3 .. Len(gens[g].code)
          /\ \A b \in gens[g].breaks : Apart(b.at, todo'[i].past)
      BY <3>1 DEF BInv, PastsPlaced
    <3>4. g \in 1 .. top - 1
      BY <3>2
    <3> HIDE DEF g
    <3>5. todo'[i].past \in 3 .. Len(gens'[g].code)
      BY <2>7, <2>8, <3>3, <3>4
    <3> QED
      BY <2>7, <3>3, <3>4, <3>5 DEF g
  <2>11. DescsPlaced'
    BY <2>1, <2>4 DEF BInv, DescsPlaced
  <2>12. ASSUME ~crossed' PROVE DescsOwn' /\ BreaksKept' /\ AllLand'
    <3>1. DescsOwn /\ BreaksKept /\ AllLand
      BY <2>1, <2>12 DEF BInv
    <3>2. DescsOwn'
      BY <2>1, <2>5, <2>7, <3>1 DEF DescsOwn
    <3>3. BreaksKept'
      <4> SUFFICES ASSUME NEW g \in 1 .. top - 1, NEW b \in gens'[g].breaks
                   PROVE  \/ \E e \in gens'[g].ends : e.stmt = b.stmt
                          \/ \E d \in DOMAIN labelDescs' :
                               /\ labelDescs'[d].stmt = b.stmt /\ labelDescs'[d].depth = g
                               /\ \E k \in DOMAIN labelDescs'[d].breaks : labelDescs'[d].breaks[k] = b.at
        BY <2>3 DEF BreaksKept, Ended, Pending
      <4>1. Ended(gens[g], b) \/ Pending(g, b)
        BY <2>7, <3>1 DEF BreaksKept, top
      <4> QED
        BY <2>1, <2>7, <4>1 DEF Ended, Pending
    <3>4. \A g \in 1 .. top - 1 : Lands(gens'[g])
      BY <2>3, <2>7, <3>1, LandsStill DEF AllLand, top
    <3>5. AllLand'
      BY <2>3, <3>4 DEF AllLand, Lands, OffsetsFit, Int16
    <3> QED
      BY <3>2, <3>3, <3>5
  <2> QED
    BY <2>6, <2>9, <2>10, <2>11, <2>12 DEF BInv
<1> QED
  BY <1>2, <1>3

-----------------------------------------------------------------------------
LEMMA InitBInv == Init => BInv
<1> SUFFICES ASSUME Init PROVE BInv
  OBVIOUS
<1> DEFINE gen == NewEncoder(<<>>)
<1>1. IsEncoder(gen) /\ IsSeq(gen.code) /\ gen.breaks = {} /\ gen.ends = {}
  BY NewEncoderFacts
<1> HIDE DEF gen
<1>2. IsSeq(gens) /\ Len(gens) = 1 /\ gens[1] = gen
  BY DEF Init, IsSeq, gen
<1>3. \A g \in 1 .. Len(gens) : g = 1 /\ gens[g] = gen
  BY <1>2
<1>4. /\ DOMAIN todo = 1 .. 3 /\ OfFunction(todo[3]) /\ todo[3].depth = 1
      /\ \A i \in DOMAIN todo : HasDepth(todo[i]) => i = 3
  <2>1. todo[1] = Item("StmtListItem") /\ todo[2] = Item("More") /\ todo[3] = Exit(1) /\ DOMAIN todo = 1 .. 3
    BY DEF Init
  <2>2. \A i \in 1 .. 3 : i = 1 \/ i = 2 \/ i = 3
    OBVIOUS
  <2>3. OfFunction(Exit(1)) /\ Exit(1).depth = 1
    BY DEF OfFunction, Exit
  <2> QED
    BY <2>1, <2>2, <2>3, ShallowItems
<1>5. DOMAIN labelDescs = {}
  BY DEF Init
<1>6. Nested
  BY <1>2, <1>3, <1>4 DEF Nested, DepthsExist, DepthsFall, FunctionsEnd
<1>7. Encoders
  BY <1>1, <1>3 DEF Encoders, BreaksPlaced, EndsPlaced
<1>8. PastsPlaced
  BY <1>4 DEF PastsPlaced, HasPast, HasDepth, OfIf, OfFunction
<1>9. DescsPlaced /\ DescsOwn
  BY <1>5 DEF DescsPlaced, DescsOwn
<1>10. BreaksKept /\ AllLand
  BY <1>1, <1>3 DEF BreaksKept, AllLand, Lands
<1> QED
  BY <1>6, <1>7, <1>8, <1>9, <1>10 DEF BInv

LEMMA NextKeepsBInv == IInv /\ BInv /\ [Next]_vars => BInv'
<1> SUFFICES ASSUME IInv, BInv, [Next]_vars PROVE BInv'
  OBVIOUS
<1>1. CASE UNCHANGED vars
  BY <1>1, StopKeepsBInv DEF vars
<1>2. CASE EndIf
  <2>1. CASE Stop("undefined")
    BY <2>1, StopKeepsBInv DEF Stop
  <2>2. CASE ~Stop("undefined")
    <3>1. status' = status
      BY <1>2, <2>2 DEF EndIf
    <3> QED
      BY <1>2, <3>1, EndIfKeepsBInv
  <2> QED
    BY <2>1, <2>2
<1> QED
  BY <1>1, <1>2, ExpressionsKeepBInv, VisitFunCallKeepsBInv, VisitFunExprKeepsBInv, StatementsKeepBInv,
     VisitBreakKeepsBInv, VisitIfKeepsBInv, IfCasesKeepBInv, ExitFunctionKeepsBInv DEF Next

\* What holds of a break until its statement ends, and after.
THEOREM BreaksInvariance == Spec => [](IInv /\ BInv)
<1>1. Init => IInv /\ BInv
  BY InitIInv, InitBInv
<1>2. IInv /\ BInv /\ [Next]_vars => (IInv /\ BInv)'
  BY NextKeepsIInv, NextKeepsBInv
<1> QED
  BY <1>1, <1>2, PTL DEF Spec

\* Whatever the tree, exitStmt makes a break's jump land on the end of the statement it
\* leaves, no later instruction or patch disturbs it, and when its function ends it has
\* been patched, unless some break left its function.
THEOREM BreaksAlwaysLand == Spec => []BreaksLand
<1>1. ASSUME IInv, BInv PROVE BreaksLand
  <2> SUFFICES ASSUME ~crossed, NEW g \in DOMAIN gens, OffsetsFit(gens[g].code)
               PROVE  BreaksLandIn(gens[g])
    BY DEF BreaksLand
  <2>1. DOMAIN gens = 1 .. Len(gens) /\ Len(gens) \in Nat
    BY <1>1, SeqFacts DEF BInv, Nested
  <2>2. AllLand /\ BreaksKept
    BY <1>1 DEF BInv
  <2>3. \A b \in gens[g].breaks, e \in gens[g].ends :
          b.stmt = e.stmt => b.at + Int16(gens[g].code[b.at - 1], gens[g].code[b.at]) = e.at
    BY <2>1, <2>2 DEF AllLand, Lands
  <2>4. ASSUME Doing("ExitFunction"), gens[g] = coder, NEW b \in gens[g].breaks
        PROVE  \E e \in gens[g].ends : e.stmt = b.stmt
    <3>1. todo # <<>> /\ OfFunction(Head(todo)) /\ coder = gens[Len(gens)] /\ Len(gens) \in 1 .. Len(gens)
      BY <2>1, <2>4 DEF Doing, OfFunction, coder, Last
    <3>2. \A d \in DOMAIN labelDescs : labelDescs[d].depth \in 1 .. Len(gens) - 1
      BY <1>1, <3>1, NoneOfFunction
    <3>3. ~Pending(Len(gens), b)
      BY <2>1, <3>2 DEF Pending
    <3> QED
      BY <2>2, <2>4, <3>1, <3>3 DEF BreaksKept, Ended
  <2> QED
    BY <2>3, <2>4 DEF BreaksLandIn
<1> QED
  BY <1>1, BreaksInvariance, PTL
=============================================================================
