---------------------------- MODULE ValuesProofs ----------------------------
(***************************************************************************)
(* What is proved of values, of the words of each and of the numbers that  *)
(* the words of some lead to.                                              *)
(***************************************************************************)
EXTENDS MCData, SequencesExt, TLAPS

-----------------------------------------------------------------------------
(***************************************************************************)
(* Numbers.  Sums are of what is meant while nothing is used twice, for    *)
(* any literals, variables and number of steps.  A PrimDesc may be         *)
(* overwritten without harm when one word at most still leads to it that   *)
(* will be used: the words on the stack, and those of variables that were  *)
(* not yet read.  Of these no two have the same address; and an address    *)
(* none of them has is that of a literal whose instruction has run, or     *)
(* holds the literal.                                                      *)
(***************************************************************************)
Addresses == DOMAIN Literals
Words     == [at : Addresses, meant : Int]

\* A variable whose word may still be pushed.
Unread(n) == slots[n] # Numbers!NoWord /\ reads[n] = 0

StackApart == \A i, j \in DOMAIN stack : i # j => stack[i].at # stack[j].at
SlotsApart == \A m, n \in Names : m # n /\ Unread(m) /\ Unread(n) => slots[m].at # slots[n].at
BothApart  == \A i \in DOMAIN stack, n \in Names : Unread(n) => stack[i].at # slots[n].at
Fresh      == \A i \in Addresses : pushes[i] = 0 => doubles[i] = Literals[i]

\* A word is the number meant, of a literal that was pushed.
StackMeant == \A i \in DOMAIN stack : doubles[stack[i].at] = stack[i].meant /\ pushes[stack[i].at] # 0
SlotsMeant == \A n \in Names :
                Unread(n) => doubles[slots[n].at] = slots[n].meant /\ pushes[slots[n].at] # 0

Once == Numbers!UsedOnce /\ ops \subseteq {"kAdd"}

Live ==
  /\ StackApart
  /\ SlotsApart
  /\ BothApart
  /\ Fresh
  /\ StackMeant
  /\ SlotsMeant

Types ==
  /\ doubles \in [Addresses -> Int]
  /\ stack \in Seq(Words)
  /\ slots \in [Names -> Words \union {Numbers!NoWord}]
  /\ pushes \in [Addresses -> Nat]
  /\ reads \in [Names -> Nat]

NInv == Types /\ (Once => Live)

-----------------------------------------------------------------------------
\* Histories only grow: what is used once after a step was so before it.
LEMMA OnceBefore == ASSUME Literals \in Seq(Int), Types, [Numbers!Next]_dvars, Once' PROVE Once
<1>1. \A i \in Addresses : pushes[i] \in Nat /\ (pushes'[i] = pushes[i] \/ pushes'[i] = pushes[i] + 1)
  <2>1. CASE Numbers!PushLiteral
    <3>1. PICK k \in Addresses : pushes' = [pushes EXCEPT ![k] = @ + 1]
      BY <2>1 DEF Numbers!PushLiteral, Addresses
    <3> QED
      BY <3>1 DEF Types
  <2>2. CASE UNCHANGED pushes
    BY <2>2 DEF Types
  <2> QED
    BY <2>1, <2>2 DEF Numbers!Next, dvars, Numbers!Resolve, Numbers!Declare, Numbers!BinOp
<1>2. \A n \in Names : reads[n] \in Nat /\ (reads'[n] = reads[n] \/ reads'[n] = reads[n] + 1)
  <2>1. CASE Numbers!Resolve
    <3>1. PICK k \in Names : reads' = [reads EXCEPT ![k] = @ + 1]
      BY <2>1 DEF Numbers!Resolve
    <3> QED
      BY <3>1 DEF Types
  <2>2. CASE UNCHANGED reads
    BY <2>2 DEF Types
  <2> QED
    BY <2>1, <2>2 DEF Numbers!Next, dvars, Numbers!PushLiteral, Numbers!Declare, Numbers!BinOp
<1>3. ops \subseteq ops'
  BY DEF Numbers!Next, dvars, Numbers!PushLiteral, Numbers!Resolve, Numbers!Declare, Numbers!BinOp
<1>4. Numbers!UsedOnce
  BY <1>1, <1>2 DEF Once, Numbers!UsedOnce, Addresses
<1> QED
  BY <1>3, <1>4 DEF Once

\* What Push does to the stack.
LEMMA Pushed ==
  ASSUME stack \in Seq(Words), NEW word \in Words, Numbers!Push(word)
  PROVE  /\ stack' \in Seq(Words)
         /\ Len(stack) \in Nat /\ DOMAIN stack = 1 .. Len(stack) /\ DOMAIN stack' = 1 .. Len(stack) + 1
         /\ \A i \in DOMAIN stack : stack'[i] = stack[i]
         /\ stack'[Len(stack) + 1] = word
BY DEF Numbers!Push

\* What is left of a stack when its last operand is taken.
LEMMA Fronts ==
  ASSUME NEW s \in Seq(Words), s # <<>>
  PROVE  /\ Front(s) \in Seq(Words) /\ Len(s) \in Nat \ {0}
         /\ Len(Front(s)) = Len(s) - 1 /\ DOMAIN Front(s) = 1 .. Len(s) - 1
         /\ \A i \in 1 .. Len(s) - 1 : Front(s)[i] = s[i]
         /\ Last(s) = s[Len(s)] /\ Last(s) \in Words
<1>1. Len(s) \in Nat \ {0} /\ DOMAIN s = 1 .. Len(s)
  <2>1. Len(s) # 0
    OBVIOUS
  <2> QED
    BY <2>1
<1>2. \A i \in 1 .. Len(s) : s[i] \in Words
  BY <1>1
<1>3. Front(s) = SubSeq(s, 1, Len(s) - 1)
  BY DEF Front
<1>4. Front(s) = [i \in 1 .. Len(s) - 1 |-> s[i]]
  BY <1>1, <1>3
<1>5. Front(s) \in Seq(Words) /\ Len(Front(s)) = Len(s) - 1
  BY <1>1, <1>2, <1>4
<1>6. Len(s) \in 1 .. Len(s)
  BY <1>1
<1> QED
  BY <1>1, <1>2, <1>4, <1>5, <1>6 DEF Last

-----------------------------------------------------------------------------
LEMMA InitNInv == Literals \in Seq(Int) /\ Numbers!Init => NInv
<1> SUFFICES ASSUME Literals \in Seq(Int), Numbers!Init PROVE NInv
  OBVIOUS
<1>1. Types
  BY DEF Numbers!Init, Types, Addresses
<1>2. Live
  BY DEF Numbers!Init, Live, StackApart, SlotsApart, BothApart, Fresh, StackMeant, SlotsMeant, Unread, Addresses
<1> QED
  BY <1>1, <1>2 DEF NInv

\* A literal that is pushed once was not pushed before: no word has its address.
LEMMA PushLiteralKeepsNInv == ASSUME Literals \in Seq(Int), NInv, Numbers!PushLiteral PROVE NInv'
<1>1. PICK k \in DOMAIN Literals :
        Numbers!Push(Numbers!Word(k, Literals[k])) /\ pushes' = [pushes EXCEPT ![k] = @ + 1]
  BY DEF Numbers!PushLiteral
<1>2. UNCHANGED <<doubles, slots, reads, ops>>
  BY DEF Numbers!PushLiteral
<1> DEFINE word == Numbers!Word(k, Literals[k])
<1>3. word \in Words /\ word.at = k /\ word.meant = Literals[k]
  BY DEF Numbers!Word, Words, Addresses
<1> HIDE DEF word
<1>4. /\ stack' \in Seq(Words)
      /\ Len(stack) \in Nat /\ DOMAIN stack = 1 .. Len(stack) /\ DOMAIN stack' = 1 .. Len(stack) + 1
      /\ \A i \in DOMAIN stack : stack'[i] = stack[i]
      /\ stack'[Len(stack) + 1] = word
  BY <1>1, <1>3, Pushed DEF NInv, Types, word
<1>5. Types'
  BY <1>1, <1>2, <1>4 DEF NInv, Types, Addresses
<1>6. ASSUME Once' PROVE Live'
  <2>1. Live
    BY <1>6, OnceBefore DEF NInv, Numbers!Next
  <2>2. pushes \in [Addresses -> Nat] /\ pushes'[k] <= 1 /\ k \in Addresses
    BY <1>6 DEF Once, Numbers!UsedOnce, NInv, Types, Addresses
  <2>3. pushes[k] = 0 /\ pushes'[k] = 1 /\ \A i \in Addresses : i # k => pushes'[i] = pushes[i]
    BY <1>1, <2>2
  <2>4. \A n \in Names : Unread(n)' <=> Unread(n)
    BY <1>2 DEF Unread
  <2>5. \A i \in DOMAIN stack : stack[i].at \in Addresses /\ stack[i].at # k
    <3>1. \A i \in DOMAIN stack : stack[i] \in Words
      BY DEF NInv, Types
    <3> QED
      BY <3>1, <2>1, <2>3 DEF Live, StackMeant, Words
  <2>6. \A n \in Names : Unread(n) => slots[n].at \in Addresses /\ slots[n].at # k
    BY <2>1, <2>3 DEF Live, StackMeant, SlotsMeant, NInv, Types, Words, Unread
  <2>7. StackApart'
    BY <2>1, <2>5, <1>3, <1>4 DEF Live, StackApart
  <2>8. SlotsApart'
    BY <2>1, <2>4, <1>2 DEF Live, SlotsApart
  <2>9. BothApart'
    BY <2>1, <2>4, <2>6, <1>2, <1>3, <1>4 DEF Live, BothApart
  <2>10. Fresh'
    BY <2>1, <2>3, <1>2 DEF Live, Fresh
  <2>11. doubles[k] = Literals[k]
    BY <2>1, <2>2, <2>3 DEF Live, Fresh
  <2>12. ASSUME NEW i \in DOMAIN stack'
         PROVE  doubles'[stack'[i].at] = stack'[i].meant /\ pushes'[stack'[i].at] # 0
    <3>1. CASE i \in DOMAIN stack
      BY <3>1, <2>1, <2>3, <2>5, <1>2, <1>4 DEF Live, StackMeant, SlotsMeant
    <3>2. CASE i = Len(stack) + 1
      BY <3>2, <2>3, <2>11, <1>2, <1>3, <1>4 DEF StackMeant, SlotsMeant
    <3> QED
      BY <3>1, <3>2, <1>4
  <2>13. SlotsMeant'
    BY <2>1, <2>3, <2>4, <2>6, <1>2 DEF Live, StackMeant, SlotsMeant
  <2> QED
    BY <2>7, <2>8, <2>9, <2>10, <2>12, <2>13 DEF Live, StackMeant
<1> QED
  BY <1>5, <1>6 DEF NInv

\* A variable that is read once gives its word away.
LEMMA ResolveKeepsNInv == ASSUME Literals \in Seq(Int), NInv, Numbers!Resolve PROVE NInv'
<1>1. PICK m \in Names :
        slots[m] # Numbers!NoWord /\ Numbers!Push(slots[m]) /\ reads' = [reads EXCEPT ![m] = @ + 1]
  BY DEF Numbers!Resolve
<1>2. UNCHANGED <<doubles, slots, pushes, ops>>
  BY DEF Numbers!Resolve
<1>3. slots[m] \in Words
  BY <1>1 DEF NInv, Types
<1>4. /\ stack' \in Seq(Words)
      /\ Len(stack) \in Nat /\ DOMAIN stack = 1 .. Len(stack) /\ DOMAIN stack' = 1 .. Len(stack) + 1
      /\ \A i \in DOMAIN stack : stack'[i] = stack[i]
      /\ stack'[Len(stack) + 1] = slots[m]
  BY <1>1, <1>3, Pushed DEF NInv, Types
<1>5. Types'
  BY <1>1, <1>2, <1>4 DEF NInv, Types
<1>6. ASSUME Once' PROVE Live'
  <2>1. Live
    BY <1>6, OnceBefore DEF NInv, Numbers!Next
  <2>2. reads \in [Names -> Nat] /\ reads'[m] <= 1
    BY <1>6 DEF Once, Numbers!UsedOnce, NInv, Types
  <2>3. reads[m] = 0 /\ reads'[m] = 1 /\ \A n \in Names : n # m => reads'[n] = reads[n]
    BY <1>1, <2>2
  <2>4. Unread(m)
    BY <1>1, <2>3 DEF Unread
  <2>5. \A n \in Names : Unread(n)' <=> n # m /\ Unread(n)
    BY <1>2, <2>3 DEF Unread
  <2>6. StackApart'
    <3>1. \A i \in DOMAIN stack : stack[i].at # slots[m].at
      BY <2>1, <2>4 DEF Live, BothApart
    <3>2. \A i, j \in DOMAIN stack : i # j => stack[i].at # stack[j].at
      BY <2>1 DEF Live, StackApart
    <3>3. \A i \in DOMAIN stack' : i \in DOMAIN stack \/ i = Len(stack) + 1
      BY <1>4
    <3> QED
      BY <3>1, <3>2, <3>3, <1>4 DEF StackApart
  <2>7. SlotsApart'
    BY <2>1, <2>5, <1>2 DEF Live, SlotsApart
  <2>8. BothApart'
    BY <2>1, <2>4, <2>5, <1>2, <1>4 DEF Live, BothApart, SlotsApart
  <2>9. Fresh'
    BY <2>1, <1>2 DEF Live, Fresh
  <2>10. StackMeant'
    BY <2>1, <2>4, <1>2, <1>4 DEF Live, StackMeant, SlotsMeant
  <2>11. SlotsMeant'
    BY <2>1, <2>5, <1>2 DEF Live, StackMeant, SlotsMeant
  <2> QED
    BY <2>6, <2>7, <2>8, <2>9, <2>10, <2>11 DEF Live
<1> QED
  BY <1>5, <1>6 DEF NInv

\* A declaration moves a word from the stack to a variable, and drops the variable's.
LEMMA DeclareKeepsNInv == ASSUME Literals \in Seq(Int), NInv, Numbers!Declare PROVE NInv'
<1>1. PICK m \in Names : slots' = [slots EXCEPT ![m] = Last(stack)]
  BY DEF Numbers!Declare, Numbers!Front, Front, Numbers!Last, Last
<1>2. stack # <<>> /\ stack' = Front(stack) /\ UNCHANGED <<doubles, pushes, reads, ops>>
  BY DEF Numbers!Declare, Numbers!Front, Front, Numbers!Last, Last
<1>3. stack \in Seq(Words) /\ slots \in [Names -> Words \union {Numbers!NoWord}]
  BY DEF NInv, Types
<1>4. /\ stack' \in Seq(Words) /\ Len(stack) \in Nat \ {0} /\ DOMAIN stack' = 1 .. Len(stack) - 1
      /\ \A i \in 1 .. Len(stack) - 1 : stack'[i] = stack[i]
      /\ Last(stack) = stack[Len(stack)] /\ Last(stack) \in Words
  BY <1>2, <1>3, Fronts
<1>5. DOMAIN stack = 1 .. Len(stack)
  BY <1>3
<1>6. slots'[m] = stack[Len(stack)] /\ \A n \in Names : n # m => slots'[n] = slots[n]
  BY <1>1, <1>3, <1>4
<1>7. Types'
  <2>1. slots' \in [Names -> Words \union {Numbers!NoWord}]
    BY <1>1, <1>3, <1>4
  <2> QED
    BY <1>2, <1>4, <2>1 DEF NInv, Types
<1>8. ASSUME Once' PROVE Live'
  <2>1. Live
    BY <1>8, OnceBefore DEF NInv, Numbers!Next
  <2>2. \A n \in Names : n # m => (Unread(n)' <=> Unread(n))
    BY <1>2, <1>6 DEF Unread
  <2>3. \A i \in DOMAIN stack' : i \in DOMAIN stack /\ i # Len(stack) /\ stack'[i] = stack[i]
    BY <1>4, <1>5
  <2>4. Len(stack) \in DOMAIN stack
    BY <1>4, <1>5
  <2>5. StackApart'
    BY <2>1, <2>3 DEF Live, StackApart
  <2>6. SlotsApart'
    BY <2>1, <2>2, <2>4, <1>6 DEF Live, SlotsApart, BothApart
  <2>7. BothApart'
    BY <2>1, <2>2, <2>3, <2>4, <1>6 DEF Live, BothApart, StackApart
  <2>8. Fresh'
    BY <2>1, <1>2 DEF Live, Fresh
  <2>9. StackMeant'
    BY <2>1, <2>3, <1>2 DEF Live, StackMeant, SlotsMeant
  <2>10. SlotsMeant'
    BY <2>1, <2>2, <2>4, <1>2, <1>6 DEF Live, StackMeant, SlotsMeant
  <2> QED
    BY <2>5, <2>6, <2>7, <2>8, <2>9, <2>10 DEF Live
<1> QED
  BY <1>7, <1>8 DEF NInv

\* A sum overwrites a PrimDesc to which only the right operand led.
LEMMA BinOpKeepsNInv == ASSUME Literals \in Seq(Int), NInv, Numbers!BinOp PROVE NInv'
<1> DEFINE a == stack[Len(stack)]
           b == stack[Len(stack) - 1]
           remaining == Front(Front(stack))
<1>1. PICK op \in Numbers!BinOps :
        /\ doubles' = [doubles EXCEPT ![a.at] = doubles[a.at] + doubles[b.at]]
        /\ stack' = Append(remaining, Numbers!Word(a.at, Numbers!Meaning(op, b.meant, a.meant)))
        /\ ops' = ops \union {op}
  BY DEF Numbers!BinOp, Numbers!Sum, Numbers!Front, Front
<1>2. Len(stack) > 1 /\ UNCHANGED <<slots, pushes, reads>>
  BY DEF Numbers!BinOp
<1>3. /\ stack \in Seq(Words) /\ doubles \in [Addresses -> Int] /\ Len(stack) \in Nat
      /\ DOMAIN stack = 1 .. Len(stack)
  BY DEF NInv, Types
<1>4. /\ a \in Words /\ b \in Words /\ a.at \in Addresses /\ b.at \in Addresses
      /\ a.meant \in Int /\ b.meant \in Int
  <2>1. Len(stack) \in DOMAIN stack /\ Len(stack) - 1 \in DOMAIN stack
    BY <1>2, <1>3
  <2>2. a \in Words /\ b \in Words
    BY <1>3, <2>1
  <2> QED
    BY <2>2 DEF Words
<1>5. /\ remaining \in Seq(Words) /\ Len(remaining) = Len(stack) - 2
      /\ \A i \in 1 .. Len(stack) - 2 : remaining[i] = stack[i]
  <2> DEFINE front == Front(stack)
  <2>1. stack # <<>>
    BY <1>2
  <2>2. front \in Seq(Words) /\ Len(front) = Len(stack) - 1 /\ \A i \in 1 .. Len(stack) - 1 : front[i] = stack[i]
    BY <2>1, <1>3, Fronts
  <2> HIDE DEF front
  <2>3. front # <<>>
    BY <1>2, <1>3, <2>2
  <2>4. /\ Front(front) \in Seq(Words) /\ Len(Front(front)) = Len(front) - 1
        /\ \A i \in 1 .. Len(front) - 1 : Front(front)[i] = front[i]
    BY <2>2, <2>3, Fronts
  <2>5. remaining = Front(front)
    BY DEF front
  <2> HIDE DEF remaining
  <2> QED
    <3>1. Len(front) = Len(stack) - 1 /\ Len(front) - 1 = Len(stack) - 2
      BY <1>3, <2>2
    <3>2. \A i \in 1 .. Len(stack) - 2 : i \in 1 .. Len(stack) - 1
      BY <1>3
    <3>3. \A i \in 1 .. Len(stack) - 2 : remaining[i] = front[i]
      BY <3>1, <2>4, <2>5
    <3> QED
      BY <3>1, <3>2, <3>3, <2>2, <2>4, <2>5
<1> DEFINE word == Numbers!Word(a.at, Numbers!Meaning(op, b.meant, a.meant))
<1>6. word \in Words /\ word.at = a.at /\ word.meant = Numbers!Meaning(op, b.meant, a.meant)
  BY <1>4 DEF Numbers!Word, Words, Numbers!Meaning
<1>7. /\ stack' \in Seq(Words) /\ DOMAIN stack' = 1 .. Len(stack) - 1
      /\ \A i \in 1 .. Len(stack) - 2 : stack'[i] = stack[i]
      /\ stack'[Len(stack) - 1] = word
  <2> HIDE DEF remaining, word, a, b
  <2>1. stack' = Append(remaining, word)
    BY <1>1 DEF word
  <2> QED
    <3>1. Len(remaining) \in Nat /\ Len(remaining) + 1 = Len(stack) - 1
      BY <1>2, <1>3, <1>5
    <3>2. /\ stack' \in Seq(Words) /\ DOMAIN stack' = 1 .. Len(remaining) + 1
          /\ \A i \in 1 .. Len(remaining) : stack'[i] = remaining[i]
          /\ stack'[Len(remaining) + 1] = word
      BY <2>1, <1>5, <1>6
    <3> QED
      BY <3>1, <3>2, <1>5
<1>8. /\ doubles' \in [Addresses -> Int] /\ doubles'[a.at] = doubles[a.at] + doubles[b.at]
      /\ \A at \in Addresses : at # a.at => doubles'[at] = doubles[at]
  BY <1>1, <1>3, <1>4
<1>9. Types'
  BY <1>2, <1>7, <1>8 DEF NInv, Types
<1> HIDE DEF remaining
<1>10. ASSUME Once' PROVE Live'
  <2>1. Live
    BY <1>10, OnceBefore DEF NInv, Numbers!Next
  <2>2. op = "kAdd" /\ word.meant = b.meant + a.meant
    BY <1>1, <1>6, <1>10 DEF Once, Numbers!Meaning
  <2> HIDE DEF word
  <2>3. \A n \in Names : Unread(n)' <=> Unread(n)
    BY <1>2 DEF Unread
  <2>4. Len(stack) \in DOMAIN stack /\ Len(stack) - 1 \in DOMAIN stack
    BY <1>2, <1>3
  <2>5. \A i \in 1 .. Len(stack) - 2 : i \in DOMAIN stack /\ i # Len(stack) /\ i # Len(stack) - 1
    <3>1. \A n \in Nat : \A i \in 1 .. n - 2 : i \in 1 .. n /\ i # n /\ i # n - 1
      OBVIOUS
    <3>2. Len(stack) \in Nat
      BY <1>3
    <3> QED
      BY <3>1, <3>2, <1>3
  <2>6. \A i \in 1 .. Len(stack) - 2 : stack[i].at # a.at /\ stack[i].at \in Addresses
    <3>1. \A i \in DOMAIN stack : stack[i] \in Words
      BY <1>3
    <3>2. \A i \in DOMAIN stack : stack[i].at \in Addresses
      BY <3>1 DEF Words
    <3> QED
      BY <3>2, <2>1, <2>4, <2>5 DEF Live, StackApart
  <2>7. \A n \in Names : Unread(n) => slots[n].at # a.at /\ slots[n].at \in Addresses
    BY <2>1, <2>4 DEF Live, BothApart, Unread, NInv, Types, Words
  <2>8. \A i \in DOMAIN stack' : i \in 1 .. Len(stack) - 2 \/ i = Len(stack) - 1
    BY <1>3, <1>7
  <2>9. doubles[a.at] = a.meant /\ doubles[b.at] = b.meant /\ pushes[a.at] # 0
    BY <2>1, <2>4 DEF Live, StackMeant, SlotsMeant
  <2>10. doubles'[word.at] = word.meant
    BY <1>4, <1>6, <1>8, <2>2, <2>9
  <2> HIDE DEF a, b
  <2>11. StackApart'
    <3>1. \A i, j \in DOMAIN stack : i # j => stack[i].at # stack[j].at
      BY <2>1 DEF Live, StackApart
    <3>2. stack'[Len(stack) - 1].at = a.at
      BY <1>6, <1>7
    <3>3. \A i \in 1 .. Len(stack) - 2 : i \in DOMAIN stack /\ stack'[i].at = stack[i].at
      BY <2>5, <1>7
    <3> QED
      BY <3>1, <3>2, <3>3, <2>6, <2>8 DEF StackApart
  <2>12. SlotsApart'
    BY <2>1, <2>3, <1>2 DEF Live, SlotsApart
  <2>13. BothApart'
    BY <2>1, <2>3, <2>5, <2>7, <2>8, <1>2, <1>6, <1>7 DEF Live, BothApart
  <2>14. Fresh'
    BY <2>1, <2>9, <1>2, <1>8 DEF Live, Fresh
  <2>15. StackMeant'
    <3>1. ASSUME NEW i \in DOMAIN stack'
          PROVE  doubles'[stack'[i].at] = stack'[i].meant /\ pushes'[stack'[i].at] # 0
      <4>1. CASE i = Len(stack) - 1
        BY <4>1, <2>9, <2>10, <1>2, <1>6, <1>7
      <4>2. CASE i \in 1 .. Len(stack) - 2
        <5>1. stack'[i] = stack[i] /\ i \in DOMAIN stack
          BY <4>2, <2>5, <1>7
        <5> QED
          BY <4>2, <5>1, <2>1, <2>6, <1>2, <1>8 DEF Live, StackMeant
      <4> QED
        BY <4>1, <4>2, <2>8
    <3> QED
      BY <3>1 DEF StackMeant
  <2>16. SlotsMeant'
    BY <2>1, <2>3, <2>7, <1>2, <1>8 DEF Live, StackMeant, SlotsMeant
  <2> QED
    BY <2>11, <2>12, <2>13, <2>14, <2>15, <2>16 DEF Live
<1> QED
  BY <1>9, <1>10 DEF NInv

LEMMA NextKeepsNInv == Literals \in Seq(Int) /\ NInv /\ [Numbers!Next]_dvars => NInv'
<1> SUFFICES ASSUME Literals \in Seq(Int), NInv, [Numbers!Next]_dvars PROVE NInv'
  OBVIOUS
<1>1. CASE UNCHANGED dvars
  BY <1>1 DEF dvars, NInv, Types, Once, Numbers!UsedOnce, Live, StackApart, SlotsApart, BothApart, Fresh,
              StackMeant, SlotsMeant, Unread
<1> QED
  BY <1>1, PushLiteralKeepsNInv, ResolveKeepsNInv, DeclareKeepsNInv, BinOpKeepsNInv DEF Numbers!Next

-----------------------------------------------------------------------------
\* Numbers live in PrimDescs that literals, variables and operands share (kPushLiteral,
\* kResolve, kResolvedStore): while nothing is used twice, the words that may still be
\* used lead to PrimDescs of their own.
THEOREM NumbersInvariance == Literals \in Seq(Int) => (DataSpec => []NInv)
<1> SUFFICES ASSUME Literals \in Seq(Int) PROVE DataSpec => []NInv
  OBVIOUS
<1>1. DataInit => NInv
  BY InitNInv DEF DataInit
<1>2. NInv /\ [DataNext]_dataVars => NInv'
  BY NextKeepsNInv DEF DataNext, dataVars
<1> QED
  BY <1>1, <1>2, PTL DEF DataSpec

\* While nothing is used twice and all operators are +, each operand on the stack is the
\* number meant, whatever kAdd has written over its right operands.
THEOREM SumsAlwaysMeant == Literals \in Seq(Int) => (DataSpec => []SumsMeant)
<1>1. NInv => SumsMeant
  BY DEF NInv, Once, Live, StackMeant, SlotsMeant, SumsMeant, Numbers!SumsMeant, Numbers!ValuesMeant
<1> QED
  BY <1>1, NumbersInvariance, PTL

-----------------------------------------------------------------------------
(***************************************************************************)
(* Words.  For every width of the halves of a word that keeps the four tag *)
(* bits in the lower one, and every heap: a word is read back as the value *)
(* it was made for, and taken as true when that value is.                  *)
(*                                                                         *)
(* ReadsBack alone is not inductive: converting an even integer's word,    *)
(* which is read as some pointer, must not make an odd one out of it.  It  *)
(* could only do so as the word of true, which no integer has.             *)
(***************************************************************************)
EvenStaysEven == from = "i32" => value.t = "Number" /\ oop # true

Meant == value.t \in {"Number", "String", "Boolean", "Undefined", "Null", "Object"}

IInv == oop \in Nat /\ Meant /\ EvenStaysEven /\ ReadsBack

USE HeapAssumption

\* What each type is shown as.
LEMMA ReadOutOf ==
  ASSUME NEW w
  PROVE  /\ Type(w) = kSmi       => ReadOut(w) = Number(asI32(w))
         /\ Type(w) = kDouble    => ReadOut(w) = Dbl(w)
         /\ Type(w) = kUndefined => ReadOut(w) = Undefined
         /\ Type(w) = kNull      => ReadOut(w) = Null
         /\ Type(w) = kBoolean   => ReadOut(w) = Bool(w = true)
         /\ Type(w) = kObject    => ReadOut(w) = Object(addrT(w))
         /\ Type(w) = kString    =>
              ReadOut(w) = IF addrT(w) \in DOMAIN Heap THEN Str(Heap[addrT(w)].v) ELSE Wild
         /\ Type(w) \notin {kSmi, kDouble, kUndefined, kNull, kBoolean, kObject, kString} =>
              ReadOut(w) = Wild
<1> USE DEF ReadOut, kSmi, kDouble, kUndefined, kNull, kBoolean, kString, kObject
<1>1. Type(w) = kSmi => ReadOut(w) = Number(asI32(w))
  OBVIOUS
<1>2. Type(w) = kDouble => ReadOut(w) = Dbl(w)
  OBVIOUS
<1>3. Type(w) = kUndefined => ReadOut(w) = Undefined
  OBVIOUS
<1>4. Type(w) = kNull => ReadOut(w) = Null
  OBVIOUS
<1>5. Type(w) = kBoolean => ReadOut(w) = Bool(w = true)
  OBVIOUS
<1>6. Type(w) = kObject => ReadOut(w) = Object(addrT(w))
  OBVIOUS
<1>7. Type(w) = kString =>
        ReadOut(w) = IF addrT(w) \in DOMAIN Heap THEN Str(Heap[addrT(w)].v) ELSE Wild
  OBVIOUS
<1>8. Type(w) \notin {kSmi, kDouble, kUndefined, kNull, kBoolean, kObject, kString} =>
        ReadOut(w) = Wild
  OBVIOUS
<1> QED
  BY <1>1, <1>2, <1>3, <1>4, <1>5, <1>6, <1>7, <1>8

\* So what a word is shown as tells its type.
LEMMA TypeOfShown ==
  ASSUME NEW w
  PROVE  /\ ReadOut(w).t = "Number"    => Type(w) \in {kSmi, kDouble}
         /\ ReadOut(w).t = "Undefined" => Type(w) = kUndefined
         /\ ReadOut(w).t = "Null"      => Type(w) = kNull
         /\ ReadOut(w).t = "Boolean"   => Type(w) = kBoolean
         /\ ReadOut(w).t = "String"    => Type(w) = kString
         /\ ReadOut(w).t = "Object"    => Type(w) = kObject
<1>1. Dbl(w).t \in {"Number", "Wild"}
  BY DEF Dbl, Number, Wild
<1> QED
  BY <1>1, ReadOutOf DEF Number, Undefined, Null, Bool, Object, Str, Wild

\* The word of an integer: its lowest bit is the integer's, and it is read back
\* with its sign.
LEMMA IntegerWord ==
  ASSUME NEW i \in Int, -Half <= 2 * i, 2 * i < Half
  PROVE  /\ FromI32(i) \in Nat
         /\ FromI32(i) # true
         /\ isSmi(FromI32(i)) => ReadOut(FromI32(i)) = Number(i)
<1>1. Half >= 32
  OBVIOUS
<1>2. i % Half = IF i >= 0 THEN i ELSE i + Half
  BY SMTT(30)
<1>3. FromI32(i) \in Nat /\ FromI32(i) # true
  BY <1>1, <1>2 DEF FromI32, true, FromPointer, kBoolean
<1>4. FromI32(i) % Half = i % Half
  BY <1>1, <1>2, SMTT(30) DEF FromI32
<1>5. asI32(FromI32(i)) = i
  BY <1>2, <1>4 DEF asI32
<1>6. isSmi(FromI32(i)) => Type(FromI32(i)) = kSmi
  BY DEF Type
<1> QED
  BY <1>3, <1>5, <1>6, ReadOutOf

LEMMA BooleanToNumber ==
  ASSUME NEW w, Type(w) = kBoolean
  PROVE  /\ w = true => JS_ToNumber(w) = {FromI32(1)}
         /\ w # true => JS_ToNumber(w) = {FromI32(0)}
<1>1. JS_ToNumber(w) = {FromI32(IF w = true THEN 1 ELSE 0)}
  BY DEF JS_ToNumber, kSmi, kDouble, kUndefined, kNull, kBoolean
<1> QED
  BY <1>1

LEMMA ZeroIsEven == ~isSmi(FromI32(0))
<1>1. 0 % Half = 0
  BY SMTT(30)
<1> QED
  BY <1>1, SMTT(30) DEF FromI32, isSmi

\* The word of a pointer: its type and its address are read back.
LEMMA PointerWord ==
  ASSUME NEW a \in Nat, a % 16 = 0, NEW tag \in {0, 2, 4, 6, 8, 10, 12, 14}
  PROVE  /\ FromPointer(a, tag) \in Nat
         /\ ~isSmi(FromPointer(a, tag))
         /\ Tag(FromPointer(a, tag)) = tag
         /\ addrT(FromPointer(a, tag)) = a
<1>1. a + tag \in Nat /\ (a + tag) % 16 = tag
  BY SMTT(30)
<1>2. (a + tag) % 2 = 0
  BY SMTT(30)
<1> QED
  BY <1>1, <1>2 DEF FromPointer, isSmi, Tag, addrT


LEMMA SingletonWords ==
  /\ undefined \in Nat /\ Tag(undefined) = kUndefined /\ ~isSmi(undefined)
  /\ null \in Nat /\ Tag(null) = kNull /\ ~isSmi(null)
  /\ true \in Nat /\ Tag(true) = kBoolean /\ ~isSmi(true)
  /\ false \in Nat /\ Tag(false) = kBoolean /\ ~isSmi(false) /\ false # true
  BY DEF undefined, null, true, false, FromPointer, Tag, isSmi, kUndefined, kNull, kBoolean

\* The word of a value on the heap is read back.
LEMMA HeapWord ==
  ASSUME NEW a \in DOMAIN Heap
  PROVE  /\ Heap[a].kind = "Double" => ReadOut(FromPointer(a, kDouble)) = Number(Heap[a].v)
         /\ Heap[a].kind = "String" => ReadOut(FromPointer(a, kString)) = Str(Heap[a].v)
         /\ ReadOut(FromObject(a)) = Object(a)
<1>1. a \in Nat /\ a % 16 = 0
  OBVIOUS
<1>2. FromPointer(a, kDouble) = a
  BY <1>1 DEF FromPointer, kDouble
<1>3. Type(FromPointer(a, kDouble)) = kDouble
  BY <1>1, PointerWord DEF Type, kDouble
<1>4. Type(FromPointer(a, kString)) = kString /\ addrT(FromPointer(a, kString)) = a
  BY <1>1, PointerWord DEF Type, kString
<1>5. Type(FromPointer(a, kObject)) = kObject /\ addrT(FromPointer(a, kObject)) = a
  BY <1>1, PointerWord DEF Type, kObject
<1> QED
  BY <1>2, <1>3, <1>4, <1>5, ReadOutOf DEF Dbl, FromObject

LEMMA SingletonsShown ==
  /\ ReadOut(undefined) = Undefined
  /\ ReadOut(null) = Null
  /\ ReadOut(true) = Bool(TRUE)
  /\ ReadOut(false) = Bool(FALSE)
  BY SingletonWords, ReadOutOf DEF Type

LEMMA InitInv == WordInit => IInv
  BY SingletonWords, SingletonsShown DEF WordInit, IInv, Meant, EvenStaysEven, ReadsBack, Undefined

\* What a conversion gives when the word is read as the value it was made for.
LEMMA ConvertTyped ==
  ASSUME IInv, Tagged, Converts(oop), NEW w \in JS_ToNumber(oop),
         value.t \in {"Number", "Undefined", "Null", "Boolean"}
  PROVE  /\ w \in Nat
         /\ value.t = "Number" => w = oop
         /\ value.t = "Undefined" => ~isSmi(w) /\ ReadOut(w) = Number(NaN)
         /\ value.t = "Null" => w = FromI32(0)
         /\ value.t = "Boolean" =>
              \/ value = Bool(TRUE) /\ w = FromI32(1)
              \/ value = Bool(FALSE) /\ w = FromI32(0)
<1>1. ReadOut(oop) = value /\ oop \in Nat
  BY DEF IInv, ReadsBack
<1>2. CASE value.t = "Number"
  <2>1. Type(oop) \in {kSmi, kDouble}
    BY <1>1, <1>2, TypeOfShown
  <2> QED
    BY <1>1, <1>2, <2>1 DEF JS_ToNumber, kSmi, kDouble, kUndefined, kNull, kBoolean
<1>3. CASE value.t = "Undefined"
  <2>1. Type(oop) = kUndefined
    BY <1>1, <1>3, TypeOfShown
  <2>2. PICK a \in DOMAIN Heap : 
          /\ Heap[a].kind = "Double" /\ Heap[a].v = NaN
          /\ w = FromPointer(a, kDouble)
    BY <2>1 DEF MadeDouble, JS_ToNumber, kSmi, kDouble, kUndefined, kNull, kBoolean
  <2>3. w \in Nat /\ ~isSmi(w)
    BY <2>2, PointerWord DEF kDouble
  <2>4. ReadOut(w) = Number(NaN)
    BY <2>2, HeapWord
  <2> QED
    BY <1>3, <2>3, <2>4
<1>4. CASE value.t = "Null"
  <2>1. Type(oop) = kNull
    BY <1>1, <1>4, TypeOfShown
  <2>2. w = FromI32(0)
    BY <2>1 DEF JS_ToNumber, kSmi, kDouble, kUndefined, kNull, kBoolean
  <2> QED
    BY <1>4, <2>2, IntegerWord
<1>5. CASE value.t = "Boolean"
  <2>1. Type(oop) = kBoolean
    BY <1>1, <1>5, TypeOfShown
  <2>2. value = Bool(oop = true)
    BY <1>1, <2>1, ReadOutOf
  <2>3. CASE oop = true
    <3>1. w = FromI32(1)
      BY <2>1, <2>3, BooleanToNumber
    <3>2. value = Bool(TRUE)
      BY <2>2, <2>3
    <3> QED
      BY <1>5, <3>1, <3>2, IntegerWord
  <2>4. CASE oop # true
    <3>1. w = FromI32(0)
      BY <2>1, <2>4, BooleanToNumber
    <3>2. value = Bool(FALSE)
      BY <2>2, <2>4
    <3> QED
      BY <1>5, <3>1, <3>2, IntegerWord
  <2> QED
    BY <2>3, <2>4
<1> QED
  BY <1>2, <1>3, <1>4, <1>5

\* An even integer's word is converted to itself, a double's or an integer's.
LEMMA ConvertEven ==
  ASSUME IInv, ~Tagged, Converts(oop), NEW w \in JS_ToNumber(oop)
  PROVE  w \in Nat /\ ~isSmi(w) /\ w # true
<1> USE DEF JS_ToNumber, kSmi, kDouble, kUndefined, kNull, kBoolean
<1>1. oop \in Nat /\ ~isSmi(oop) /\ oop # true /\ Type(oop) # kSmi
  <2>1. from = "i32" /\ ~isSmi(oop)
    BY DEF Tagged
  <2>2. Type(oop) = Tag(oop) /\ Tag(oop) # 1
    BY <2>1, SMT DEF Type, Tag, isSmi, IInv
  <2> QED
    BY <2>1, <2>2 DEF IInv, EvenStaysEven
<1>2. CASE Type(oop) = kDouble
  BY <1>1, <1>2
<1>3. CASE Type(oop) = kUndefined
  <2>1. PICK a \in DOMAIN Heap : w = FromPointer(a, kDouble)
    BY <1>3 DEF MadeDouble
  <2>2. w \in Nat /\ ~isSmi(w) /\ Tag(w) = kDouble
    BY <2>1, PointerWord
  <2> QED
    BY <2>2, SingletonWords
<1>4. CASE Type(oop) = kNull
  <2>1. w = FromI32(0)
    BY <1>4
  <2> QED
    BY <2>1, IntegerWord, ZeroIsEven
<1>5. CASE Type(oop) = kBoolean
  <2>1. w = FromI32(0)
    BY <1>1, <1>5, BooleanToNumber
  <2> QED
    BY <2>1, IntegerWord, ZeroIsEven
<1> QED
  BY <1>1, <1>2, <1>3, <1>4, <1>5 DEF Converts

LEMMA StepInv == IInv /\ [WordNext]_wordVars => IInv'
<1> SUFFICES ASSUME IInv, [WordNext]_wordVars
             PROVE  IInv'
  OBVIOUS
<1> USE DEF Let
<1>1. CASE LetSmi
  <2>1. PICK i \in -(Half \div 2) .. (Half \div 2) - 1 : Let(FromI32(i), Number(i), "i32")
    BY <1>1 DEF LetSmi
  <2>2. i \in Int /\ -Half <= 2 * i /\ 2 * i < Half
    OBVIOUS
  <2>3. oop' = FromI32(i) /\ value' = Number(i) /\ from' = "i32"
    BY <2>1
  <2> QED
    BY <2>2, <2>3, IntegerWord DEF IInv, Meant, EvenStaysEven, ReadsBack, Tagged, Number
<1>2. CASE LetPointer
  <2>1. PICK a \in DOMAIN Heap :
          \/ Heap[a].kind = "Double" /\ Let(FromPointer(a, kDouble), Number(Heap[a].v), "pointer")
          \/ Heap[a].kind = "String" /\ Let(FromPointer(a, kString), Str(Heap[a].v), "pointer")
    BY <1>2 DEF LetPointer
  <2>2. FromPointer(a, kDouble) \in Nat /\ FromPointer(a, kString) \in Nat
    BY PointerWord DEF kDouble, kString
  <2>3. oop' \in Nat /\ from' = "pointer" /\ ReadOut(oop') = value' /\ value'.t \in {"Number", "String"}
    BY <2>1, <2>2, HeapWord DEF Number, Str
  <2>4. ReadOut(oop)' = value'
    BY <2>3 DEF ReadOut, Dbl, Type, Tag, isSmi, asI32, addrT
  <2> QED
    BY <2>3, <2>4 DEF IInv, Meant, EvenStaysEven, ReadsBack
<1>3. CASE LetObject
  <2>1. PICK a \in DOMAIN Heap : Let(FromObject(a), Object(a), "object")
    BY <1>3 DEF LetObject
  <2>2. FromObject(a) \in Nat
    BY PointerWord DEF FromObject, kObject
  <2>3. oop' \in Nat /\ from' = "object" /\ ReadOut(oop') = value' /\ value'.t = "Object"
    BY <2>1, <2>2, HeapWord DEF Object
  <2> QED
    BY <2>3 DEF IInv, Meant, EvenStaysEven, ReadsBack
<1>4. CASE LetSingleton
  <2>1. oop' \in Nat /\ from' = "pointer" /\ ReadOut(oop') = value'
    BY <1>4, SingletonWords, SingletonsShown DEF LetSingleton
  <2>2. value'.t \in {"Undefined", "Null", "Boolean"}
    BY <1>4 DEF LetSingleton, Undefined, Null, Bool
  <2> QED
    BY <2>1, <2>2 DEF IInv, Meant, EvenStaysEven, ReadsBack
<1>5. CASE ToNumber
  <2>1. PICK w \in JS_ToNumber(oop) :
          Let(w, NumberOf(value), IF value.t \in {"Null", "Boolean"} THEN "i32" ELSE from)
    BY <1>5 DEF ToNumber
  <2>2. Converts(oop) /\ value.t \in {"Number", "Undefined", "Null", "Boolean"}
    BY <1>5 DEF ToNumber
  <2>3. NumberOf(value).t = "Number"
    BY <2>2 DEF NumberOf, Number
  <2>4. oop' \in Nat /\ (from' = "i32" => oop' # true)
    <3>1. CASE Tagged
      <4>1. CASE value.t = "Number"
        <5>1. w = oop
          BY <2>1, <2>2, <3>1, <4>1, ConvertTyped
        <5> QED
          BY <2>1, <4>1, <5>1 DEF IInv, EvenStaysEven
      <4>2. CASE value.t = "Undefined"
        <5>1. w \in Nat /\ from # "i32"
          BY <2>1, <2>2, <3>1, <4>2, ConvertTyped DEF IInv, EvenStaysEven
        <5> QED
          BY <2>1, <4>2, <5>1
      <4>3. CASE value.t \in {"Null", "Boolean"}
        <5>1. w \in {FromI32(0), FromI32(1)}
          BY <2>1, <2>2, <3>1, <4>3, ConvertTyped
        <5>2. w \in Nat /\ w # true
          BY <5>1, IntegerWord
        <5> QED
          BY <2>1, <5>2
      <4> QED
        BY <2>2, <4>1, <4>2, <4>3
    <3>2. CASE ~Tagged
      BY <2>1, <2>2, <3>2, ConvertEven
    <3> QED
      BY <3>1, <3>2
  <2>5. (from' = "i32" => isSmi(oop')) => ReadOut(oop') = value'
    <3>1. CASE Tagged
      <4>1. CASE value.t = "Number"
        <5>1. w = oop /\ NumberOf(value) = value
          BY <2>1, <2>2, <3>1, <4>1, ConvertTyped DEF NumberOf
        <5>2. oop' = oop /\ value' = value
          BY <2>1, <5>1
        <5>3. ReadOut(oop) = value
          BY <3>1 DEF IInv, ReadsBack
        <5> QED
          BY <5>2, <5>3
      <4>2. CASE value.t = "Undefined"
        <5>1. ReadOut(w) = Number(NaN)
          BY <2>1, <2>2, <3>1, <4>2, ConvertTyped
        <5>2. NumberOf(value) = Number(NaN)
          BY <4>2 DEF NumberOf
        <5> QED
          BY <2>1, <5>1, <5>2
      <4>3. CASE value.t = "Null"
        <5>1. w = FromI32(0) /\ from' = "i32"
          BY <2>1, <2>2, <3>1, <4>3, ConvertTyped
        <5>2. NumberOf(value) = Number(0)
          BY <4>3 DEF NumberOf
        <5>3. oop' = FromI32(0) /\ value' = Number(0)
          BY <2>1, <5>1, <5>2
        <5>4. isSmi(FromI32(0)) => ReadOut(FromI32(0)) = Number(0)
          BY IntegerWord
        <5> QED
          BY <5>1, <5>3, <5>4
      <4>4. CASE value.t = "Boolean"
        <5>1. from' = "i32"
          BY <2>1, <4>4
        <5>2. \/ value = Bool(TRUE) /\ w = FromI32(1)
              \/ value = Bool(FALSE) /\ w = FromI32(0)
          BY <2>1, <2>2, <3>1, <4>4, ConvertTyped
        <5>3. NumberOf(Bool(TRUE)) = Number(1) /\ NumberOf(Bool(FALSE)) = Number(0)
          BY DEF NumberOf, Bool
        <5>4. \E i \in {0, 1} : oop' = FromI32(i) /\ value' = Number(i)
          BY <2>1, <5>2, <5>3
        <5>5. \A i \in {0, 1} : isSmi(FromI32(i)) => ReadOut(FromI32(i)) = Number(i)
          BY IntegerWord
        <5> QED
          BY <5>1, <5>4, <5>5
      <4> QED
        BY <2>2, <4>1, <4>2, <4>3, <4>4
    <3>2. CASE ~Tagged
      <4>1. from' = "i32" /\ ~isSmi(w)
        BY <2>1, <2>2, <3>2, ConvertEven DEF Tagged, IInv, EvenStaysEven
      <4> QED
        BY <2>1, <4>1
    <3> QED
      BY <3>1, <3>2
  <2> QED
    BY <2>1, <2>3, <2>4, <2>5 DEF IInv, Meant, EvenStaysEven, ReadsBack, Tagged
<1>6. CASE UNCHANGED wordVars
  BY <1>6 DEF wordVars, IInv, Meant, EvenStaysEven, ReadsBack, Tagged
<1> QED
  BY <1>1, <1>2, <1>3, <1>4, <1>5, <1>6 DEF WordNext

\* The inductive invariant holds in every reachable state.
THEOREM Invariance == WordSpec => []IInv
  BY InitInv, StepInv, PTL DEF WordSpec

\* Every word that is tagged is shown as the value it was made for (ReadsBack),
\* whatever the width of a word and the heap.
THEOREM WordsReadBack == WordSpec => []ReadsBack
<1>1. IInv => ReadsBack
  BY DEF IInv
<1> QED
  BY <1>1, Invariance, PTL

\* JS_ToBoolean takes every tagged word but a string as the language takes the value.
THEOREM ConditionsAgree == WordSpec => []BooleansAgree
<1>1. IInv => BooleansAgree
  <2> SUFFICES ASSUME IInv, Tagged, value.t # "String"
               PROVE  ~Aborts(oop) /\ (JS_ToBoolean(oop) <=> BooleanOf(value))
    BY DEF BooleansAgree
  <2>1. ReadOut(oop) = value /\ oop \in Nat /\ Meant
    BY DEF IInv, ReadsBack
  <2>2. Type(oop) = kSmi <=> isSmi(oop)
    BY <2>1, SMT DEF Type, Tag, isSmi, kSmi
  <2>a. ~Aborts(oop)
    BY <2>1, TypeOfShown DEF Meant, Aborts
  <2>3. CASE value.t = "Number" /\ Type(oop) = kSmi
    <3>1. asI32(oop) \in Int /\ asI32(oop) # NaN
      BY <2>1, SMTT(30) DEF asI32, NaN
    <3>2. value = Number(asI32(oop))
      BY <2>1, <2>3, ReadOutOf
    <3>3. BooleanOf(value) <=> (asI32(oop) # 0)
      BY <3>1, <3>2 DEF BooleanOf, Number
    <3>4. JS_ToBoolean(oop) <=> (asI32(oop) # 0)
      BY <2>2, <2>3 DEF JS_ToBoolean, kSmi, kDouble, kUndefined, kNull, kBoolean, kString, kObject
    <3> QED
      BY <2>a, <3>3, <3>4
  <2>4. CASE value.t = "Number" /\ Type(oop) = kDouble
    <3>1. value = Dbl(oop)
      BY <2>1, <2>4, ReadOutOf
    <3>2. BooleanOf(value) <=> (value.v \notin {NaN, 0})
      BY <2>4 DEF BooleanOf
    <3>3. JS_ToBoolean(oop) <=> (Dbl(oop).v \notin {NaN, 0})
      BY <2>2, <2>4 DEF JS_ToBoolean, kSmi, kDouble, kUndefined, kNull, kBoolean, kString, kObject
    <3> QED
      BY <2>a, <3>1, <3>2, <3>3
  <2>5. CASE value.t \in {"Undefined", "Null"}
    <3>1. Type(oop) \in {kUndefined, kNull}
      BY <2>1, <2>5, TypeOfShown
    <3>2. JS_ToBoolean(oop) <=> FALSE
      BY <2>2, <3>1 DEF JS_ToBoolean, kSmi, kDouble, kUndefined, kNull, kBoolean, kString, kObject
    <3>3. BooleanOf(value) <=> FALSE
      BY <2>5 DEF BooleanOf
    <3> QED
      BY <2>a, <3>2, <3>3
  <2>6. CASE value.t = "Boolean"
    <3>1. Type(oop) = kBoolean
      BY <2>1, <2>6, TypeOfShown
    <3>2. JS_ToBoolean(oop) <=> (oop = true)
      BY <2>2, <3>1 DEF JS_ToBoolean, kSmi, kDouble, kUndefined, kNull, kBoolean, kString, kObject
    <3>3. value = Bool(oop = true)
      BY <2>1, <3>1, ReadOutOf
    <3>4. value.v = 1 <=> oop = true
      BY <3>3 DEF Bool
    <3>5. BooleanOf(value) <=> value.v = 1
      BY <2>6 DEF BooleanOf
    <3> QED
      BY <2>a, <3>2, <3>4, <3>5
  <2>7. CASE value.t = "Object"
    <3>1. Type(oop) = kObject
      BY <2>1, <2>7, TypeOfShown
    <3>2. JS_ToBoolean(oop) <=> TRUE
      BY <2>2, <3>1
         DEF JS_ToBoolean, kSmi, kDouble, kUndefined, kNull, kBoolean, kString, kObject
    <3>3. BooleanOf(value) <=> TRUE
      BY <2>7 DEF BooleanOf
    <3> QED
      BY <2>a, <3>2, <3>3
  <2>8. value.t = "Number" => Type(oop) \in {kSmi, kDouble}
    BY <2>1, TypeOfShown
  <2> QED
    BY <2>1, <2>3, <2>4, <2>5, <2>6, <2>7, <2>8 DEF Meant
<1> QED
  BY <1>1, Invariance, PTL
=============================================================================
