--------------------------- MODULE CollectorProofs ---------------------------
(***************************************************************************)
(* That references survive collections, for heaps of every size, sources,  *)
(* paths and numbers of collections.  The argument is the usual one of     *)
(* three colours.  The words of the roots and of the objects that have     *)
(* been scanned are settled: they lead to the objects they were made for,  *)
(* at places that will not be reclaimed.  The words of grey and condemned  *)
(* objects still lead to the objects or to what was left where they were,  *)
(* and a fix settles such a word unless it finds an ObjectDesc that was    *)
(* forwarded.  An id has one live place, so that no object is split.       *)
(*                                                                         *)
(* The program follows some words without looking at the kind of what it   *)
(* finds.  That it finds what it expects is a matter of ids alone, which   *)
(* no collection changes: the kind each object was made with is kept in    *)
(* the proof.                                                              *)
(***************************************************************************)
EXTENDS Collector, FiniteSetTheorems, WellFoundedInduction, TLAPS

-----------------------------------------------------------------------------
(***************************************************************************)
(* What is there.  kindOf is the kind each object was made with, by id: a  *)
(* forwarded object has lost its own.  The definitions that a scan needs   *)
(* between two fixes are of a heap h and a grey set g.                     *)
(***************************************************************************)
Objs  == [id : 0 .. nextId, kind : Kinds, word : Words, rest : Seq(Words)]
Scans == [heap : [Addresses -> Objs], grey : SUBSET Addresses, confused : SUBSET Reasons,
          fixed : Seq(Words)]

Condemned == white \ nailed

Live(h, a) == h[a].kind \notin Forwarders \union {"free"}

\* The word means nothing, or an object that was made, by the tag of its kind.
Meant(kindOf, w) == w.id # 0 => w.id < nextId /\ w.tag = TagOf(kindOf[w.id])

IsRef(kindOf, w, kind) == w.id # 0 /\ kindOf[w.id] = kind

\* It leads to the object or to what was left there when it was moved.
Leads(h, w) == w.id # 0 => w.a \in Addresses /\ h[w.a].id = w.id

\* It leads to the object, at a place that will not be reclaimed.
Settled(h, w) ==
  w.id # 0 => w.a \in Addresses /\ h[w.a].id = w.id /\ Live(h, w.a) /\ w.a \notin Condemned

WordsIn(o) == {o.word} \union {o.rest[i] : i \in DOMAIN o.rest}

\* What the program knows of an object of a kind and does not look at.
Shape(kindOf, o) ==
  /\ o.kind \in Prims \union {"CharArray"} => o.word.id = 0 /\ o.rest = <<>>
  /\ o.kind = "PlainArray" => o.word.id = 0
  /\ o.kind = "EnvironmentMap" => \E n \in Nat : o.word = Number(n)
  /\ o.kind = "Closure" => IsRef(kindOf, o.word, "Function")
  /\ o.kind = "Function" =>
       /\ IsRef(kindOf, o.word, "EnvironmentMap")
       /\ Len(o.rest) = 2 /\ IsRef(kindOf, o.rest[2], "PlainArray")
  /\ o.kind = "Environment" =>
       /\ IsRef(kindOf, o.word, "EnvironmentMap")
       /\ Len(o.rest) = 3 /\ \A i \in {2, 3} : IsRef(kindOf, o.rest[i], "PlainArray")

\* The words of an object that is neither grey nor condemned have been fixed.
LiveObject(kindOf, h, g, a) ==
  /\ h[a].id \in 1 .. nextId - 1 /\ h[a].kind = kindOf[h[a].id]
  /\ Shape(kindOf, h[a])
  /\ \A w \in WordsIn(h[a]) : Meant(kindOf, w) /\ Leads(h, w)
  /\ a \notin g \union Condemned => \A w \in WordsIn(h[a]) : Settled(h, w)

\* A forwarded primitive has the address of its copy.
Moved(kindOf, h, a) ==
  /\ a \in Condemned /\ h[a].id \in 1 .. nextId - 1
  /\ h[a].kind = "kFwd16" =>
       /\ kindOf[h[a].id] \in Prims
       /\ h[a].word.a \in Addresses \ white
       /\ h[h[a].word.a].id = h[a].id /\ Live(h, h[a].word.a)

Objects(kindOf, h, g) ==
  /\ \A a \in Addresses :
       /\ h[a].kind = "free" => h[a].id = 0 /\ a \notin white
       /\ h[a].kind \in Forwarders => Moved(kindOf, h, a)
       /\ Live(h, a) => LiveObject(kindOf, h, g, a)
  /\ \A a, b \in Addresses : Live(h, a) /\ Live(h, b) /\ h[a].id = h[b].id => a = b
  /\ \A a \in g : Live(h, a) /\ a \notin Condemned

(***************************************************************************)
(* The roots, and the literals that are in an encoder only.                *)
(***************************************************************************)
Leading(kindOf, h) == {w \in Words : Meant(kindOf, w) /\ Leads(h, w)}
Good(kindOf, h)    == {w \in Words : Meant(kindOf, w) /\ Settled(h, w)}

Roots(kindOf) ==
  /\ cstack \in [Variables -> Good(kindOf, heap)]
  /\ stack \in Seq(IF gc = "flipped" THEN Leading(kindOf, heap) ELSE Good(kindOf, heap))
  /\ ~RootCreated => stack = <<>>
  /\ encoders \in Seq(Seq(Good(kindOf, heap)))
  /\ gc # "off" => \A e \in DOMAIN encoders : encoders[e] = <<>>

\* Frames on m_stack: two numbers, a closure and an environment under each base.
Frames(kindOf) ==
  \E F \in SUBSET (4 .. bp) :
    /\ bp \in F \union {0}
    /\ \A f \in F :
         /\ IsRef(kindOf, stack[f], "Environment") /\ IsRef(kindOf, stack[f - 1], "Closure")
         /\ \E g \in F \union {0} : g <= f - 4 /\ stack[f - 2] = Number(g)

\* What the C++ variables hold where the program uses them.
InVariables(kindOf) ==
  LET Holds(v, kind) == IsRef(kindOf, cstack[v], kind)
  IN  /\ pc \in {"names", "fun"} => Holds("envMap", "EnvironmentMap")
      /\ pc = "fun" => Holds("literals", "PlainArray")
      /\ pc = "main" => Holds("fun", "Function")
      /\ pc \in {"args0", "locals0", "env0"} \/ RootCreated => Holds("m_closure", "Closure")
      /\ pc \in {"args0", "locals0", "env0", "args", "locals", "env"} => Holds("closure", "Closure")
      /\ pc \in {"locals0", "env0", "locals", "env"} => Holds("args", "PlainArray")
      /\ pc \in {"env0", "env"} => Holds("locals", "PlainArray")
      /\ RootCreated => Holds("m_env", "Environment")
      /\ pc = "closure" => Holds("fun", "Function")
      /\ pc \in {"args", "locals", "env"} => \E n \in 0 .. Operands : cstack.nArgs = Number(n)
      /\ pc \in {"collect", "restore"} => bp = Len(stack) /\ bp # 0

Sane(kindOf) == Objects(kindOf, heap, grey) /\ Roots(kindOf) /\ Frames(kindOf) /\ InVariables(kindOf)

\* Where the compiler is, and what makes a collection and an instruction drain the queue.
Compiling ==
  pc \in {"compile", "envMap", "names", "fun"} =>
    /\ source # <<>> /\ Nested(source, Len(encoders))
    /\ pc # "compile" => Head(source).k = "exit"

Queue ==
  /\ pc \in {"fetch", "halted"} =>
       messages = <<>> \/ (pc = "fetch" /\ path \in Paths /\ stack = <<>>)
  /\ pc \in Allocating \ {"closure", "args", "locals", "env"} => path \in Paths
  /\ gc # "off" => pc \in Allocating \union {"restore"}

Typed == TypeOK /\ nextId \in Nat \ {0}

IInv ==
  /\ Typed /\ Compiling /\ Queue
  /\ confused = {} => \E kindOf \in [Nat -> Kinds] : Sane(kindOf)

-----------------------------------------------------------------------------
(***************************************************************************)
(* Addresses: the least and the greatest of some.                          *)
(***************************************************************************)
LEMMA Least ==
  ASSUME NEW T, T \subseteq Nat, T # {}
  PROVE  \E x \in T : \A y \in T : x <= y
<1> DEFINE R == {ss \in Nat \X Nat : ss[1] < ss[2]}
<1>1. IsWellFoundedOn(R, Nat)
  BY NatLessThanWellFounded DEF OpToRel
<1>2. \A x, y \in Nat : <<x, y>> \notin R => y <= x
  OBVIOUS
<1> HIDE DEF R
<1>3. PICK x \in T : \A y \in T : <<y, x>> \notin R
  BY <1>1, WFMin
<1>4. \A y \in T : x <= y
  BY <1>2, <1>3
<1> QED
  BY <1>4

\* What holds of 0 and of n + 1 if of n holds of all numbers: there is no least exception.
LEMMA NoException ==
  ASSUME NEW T, T \subseteq Nat, 0 \notin T, \A n \in Nat : n + 1 \in T => n \in T
  PROVE  T = {}
<1>1. SUFFICES ASSUME T # {} PROVE FALSE
  OBVIOUS
<1>2. PICK x \in T : \A y \in T : x <= y
  BY <1>1, Least
<1>3. x \in Nat /\ x # 0
  BY <1>2
<1>4. x - 1 \in Nat /\ (x - 1) + 1 = x /\ ~(x <= x - 1)
  BY <1>3
<1> QED
  BY <1>2, <1>4

LEMMA AddressFacts == Cardinality(Addresses) \in Nat /\ Addresses \subseteq Nat \ {0}
<1>1. Cardinality(Addresses) \in Nat
  BY AddressesAssumption, FS_CardinalityType
<1>2. \A n \in Nat : 1 .. n \subseteq Nat \ {0}
  OBVIOUS
<1> QED
  BY <1>1, <1>2, AddressesAssumption

LEMMA MinIs == ASSUME NEW S, S \subseteq Addresses, S # {} PROVE Min(S) \in S
<1>1. S \subseteq Nat
  BY AddressFacts
<1>2. \E x \in S : \A y \in S : x <= y
  BY <1>1, Least
<1> QED
  BY <1>2 DEF Min

LEMMA MaxIs == ASSUME NEW S, S \subseteq Addresses, S # {} PROVE Max(S) \in S
<1> DEFINE n == Cardinality(Addresses)
           T == {n - x : x \in S}
<1>1. n \in Nat /\ S \subseteq 1 .. n
  BY AddressFacts, AddressesAssumption
<1> HIDE DEF n
<1>2. \A x \in 1 .. n : n - x \in Nat
  BY <1>1
<1>3. T \subseteq Nat
  BY <1>1, <1>2
<1>4. T # {}
  <2>1. PICK x \in S : TRUE
    OBVIOUS
  <2>2. n - x \in T
    OBVIOUS
  <2> QED
    BY <2>2
<1>5. PICK t \in T : \A y \in T : t <= y
  <2> HIDE DEF T
  <2> QED
    BY <1>3, <1>4, Least
<1>6. PICK x \in S : t = n - x
  OBVIOUS
<1>7. \A y \in S : n - x <= n - y
  BY <1>5, <1>6
<1>8. \A a, b \in 1 .. n : n - a <= n - b => a >= b
  BY <1>1
<1>9. \A y \in S : x >= y
  BY <1>1, <1>7, <1>8
<1> QED
  BY <1>9 DEF Max

LEMMA MaxOfTwo == ASSUME NEW a \in Int, NEW b \in Int PROVE Max({a, b}) \in {a, b} /\ Max({a, b}) >= a
<1>1. \E x \in {a, b} : \A y \in {a, b} : x >= y
  OBVIOUS
<1> QED
  BY <1>1 DEF Max

-----------------------------------------------------------------------------
(***************************************************************************)
(* The recursive functions are what their equations say.                   *)
(***************************************************************************)
LEMMA FixedUpToIs ==
  ASSUME NEW words, Len(words) \in Nat
  PROVE  LET after == FixedUpTo(words)
         IN  after = [n \in 0 .. Len(words) |->
                        IF n = 0 THEN [heap |-> heap, grey |-> grey, confused |-> confused, fixed |-> <<>>]
                        ELSE FixOop(after[n - 1], words[n])]
<1> DEFINE base == [heap |-> heap, grey |-> grey, confused |-> confused, fixed |-> <<>>]
           Next1(c, n) == FixOop(c, words[n])
           Is(f, m) == f = [n \in 0 .. m |-> IF n = 0 THEN base ELSE Next1(f[n - 1], n)]
           T == {m \in Nat : ~\E f : Is(f, m)}
<1> HIDE DEF Next1, base
<1>1. 0 \notin T
  <2>1. Is([n \in 0 .. 0 |-> base], 0)
    OBVIOUS
  <2> QED
    BY <2>1
<1>2. ASSUME NEW m \in Nat, m + 1 \in T PROVE m \in T
  <2>1. SUFFICES ASSUME NEW f, Is(f, m) PROVE \E h : Is(h, m + 1)
    BY <1>2
  <2> DEFINE h == [n \in 0 .. m + 1 |-> IF n = m + 1 THEN Next1(f[m], m + 1) ELSE f[n]]
  <2>2. \A n \in 0 .. m : f[n] = IF n = 0 THEN base ELSE Next1(f[n - 1], n)
    BY <2>1
  <2>3. ASSUME NEW n \in 0 .. m + 1 PROVE h[n] = IF n = 0 THEN base ELSE Next1(h[n - 1], n)
    <3>1. CASE n = m + 1
      <4>1. n # 0 /\ n - 1 = m /\ m \in 0 .. m + 1 /\ m # m + 1
        BY <3>1
      <4> QED
        BY <3>1, <4>1
    <3>2. CASE n = 0
      <4>1. n \in 0 .. m /\ n # m + 1
        BY <3>2
      <4> QED
        BY <3>2, <4>1, <2>2
    <3>3. CASE n # 0 /\ n # m + 1
      <4>1. n \in 0 .. m /\ n - 1 \in 0 .. m + 1 /\ n - 1 # m + 1
        BY <3>3
      <4>2. h[n] = f[n] /\ h[n - 1] = f[n - 1]
        BY <3>3, <4>1
      <4> HIDE DEF h
      <4> QED
        BY <3>3, <4>1, <4>2, <2>2
    <3> QED
      BY <3>1, <3>2, <3>3
  <2>4. Is(h, m + 1)
    <3>1. h = [n \in 0 .. m + 1 |-> h[n]]
      OBVIOUS
    <3> HIDE DEF h
    <3> QED
      BY <2>3, <3>1
  <2> QED
    BY <2>4
<1>3. T = {}
  <2>1. T \subseteq Nat
    OBVIOUS
  <2> HIDE DEF T
  <2> QED
    BY <1>1, <1>2, <2>1, NoException
<1>4. \E f : Is(f, Len(words))
  BY <1>3
<1>5. FixedUpTo(words) = CHOOSE f : Is(f, Len(words))
  BY DEF FixedUpTo, base, Next1
<1>6. Is(FixedUpTo(words), Len(words))
  BY <1>4, <1>5
<1> QED
  BY <1>6 DEF base, Next1

-----------------------------------------------------------------------------
(***************************************************************************)
(* One fix.                                                                *)
(***************************************************************************)
\* What a fix may do: let the word be, give it the new address of what was moved, or
\* move what it leads to.
Fixed(c, w, r) ==
  LET room    == {a \in Addresses : c.heap[a].kind = "free"}
      reasons == {x \in Reasons : \/ x = "forwarder" /\ c.heap[w.a].kind = "kFwd"
                                  \/ x = "unwritten" /\ w.id = 0
                                  \/ x = "no room" /\ room = {}}
      Same    == r.heap = c.heap /\ r.grey = c.grey
  IN  \/ w.a \notin white /\ Same /\ r.confused = c.confused /\ r.fixed = Append(c.fixed, w)
      \/ /\ w.a \in white /\ IsFwd(c.heap[w.a]) # 0 /\ Same
         /\ r.confused = c.confused \union reasons
         /\ r.fixed = Append(c.fixed, [w EXCEPT !.a = IsFwd(c.heap[w.a])])
      \/ /\ w.a \in white /\ IsFwd(c.heap[w.a]) = 0 /\ Same
         /\ w.a \in nailed \/ c.heap[w.a].kind = "free" \/ room = {}
         /\ r.confused = c.confused \union reasons
         /\ r.fixed = Append(c.fixed, w)
      \/ /\ w.a \in Condemned /\ IsFwd(c.heap[w.a]) = 0
         /\ c.heap[w.a].kind # "free"
         /\ r.confused = c.confused \union reasons
         /\ \E new \in room :
              /\ r.heap = [c.heap EXCEPT ![new] = c.heap[w.a], ![w.a] = Fwd(c.heap[w.a], new)]
              /\ r.grey = IF c.heap[w.a].kind \in Scanned THEN c.grey \union {new} ELSE c.grey
              /\ r.fixed = Append(c.fixed, [w EXCEPT !.a = new])

LEMMA FixOopIs ==
  ASSUME NEW c \in Scans, NEW w
  PROVE  LET r == FixOop(c, w)
         IN  Fixed(c, w, r) /\ r = [heap |-> r.heap, grey |-> r.grey, confused |-> r.confused, fixed |-> r.fixed]
<1> DEFINE room    == {a \in Addresses : c.heap[a].kind = "free"}
           reasons == {x \in Reasons : \/ x = "forwarder" /\ c.heap[w.a].kind = "kFwd"
                                       \/ x = "unwritten" /\ w.id = 0
                                       \/ x = "no room" /\ room = {}}
           r       == FixOop(c, w)
<1>1. /\ c = [heap |-> c.heap, grey |-> c.grey, confused |-> c.confused, fixed |-> c.fixed]
      /\ room = {a \in Addresses : c.heap[a].kind = "free"}
  BY DEF Scans
<1>2. room # {} => Min(room) \in room
  BY MinIs
<1>3. reasons = {x \in Reasons : \/ x = "forwarder" /\ c.heap[w.a].kind = "kFwd"
                                 \/ x = "unwritten" /\ w.id = 0
                                 \/ x = "no room" /\ room = {}}
  OBVIOUS
<1>4. r = IF w.a \notin white THEN [c EXCEPT !.fixed = Append(@, w)]
          ELSE IF IsFwd(c.heap[w.a]) # 0
            THEN [c EXCEPT !.fixed = Append(@, [w EXCEPT !.a = IsFwd(c.heap[w.a])]),
                           !.confused = @ \union reasons]
          ELSE IF w.a \in nailed \/ c.heap[w.a].kind = "free" \/ room = {}
            THEN [c EXCEPT !.fixed = Append(@, w), !.confused = @ \union reasons]
          ELSE [heap     |-> [c.heap EXCEPT ![Min(room)] = c.heap[w.a],
                                            ![w.a] = Fwd(c.heap[w.a], Min(room))],
                grey     |-> IF c.heap[w.a].kind \in Scanned THEN c.grey \union {Min(room)} ELSE c.grey,
                confused |-> c.confused \union reasons,
                fixed    |-> Append(c.fixed, [w EXCEPT !.a = Min(room)])]
  BY DEF FixOop
<1> HIDE DEF room, reasons, r
<1>5. CASE w.a \notin white
  <2>1. r = [c EXCEPT !.fixed = Append(@, w)]
    BY <1>4, <1>5
  <2>2. /\ r.heap = c.heap /\ r.grey = c.grey /\ r.confused = c.confused
        /\ r.fixed = Append(c.fixed, w) 
        /\ r = [heap |-> r.heap, grey |-> r.grey, confused |-> r.confused, fixed |-> r.fixed]
    BY <2>1, <1>1
  <2> QED
    BY <2>2, <1>5 DEF Fixed, r
<1>6. CASE w.a \in white /\ IsFwd(c.heap[w.a]) # 0
  <2> DEFINE v == [w EXCEPT !.a = IsFwd(c.heap[w.a])]
  <2> HIDE DEF v
  <2>1. r = [c EXCEPT !.fixed = Append(@, v), !.confused = @ \union reasons]
    BY <1>4, <1>6 DEF v
  <2>2. /\ r.heap = c.heap /\ r.grey = c.grey /\ r.confused = c.confused \union reasons
        /\ r.fixed = Append(c.fixed, v) 
        /\ r = [heap |-> r.heap, grey |-> r.grey, confused |-> r.confused, fixed |-> r.fixed]
    BY <2>1, <1>1
  <2> QED
    BY <2>2, <1>3, <1>6, <1>1 DEF Fixed, r, v
<1>7. CASE w.a \in white /\ IsFwd(c.heap[w.a]) = 0 /\ (w.a \in nailed \/ c.heap[w.a].kind = "free" \/ room = {})
  <2>1. r = [c EXCEPT !.fixed = Append(@, w), !.confused = @ \union reasons]
    BY <1>4, <1>7
  <2>2. /\ r.heap = c.heap /\ r.grey = c.grey /\ r.confused = c.confused \union reasons
        /\ r.fixed = Append(c.fixed, w) 
        /\ r = [heap |-> r.heap, grey |-> r.grey, confused |-> r.confused, fixed |-> r.fixed]
    BY <2>1, <1>1
  <2> QED
    BY <2>2, <1>3, <1>7, <1>1 DEF Fixed, r
<1>8. CASE /\ w.a \in white /\ IsFwd(c.heap[w.a]) = 0
           /\ ~(w.a \in nailed \/ c.heap[w.a].kind = "free" \/ room = {})
  <2>1. /\ r.heap = [c.heap EXCEPT ![Min(room)] = c.heap[w.a], ![w.a] = Fwd(c.heap[w.a], Min(room))]
        /\ r.grey = IF c.heap[w.a].kind \in Scanned THEN c.grey \union {Min(room)} ELSE c.grey
        /\ r.confused = c.confused \union reasons
        /\ r.fixed = Append(c.fixed, [w EXCEPT !.a = Min(room)])
        
        /\ r = [heap |-> r.heap, grey |-> r.grey, confused |-> r.confused, fixed |-> r.fixed]
    BY <1>4, <1>8
  <2>2. Min(room) \in room
    BY <1>2, <1>8
  <2>3. w.a \in Condemned
    BY <1>8 DEF Condemned
  <2> QED
    BY <2>1, <2>2, <2>3, <1>3, <1>8, <1>1 DEF Fixed, r
<1> QED
  BY <1>5, <1>6, <1>7, <1>8

\* What holds of the words and objects of any collection, misled or not.
LEMMA FixOopTyped ==
  ASSUME NEW c \in Scans, NEW w \in Words, nextId \in Nat, white \subseteq Addresses,
         NEW r, Fixed(c, w, r), r = [heap |-> r.heap, grey |-> r.grey, confused |-> r.confused, fixed |-> r.fixed]
  PROVE  /\ r \in Scans /\ c.confused \subseteq r.confused
         /\ \E v \in Words : r.fixed = Append(c.fixed, v) /\ v.id = w.id /\ v.tag = w.tag
<1>1. /\ c.heap \in [Addresses -> Objs] /\ c.grey \subseteq Addresses /\ c.confused \subseteq Reasons
      /\ c.fixed \in Seq(Words)
  BY DEF Scans
<1>2. w = [a |-> w.a, id |-> w.id, tag |-> w.tag] /\ w.a \in Int /\ w.id \in 0 .. nextId
      /\ w.tag \in {0, 1, 2, 12, 14}
  BY DEF Words
<1>3. \A n \in Int : [w EXCEPT !.a = n] \in Words /\ [w EXCEPT !.a = n].id = w.id
                     /\ [w EXCEPT !.a = n].tag = w.tag
  BY <1>2 DEF Words
<1>4. ASSUME NEW a \in Addresses
      PROVE  /\ c.heap[a] \in Objs /\ IsFwd(c.heap[a]) \in Int
             /\ \A n \in Int : Fwd(c.heap[a], n) \in Objs
  <2>1. /\ c.heap[a] \in Objs /\ c.heap[a].word.a \in Int
    BY <1>1 DEF Objs, Words
  <2>2. \A n \in Int : [Nil EXCEPT !.a = n] \in Words
    <3>1. \A n \in Int : [Nil EXCEPT !.a = n] = [a |-> n, id |-> 0, tag |-> 0]
      BY DEF Nil
    <3>2. 0 \in 0 .. nextId
      OBVIOUS
    <3> QED
      BY <3>1, <3>2 DEF Words
  <2>3. ASSUME NEW n \in Int PROVE Fwd(c.heap[a], n) \in Objs
    <3>1. "kFwd16" \in Kinds /\ "kFwd" \in Kinds
      BY DEF Kinds, Forwarders
    <3>2. CASE c.heap[a].kind \in Prims
      <4>1. Fwd(c.heap[a], n) = [c.heap[a] EXCEPT !.kind = "kFwd16", !.word = [Nil EXCEPT !.a = n]]
        BY <3>2 DEF Fwd
      <4> QED
        BY <2>1, <2>2, <3>1, <4>1 DEF Objs
    <3>3. CASE c.heap[a].kind \notin Prims
      <4>1. Fwd(c.heap[a], n) = [c.heap[a] EXCEPT !.kind = "kFwd"]
        BY <3>3 DEF Fwd
      <4> QED
        BY <2>1, <3>1, <4>1 DEF Objs
    <3> QED
      BY <3>2, <3>3
  <2>4. IsFwd(c.heap[a]) \in Int
    BY <2>1 DEF IsFwd
  <2> QED
    BY <2>1, <2>3, <2>4
<1>5. r \in Scans <=> /\ r.heap \in [Addresses -> Objs] /\ r.grey \subseteq Addresses
                      /\ r.confused \subseteq Reasons /\ r.fixed \in Seq(Words)
  BY DEF Scans
<1>6. c.confused \subseteq r.confused /\ r.confused \subseteq Reasons
  BY <1>1 DEF Fixed
<1>7. r.heap \in [Addresses -> Objs] /\ r.grey \subseteq Addresses
  <2>1. CASE r.heap = c.heap /\ r.grey = c.grey
    BY <2>1, <1>1
  <2>2. ASSUME w.a \in Condemned, NEW new \in Addresses,
               r.heap = [c.heap EXCEPT ![new] = c.heap[w.a], ![w.a] = Fwd(c.heap[w.a], new)],
               r.grey \in {c.grey, c.grey \union {new}}
        PROVE  r.heap \in [Addresses -> Objs] /\ r.grey \subseteq Addresses
    <3>1. w.a \in Addresses /\ new \in Int
      BY <2>2, AddressFacts DEF Condemned
    <3>2. c.heap[w.a] \in Objs /\ Fwd(c.heap[w.a], new) \in Objs
      BY <3>1, <1>4
    <3> HIDE DEF Fwd
    <3> QED
      BY <3>1, <3>2, <2>2, <1>1
  <2> QED
    BY <2>1, <2>2 DEF Fixed
<1>8. \E v \in Words : r.fixed = Append(c.fixed, v) /\ v.id = w.id /\ v.tag = w.tag
  <2>1. CASE r.fixed = Append(c.fixed, w)
    BY <2>1
  <2>2. CASE w.a \in white /\ r.fixed = Append(c.fixed, [w EXCEPT !.a = IsFwd(c.heap[w.a])])
    BY <2>2, <1>3, <1>4
  <2>3. CASE \E new \in Addresses : r.fixed = Append(c.fixed, [w EXCEPT !.a = new])
    <3>1. PICK new \in Addresses : r.fixed = Append(c.fixed, [w EXCEPT !.a = new])
      BY <2>3
    <3>2. new \in Int
      BY AddressFacts
    <3> QED
      BY <3>1, <3>2, <1>3
  <2> QED
    BY <2>1, <2>2, <2>3 DEF Fixed
<1>9. r.fixed \in Seq(Words)
  <2>1. PICK v \in Words : r.fixed = Append(c.fixed, v)
    BY <1>8
  <2>2. \A s \in Seq(Words), x \in Words : Append(s, x) \in Seq(Words)
    OBVIOUS
  <2> QED
    BY <2>1, <2>2, <1>1
<1> QED
  BY <1>5, <1>6, <1>7, <1>8, <1>9

\* What a fix does to objects that were there.
Kept(h, new) ==
  \A a \in Addresses :
    h[a].id # 0 => new[a].id = h[a].id /\ (a \notin Condemned => new[a] = h[a])

LEMMA KeptWords ==
  ASSUME NEW h, NEW new, Kept(h, new), NEW w
  PROVE  (Leads(h, w) => Leads(new, w)) /\ (Settled(h, w) => Settled(new, w))
BY DEF Kept, Leads, Settled, Live

LEMMA FwdIs ==
  ASSUME NEW o \in Objs, NEW n
  PROVE  /\ Fwd(o, n).id = o.id
         /\ o.kind \in Prims => Fwd(o, n).kind = "kFwd16" /\ Fwd(o, n).word.a = n
         /\ o.kind \notin Prims => Fwd(o, n).kind = "kFwd"
<1>1. CASE o.kind \in Prims
  <2>1. Fwd(o, n) = [o EXCEPT !.kind = "kFwd16", !.word = [Nil EXCEPT !.a = n]]
    BY <1>1 DEF Fwd
  <2>2. [Nil EXCEPT !.a = n].a = n
    BY DEF Nil
  <2> HIDE DEF Nil
  <2> QED
    BY <1>1, <2>1, <2>2 DEF Objs
<1>2. CASE o.kind \notin Prims
  <2>1. Fwd(o, n) = [o EXCEPT !.kind = "kFwd"]
    BY <1>2 DEF Fwd
  <2> QED
    BY <1>2, <2>1 DEF Objs
<1> QED
  BY <1>1, <1>2

\* An object is moved: its copy is at new, at old is its forwarded remains.
Moves(h, g, old, new, h2, g2) ==
  /\ old \in Condemned /\ Live(h, old) /\ new \in Addresses /\ h[new].kind = "free"
  /\ h2 = [h EXCEPT ![new] = h[old], ![old] = Fwd(h[old], new)]
  /\ g2 = IF h[old].kind \in Scanned THEN g \union {new} ELSE g

LEMMA MoveSound ==
  ASSUME white \subseteq Addresses, NEW kindOf, NEW h \in [Addresses -> Objs], NEW g \in SUBSET Addresses,
         Objects(kindOf, h, g), NEW old, NEW new, NEW h2, NEW g2, Moves(h, g, old, new, h2, g2)
  PROVE  /\ Objects(kindOf, h2, g2) /\ Kept(h, h2) /\ g \subseteq g2
         /\ h2[new].id = h[old].id /\ Live(h2, new) /\ new \notin Condemned
<1> USE DEF Moves
<1>1. /\ old \in Addresses /\ old # new /\ new \notin white /\ new \notin Condemned /\ old \in white
      /\ h[old] \in Objs
  BY DEF Objects, Live, Condemned
<1>2. /\ h2[new] = h[old] /\ h2[old] = Fwd(h[old], new)
      /\ \A a \in Addresses \ {old, new} : h2[a] = h[a]
  BY <1>1
<1>3. /\ h2[old].id = h[old].id
      /\ h[old].kind \in Prims => h2[old].kind = "kFwd16" /\ h2[old].word.a = new
      /\ h[old].kind \notin Prims => h2[old].kind = "kFwd"
  BY <1>1, <1>2, FwdIs
<1>4. h[new].id = 0 /\ LiveObject(kindOf, h, g, old)
  BY <1>1 DEF Objects
<1>5. ~Live(h2, old) /\ Live(h2, new)
  BY <1>1, <1>2, <1>3 DEF Live, Forwarders
<1>6. Kept(h, h2)
  BY <1>1, <1>2, <1>3, <1>4 DEF Kept
<1>7. \A a \in Addresses \ {old, new} : Live(h2, a) <=> Live(h, a)
  BY <1>2 DEF Live
<1>8. ASSUME NEW a \in Addresses, Live(h2, a) PROVE LiveObject(kindOf, h2, g2, a)
  <2>1. CASE a = new
    <3>1. h2[a] = h[old]
      BY <1>2, <2>1
    <3>2. \A w \in WordsIn(h[old]) : Meant(kindOf, w) /\ Leads(h2, w)
      BY <1>4, <1>6, KeptWords DEF LiveObject
    <3>3. CASE h[old].kind \in Scanned
      <4>1. a \in g2
        BY <2>1, <3>3
      <4> QED
        BY <1>4, <3>1, <3>2, <4>1 DEF LiveObject
    <3>4. CASE h[old].kind \notin Scanned
      <4>1. h[old].kind \in Prims \union {"CharArray"}
        BY <1>1, <3>4 DEF Objs, Kinds, Live, Scanned
      <4>2. \A w \in WordsIn(h[old]) : Settled(h2, w)
        BY <1>4, <4>1 DEF LiveObject, Shape, WordsIn, Settled
      <4> QED
        BY <1>4, <3>1, <3>2, <4>2 DEF LiveObject
    <3> QED
      BY <3>3, <3>4
  <2>2. CASE a # new
    <3>1. a # old /\ Live(h, a) /\ h2[a] = h[a]
      BY <2>2, <1>8, <1>2, <1>5, <1>7
    <3>2. LiveObject(kindOf, h, g, a)
      BY <3>1 DEF Objects
    <3>3. \A w \in WordsIn(h[a]) : Leads(h2, w) /\ (Settled(h, w) => Settled(h2, w))
      BY <3>2, <1>6, KeptWords DEF LiveObject
    <3>4. a \notin g2 => a \notin g
      OBVIOUS
    <3> QED
      BY <3>1, <3>2, <3>3, <3>4 DEF LiveObject
  <2> QED
    BY <2>1, <2>2
<1>9. ASSUME NEW a \in Addresses, h2[a].kind \in Forwarders PROVE Moved(kindOf, h2, a)
  <2>1. CASE a = old
    <3>1. h2[a].kind = "kFwd16" => kindOf[h2[a].id] \in Prims
      BY <2>1, <1>3, <1>4 DEF LiveObject
    <3> QED
      BY <2>1, <3>1, <1>1, <1>2, <1>3, <1>4, <1>5 DEF Moved, LiveObject
  <2>2. CASE a # old
    <3>1. a # new
      BY <1>5, <1>9 DEF Live
    <3>2. h2[a] = h[a] /\ Moved(kindOf, h, a)
      BY <2>2, <3>1, <1>2, <1>9 DEF Objects
    <3>3. ASSUME h[a].kind = "kFwd16"
          PROVE  h2[h[a].word.a].id = h[a].id /\ Live(h2, h[a].word.a)
      <4>1. /\ h[a].word.a \in Addresses \ white /\ h[h[a].word.a].id = h[a].id /\ Live(h, h[a].word.a)
        BY <3>2, <3>3 DEF Moved
      <4>2. h[a].word.a \notin {old, new}
        BY <4>1, <1>1 DEF Live
      <4> QED
        BY <4>1, <4>2, <1>2, <1>7
    <3> QED
      BY <3>2, <3>3 DEF Moved
  <2> QED
    BY <2>1, <2>2
<1>10. ASSUME NEW a \in Addresses, h2[a].kind = "free" PROVE h2[a].id = 0 /\ a \notin white
  <2>1. a # old /\ a # new
    BY <1>10, <1>2, <1>3 DEF Live
  <2> QED
    BY <2>1, <1>2, <1>10 DEF Objects
<1>11. ASSUME NEW a \in Addresses, NEW b \in Addresses, Live(h2, a), Live(h2, b), h2[a].id = h2[b].id
       PROVE  a = b
  <2> DEFINE Was(x) == IF x = new THEN old ELSE x
  <2>1. ASSUME NEW x \in Addresses, Live(h2, x)
        PROVE  Was(x) \in Addresses /\ Live(h, Was(x)) /\ h[Was(x)].id = h2[x].id /\ x # old
    BY <2>1, <1>1, <1>2, <1>5, <1>7
  <2>2. Was(a) = Was(b)
    <3>1. /\ Was(a) \in Addresses /\ Was(b) \in Addresses /\ Live(h, Was(a)) /\ Live(h, Was(b))
          /\ h[Was(a)].id = h[Was(b)].id
      BY <1>11, <2>1
    <3> HIDE DEF Was
    <3> QED
      BY <3>1 DEF Objects
  <2> QED
    BY <1>11, <2>1, <2>2
<1>12. ASSUME NEW a \in g2 PROVE Live(h2, a) /\ a \notin Condemned
  <2>1. CASE a = new
    BY <2>1, <1>1, <1>5
  <2>2. CASE a # new
    <3>1. a \in g /\ Live(h, a) /\ a \notin Condemned
      BY <2>2 DEF Objects
    <3>2. a \in Addresses /\ a # old
      BY <3>1
    <3> QED
      BY <2>2, <3>1, <3>2, <1>7
  <2> QED
    BY <2>1, <2>2
<1>13. Objects(kindOf, h2, g2)
  BY <1>8, <1>9, <1>10, <1>11, <1>12 DEF Objects
<1> QED
  BY <1>1, <1>2, <1>5, <1>6, <1>13

\* A fix that nothing misleads settles the word.
FixedFrom(kindOf, c, w, r) ==
  /\ c \in Scans /\ w \in Words /\ Fixed(c, w, r) /\ r.confused = {}
  /\ Objects(kindOf, c.heap, c.grey) /\ Meant(kindOf, w) /\ Leads(c.heap, w)

LEMMA FixOopSound ==
  ASSUME nextId \in Nat, white \subseteq Addresses,
         NEW kindOf, NEW c, NEW w, NEW r, FixedFrom(kindOf, c, w, r)
  PROVE  /\ Objects(kindOf, r.heap, r.grey) /\ Kept(c.heap, r.heap) /\ c.grey \subseteq r.grey
         /\ \E v \in Words : /\ r.fixed = Append(c.fixed, v)
                             /\ v.id = w.id /\ v.tag = w.tag /\ (w.id = 0 => v = w)
                             /\ Settled(r.heap, v)
<1> USE DEF FixedFrom
<1>1. /\ c.heap \in [Addresses -> Objs] /\ c.grey \subseteq Addresses
  BY DEF Scans
<1>2. w = [a |-> w.a, id |-> w.id, tag |-> w.tag] /\ w.a \in Int
  BY DEF Words
<1>3. \A n \in Int : /\ [w EXCEPT !.a = n] \in Words /\ [w EXCEPT !.a = n].id = w.id
                     /\ [w EXCEPT !.a = n].tag = w.tag /\ [w EXCEPT !.a = n].a = n
  BY <1>2 DEF Words
<1>4. Kept(c.heap, c.heap)
  BY DEF Kept
<1>5. w.a \in white => c.heap[w.a].kind # "kFwd" /\ w.id # 0
  BY DEF Fixed, Reasons
<1>6. CASE w.a \notin white /\ r.heap = c.heap /\ r.grey = c.grey /\ r.fixed = Append(c.fixed, w)
  <2>1. Settled(c.heap, w)
    <3>1. SUFFICES ASSUME w.id # 0
                   PROVE  /\ w.a \in Addresses /\ c.heap[w.a].id = w.id
                          /\ Live(c.heap, w.a) /\ w.a \notin Condemned
      BY DEF Settled
    <3>2. w.a \in Addresses /\ c.heap[w.a].id = w.id /\ w.a \notin Condemned
      BY <3>1, <1>6 DEF Leads, Condemned
    <3>3. Live(c.heap, w.a)
      BY <3>1, <3>2 DEF Objects, Moved, Live
    <3> QED
      BY <3>2, <3>3
  <2> QED
    BY <2>1, <1>4, <1>6
<1>7. CASE /\ w.a \in white /\ IsFwd(c.heap[w.a]) # 0 /\ r.heap = c.heap /\ r.grey = c.grey
           /\ r.fixed = Append(c.fixed, [w EXCEPT !.a = IsFwd(c.heap[w.a])])
  <2> DEFINE n == c.heap[w.a].word.a
  <2>1. c.heap[w.a].kind = "kFwd16" /\ IsFwd(c.heap[w.a]) = n
    BY <1>5, <1>7 DEF IsFwd, Forwarders
  <2>2. Moved(kindOf, c.heap, w.a) /\ w.a \in Addresses
    BY <1>7, <2>1 DEF Objects, Forwarders
  <2>3. n \in Addresses \ white /\ c.heap[n].id = c.heap[w.a].id /\ Live(c.heap, n)
    BY <2>1, <2>2 DEF Moved
  <2>4. n \in Int /\ n \notin Condemned
    <3>1. \A a \in Addresses : a \in Int
      BY AddressFacts
    <3> HIDE DEF n
    <3> QED
      BY <2>3, <3>1 DEF Condemned
  <2> HIDE DEF n
  <2>5. c.heap[w.a].id = w.id
    BY <1>5, <1>7 DEF Leads
  <2>6. Settled(c.heap, [w EXCEPT !.a = n])
    BY <2>3, <2>4, <2>5, <1>3 DEF Settled
  <2> QED
    BY <2>1, <2>4, <2>6, <1>3, <1>4, <1>5, <1>7
<1>8. CASE /\ w.a \in white /\ IsFwd(c.heap[w.a]) = 0 /\ r.heap = c.heap /\ r.grey = c.grey
           /\ w.a \in nailed \/ c.heap[w.a].kind = "free" \/ {a \in Addresses : c.heap[a].kind = "free"} = {}
           /\ r.fixed = Append(c.fixed, w)
  <2>1. w.a \in Addresses /\ c.heap[w.a].id = w.id /\ w.id # 0
    BY <1>5, <1>8 DEF Leads
  <2>2. c.heap[w.a].kind # "free"
    BY <1>8, <2>1 DEF Objects
  <2>3. {a \in Addresses : c.heap[a].kind = "free"} # {}
    BY <1>8 DEF Fixed, Reasons
  <2>4. w.a \in nailed
    BY <1>8, <2>2, <2>3
  <2>5. w.a \notin Condemned
    BY <2>4 DEF Condemned
  <2>6. Live(c.heap, w.a)
    BY <2>1, <2>2, <2>5 DEF Objects, Moved, Live
  <2>7. Settled(c.heap, w)
    BY <2>1, <2>5, <2>6 DEF Settled
  <2> QED
    BY <2>7, <1>4, <1>5, <1>8
<1>9. ASSUME NEW new \in Addresses, c.heap[new].kind = "free",
             w.a \in Condemned, IsFwd(c.heap[w.a]) = 0, c.heap[w.a].kind # "free",
             r.heap = [c.heap EXCEPT ![new] = c.heap[w.a], ![w.a] = Fwd(c.heap[w.a], new)],
             r.grey = IF c.heap[w.a].kind \in Scanned THEN c.grey \union {new} ELSE c.grey,
             r.fixed = Append(c.fixed, [w EXCEPT !.a = new])
      PROVE  /\ Objects(kindOf, r.heap, r.grey) /\ Kept(c.heap, r.heap) /\ c.grey \subseteq r.grey
             /\ \E v \in Words : /\ r.fixed = Append(c.fixed, v)
                                 /\ v.id = w.id /\ v.tag = w.tag /\ (w.id = 0 => v = w)
                                 /\ Settled(r.heap, v)
  <2>1. w.a \in white /\ w.a \in Addresses /\ c.heap[w.a].id = w.id /\ w.id # 0
    BY <1>5, <1>9 DEF Leads, Condemned
  <2>2. c.heap[w.a].kind # "kFwd16"
    <3>1. SUFFICES ASSUME c.heap[w.a].kind = "kFwd16" PROVE FALSE
      OBVIOUS
    <3>2. Moved(kindOf, c.heap, w.a)
      BY <3>1, <2>1 DEF Objects, Forwarders
    <3>3. c.heap[w.a].word.a # 0
      BY <3>1, <3>2, AddressFacts DEF Moved
    <3> QED
      BY <3>1, <3>3, <1>9 DEF IsFwd, Forwarders
  <2>3. Live(c.heap, w.a)
    BY <2>1, <2>2, <1>5, <1>9 DEF Live, Forwarders
  <2>4. /\ Objects(kindOf, r.heap, r.grey) /\ Kept(c.heap, r.heap) /\ c.grey \subseteq r.grey
        /\ r.heap[new].id = c.heap[w.a].id /\ Live(r.heap, new) /\ new \notin Condemned
    <3>1. Moves(c.heap, c.grey, w.a, new, r.heap, r.grey)
      BY <1>9, <2>3 DEF Moves
    <3> QED
      BY <1>1, <3>1, MoveSound
  <2>5. Settled(r.heap, [w EXCEPT !.a = new])
    BY <2>1, <2>4, <1>3, AddressFacts DEF Settled
  <2>6. new \in Int
    BY AddressFacts
  <2> QED
    BY <2>1, <2>4, <2>5, <2>6, <1>3, <1>9
<1> QED
  BY <1>6, <1>7, <1>8, <1>9 DEF Fixed

(***************************************************************************)
(* All words of a root or an object, one after the other.                  *)
(***************************************************************************)
CollectorTyped ==
  /\ heap \in [Addresses -> Objs] /\ grey \in SUBSET Addresses /\ confused \in SUBSET Reasons
  /\ white \subseteq Addresses /\ nextId \in Nat

LEMMA Appended ==
  ASSUME NEW S, NEW s \in Seq(S), NEW v \in S
  PROVE  /\ Append(s, v) \in Seq(S) /\ Len(Append(s, v)) = Len(s) + 1 /\ Len(s) \in Nat
         /\ Append(s, v)[Len(s) + 1] = v
         /\ \A i \in 1 .. Len(s) : Append(s, v)[i] = s[i]
OBVIOUS

LEMMA FirstAndNext ==
  ASSUME NEW words \in Seq(Words)
  PROVE  LET after == FixedUpTo(words)
         IN  /\ Len(words) \in Nat /\ \A n \in 1 .. Len(words) : words[n] \in Words
             /\ after[0] = [heap |-> heap, grey |-> grey, confused |-> confused, fixed |-> <<>>]
             /\ \A n \in Nat : n + 1 <= Len(words) => after[n + 1] = FixOop(after[n], words[n + 1])
<1>1. Len(words) \in Nat /\ \A n \in 1 .. Len(words) : words[n] \in Words
  OBVIOUS
<1> DEFINE after == FixedUpTo(words)
<1>2. after = [n \in 0 .. Len(words) |->
                 IF n = 0 THEN [heap |-> heap, grey |-> grey, confused |-> confused, fixed |-> <<>>]
                 ELSE FixOop(after[n - 1], words[n])]
  BY <1>1, FixedUpToIs
<1> HIDE DEF after
<1>3. 0 \in 0 .. Len(words)
  BY <1>1
<1>4. after[0] = [heap |-> heap, grey |-> grey, confused |-> confused, fixed |-> <<>>]
  BY <1>2, <1>3
<1>5. ASSUME NEW n \in Nat, n + 1 <= Len(words) PROVE after[n + 1] = FixOop(after[n], words[n + 1])
  <2>1. n + 1 \in 0 .. Len(words) /\ n + 1 # 0 /\ (n + 1) - 1 = n
    BY <1>1, <1>5
  <2>2. after[n + 1] = FixOop(after[(n + 1) - 1], words[n + 1])
    BY <1>2, <2>1
  <2> QED
    BY <2>1, <2>2
<1> QED
  BY <1>1, <1>4, <1>5 DEF after

FixedTyped(words, n, c) ==
  /\ c \in Scans /\ Len(c.fixed) = n /\ confused \subseteq c.confused
  /\ \A i \in 1 .. n : c.fixed[i].id = words[i].id /\ c.fixed[i].tag = words[i].tag

LEMMA FixUpToTyped ==
  ASSUME CollectorTyped, NEW words \in Seq(Words), NEW m \in Nat, m <= Len(words)
  PROVE  FixedTyped(words, m, FixedUpTo(words)[m])
<1> DEFINE after == FixedUpTo(words)
           T     == {n \in Nat : n <= Len(words) /\ ~FixedTyped(words, n, after[n])}
<1>1. /\ Len(words) \in Nat /\ \A n \in 1 .. Len(words) : words[n] \in Words
      /\ after[0] = [heap |-> heap, grey |-> grey, confused |-> confused, fixed |-> <<>>]
      /\ \A n \in Nat : n + 1 <= Len(words) => after[n + 1] = FixOop(after[n], words[n + 1])
  BY FirstAndNext
<1> HIDE DEF after
<1>2. 0 \notin T
  <2>1. after[0] \in Scans /\ after[0].fixed = <<>> /\ after[0].confused = confused
    BY <1>1 DEF Scans, CollectorTyped
  <2> QED
    BY <2>1 DEF FixedTyped
<1>3. ASSUME NEW n \in Nat, n + 1 \in T PROVE n \in T
  <2>1. SUFFICES ASSUME FixedTyped(words, n, after[n]) PROVE FixedTyped(words, n + 1, after[n + 1])
    BY <1>1, <1>3
  <2> DEFINE c == after[n]
             r == after[n + 1]
             w == words[n + 1]
  <2>2. r = FixOop(c, w) /\ w \in Words /\ c \in Scans /\ Len(c.fixed) = n
    BY <1>1, <1>3, <2>1 DEF FixedTyped
  <2> HIDE DEF c, r, w
  <2>3. Fixed(c, w, r) /\ r = [heap |-> r.heap, grey |-> r.grey, confused |-> r.confused, fixed |-> r.fixed]
    BY <2>2, FixOopIs
  <2>4. /\ r \in Scans /\ c.confused \subseteq r.confused
        /\ \E v \in Words : r.fixed = Append(c.fixed, v) /\ v.id = w.id /\ v.tag = w.tag
    BY <2>2, <2>3, FixOopTyped DEF CollectorTyped
  <2>5. PICK v \in Words : r.fixed = Append(c.fixed, v) /\ v.id = w.id /\ v.tag = w.tag
    BY <2>4
  <2>6. c.fixed \in Seq(Words)
    BY <2>2 DEF Scans
  <2>7. /\ Len(r.fixed) = n + 1 /\ r.fixed[n + 1] = v
        /\ \A i \in 1 .. n : r.fixed[i] = c.fixed[i]
    BY <2>2, <2>5, <2>6, Appended
  <2>8. ASSUME NEW i \in 1 .. n + 1
        PROVE  r.fixed[i].id = words[i].id /\ r.fixed[i].tag = words[i].tag
    <3>1. CASE i = n + 1
      BY <3>1, <2>5, <2>7 DEF w
    <3>2. CASE i \in 1 .. n
      BY <3>2, <2>1, <2>7 DEF FixedTyped, c
    <3> QED
      BY <3>1, <3>2
  <2>9. confused \subseteq r.confused
    BY <2>1, <2>4 DEF FixedTyped, c
  <2>10. FixedTyped(words, n + 1, r)
    BY <2>4, <2>7, <2>8, <2>9 DEF FixedTyped
  <2> QED
    BY <2>10 DEF r
<1>4. T \subseteq Nat
  OBVIOUS
<1>5. T = {}
  <2> HIDE DEF T
  <2> QED
    BY <1>2, <1>3, <1>4, NoException
<1> QED
  BY <1>5 DEF after

\* Words of which each may lead to the remains of something.
AllLead(kindOf, words) ==
  \A i \in DOMAIN words : Meant(kindOf, words[i]) /\ Leads(heap, words[i])

FixedSound(kindOf, words, n, c) ==
  /\ Objects(kindOf, c.heap, c.grey) /\ Kept(heap, c.heap) /\ grey \subseteq c.grey
  /\ \A i \in 1 .. n : /\ words[i].id = 0 => c.fixed[i] = words[i]
                       /\ Settled(c.heap, c.fixed[i])

LEMMA FixUpToSound ==
  ASSUME CollectorTyped, NEW words \in Seq(Words), NEW kindOf, Objects(kindOf, heap, grey),
         AllLead(kindOf, words), NEW m \in Nat, m <= Len(words),
         FixedUpTo(words)[m].confused = {}
  PROVE  FixedSound(kindOf, words, m, FixedUpTo(words)[m])
<1> DEFINE after == FixedUpTo(words)
           Bad(n) == after[n].confused = {} /\ ~FixedSound(kindOf, words, n, after[n])
           T     == {n \in Nat : n <= Len(words) /\ Bad(n)}
<1>1. /\ Len(words) \in Nat /\ \A n \in 1 .. Len(words) : words[n] \in Words
      /\ after[0] = [heap |-> heap, grey |-> grey, confused |-> confused, fixed |-> <<>>]
      /\ \A n \in Nat : n + 1 <= Len(words) => after[n + 1] = FixOop(after[n], words[n + 1])
  BY FirstAndNext
<1>a. \A n \in Nat : n <= Len(words) => FixedTyped(words, n, after[n])
  BY FixUpToTyped
<1> HIDE DEF after
<1>2. 0 \notin T
  <2>1. after[0].heap = heap /\ after[0].grey = grey
    BY <1>1
  <2>2. Kept(heap, heap)
    BY DEF Kept
  <2> QED
    BY <2>1, <2>2 DEF FixedSound
<1>3. ASSUME NEW n \in Nat, n + 1 \in T PROVE n \in T
  <2> DEFINE c == after[n]
             r == after[n + 1]
             w == words[n + 1]
  <2>1. n + 1 <= Len(words) /\ n <= Len(words) /\ n + 1 \in 1 .. Len(words) /\ r.confused = {}
    BY <1>1, <1>3
  <2>2. r = FixOop(c, w) /\ w \in Words /\ c \in Scans /\ Len(c.fixed) = n
    BY <1>1, <1>a, <2>1 DEF FixedTyped
  <2>3. Meant(kindOf, w) /\ Leads(heap, w)
    <3>1. n + 1 \in DOMAIN words
      BY <2>1
    <3> QED
      BY <3>1 DEF AllLead
  <2> HIDE DEF c, r, w
  <2>4. Fixed(c, w, r) /\ r = [heap |-> r.heap, grey |-> r.grey, confused |-> r.confused, fixed |-> r.fixed]
    BY <2>2, FixOopIs
  <2>5. c.confused = {}
    <3>1. c.confused \subseteq r.confused
      BY <2>2, <2>4, FixOopTyped DEF CollectorTyped
    <3> QED
      BY <3>1, <2>1
  <2>6. SUFFICES ASSUME FixedSound(kindOf, words, n, c) PROVE FixedSound(kindOf, words, n + 1, r)
    BY <1>3, <2>1, <2>5 DEF c, r
  <2>7. Objects(kindOf, c.heap, c.grey) /\ Kept(heap, c.heap) /\ Leads(c.heap, w)
    BY <2>3, <2>6, KeptWords DEF FixedSound
  <2>8. /\ Objects(kindOf, r.heap, r.grey) /\ Kept(c.heap, r.heap) /\ c.grey \subseteq r.grey
        /\ \E v \in Words : /\ r.fixed = Append(c.fixed, v)
                            /\ v.id = w.id /\ v.tag = w.tag /\ (w.id = 0 => v = w)
                            /\ Settled(r.heap, v)
    <3>1. nextId \in Nat /\ white \subseteq Addresses
      BY DEF CollectorTyped
    <3>2. FixedFrom(kindOf, c, w, r)
      BY <2>1, <2>2, <2>3, <2>4, <2>7 DEF FixedFrom
    <3> QED
      BY <3>1, <3>2, FixOopSound
  <2>9. PICK v \in Words : r.fixed = Append(c.fixed, v) /\ (w.id = 0 => v = w) /\ Settled(r.heap, v)
    BY <2>8
  <2>10. /\ r.fixed[n + 1] = v
         /\ \A i \in 1 .. n : r.fixed[i] = c.fixed[i]
    <3>1. c.fixed \in Seq(Words)
      BY <2>2 DEF Scans
    <3> QED
      BY <3>1, <2>2, <2>9, Appended
  <2>11. ASSUME NEW i \in 1 .. n + 1
         PROVE  /\ words[i].id = 0 => r.fixed[i] = words[i]
                /\ Settled(r.heap, r.fixed[i])
    <3>1. CASE i = n + 1
      BY <3>1, <2>9, <2>10 DEF w
    <3>2. CASE i \in 1 .. n
      <4>1. r.fixed[i] = c.fixed[i] /\ (words[i].id = 0 => c.fixed[i] = words[i]) /\ Settled(c.heap, c.fixed[i])
        BY <3>2, <2>6, <2>10 DEF FixedSound
      <4> QED
        BY <4>1, <2>8, KeptWords
    <3> QED
      BY <3>1, <3>2
  <2>12. Kept(heap, r.heap)
    BY <2>7, <2>8 DEF Kept
  <2>13. grey \subseteq r.grey
    BY <2>6, <2>8 DEF FixedSound
  <2> QED
    BY <2>8, <2>11, <2>12, <2>13 DEF FixedSound
<1>4. T \subseteq Nat
  OBVIOUS
<1>5. T = {}
  <2> HIDE DEF T
  <2> QED
    BY <1>2, <1>3, <1>4, NoException
<1>6. ~Bad(m)
  BY <1>5
<1> QED
  BY <1>6 DEF after

LEMMA FixAllTyped ==
  ASSUME CollectorTyped, NEW words \in Seq(Words)
  PROVE  FixedTyped(words, Len(words), FixAll(words))
<1>1. Len(words) \in Nat /\ Len(words) <= Len(words)
  OBVIOUS
<1> QED
  BY <1>1, FixUpToTyped DEF FixAll

LEMMA FixAllSound ==
  ASSUME CollectorTyped, NEW words \in Seq(Words), NEW kindOf, Objects(kindOf, heap, grey),
         AllLead(kindOf, words), FixAll(words).confused = {}
  PROVE  FixedSound(kindOf, words, Len(words), FixAll(words))
<1>1. Len(words) \in Nat /\ Len(words) <= Len(words)
  OBVIOUS
<1> QED
  BY <1>1, FixUpToSound DEF FixAll

-----------------------------------------------------------------------------
(***************************************************************************)
(* Writing into an object.                                                 *)
(***************************************************************************)
Rewrites(kindOf, h, g, a, o) ==
  /\ Objects(kindOf, h, g) /\ a \in Addresses /\ Live(h, a) /\ a \notin Condemned
  /\ o.id = h[a].id /\ o.kind = h[a].kind /\ Shape(kindOf, o)
  /\ \A w \in WordsIn(o) : Meant(kindOf, w) /\ Settled(h, w)

LEMMA RewriteSound ==
  ASSUME NEW kindOf, NEW h \in [Addresses -> Objs], NEW g \in SUBSET Addresses, NEW a, NEW o,
         Rewrites(kindOf, h, g, a, o)
  PROVE  /\ Objects(kindOf, [h EXCEPT ![a] = o], g \ {a})
         /\ Good(kindOf, h) \subseteq Good(kindOf, [h EXCEPT ![a] = o])
<1> DEFINE new == [h EXCEPT ![a] = o]
<1>1. /\ Objects(kindOf, h, g) /\ a \in Addresses /\ Live(h, a) /\ a \notin Condemned
      /\ o.id = h[a].id /\ o.kind = h[a].kind /\ Shape(kindOf, o)
      /\ \A w \in WordsIn(o) : Meant(kindOf, w) /\ Settled(h, w)
  BY DEF Rewrites
<1>2. new[a] = o /\ \A b \in Addresses \ {a} : new[b] = h[b]
  BY <1>1
<1> HIDE DEF new
<1>3. \A b \in Addresses : new[b].id = h[b].id /\ new[b].kind = h[b].kind
  BY <1>1, <1>2
<1>4. \A b \in Addresses : Live(new, b) <=> Live(h, b)
  BY <1>3 DEF Live
<1>5. \A w : (Leads(h, w) => Leads(new, w)) /\ (Settled(h, w) => Settled(new, w))
             /\ (Settled(h, w) => Leads(h, w))
  BY <1>3, <1>4 DEF Leads, Settled
<1>6. ASSUME NEW b \in Addresses, Live(new, b) PROVE LiveObject(kindOf, new, g \ {a}, b)
  <2>1. LiveObject(kindOf, h, g, b) /\ Live(h, b)
    BY <1>1, <1>4, <1>6 DEF Objects
  <2>2. CASE b = a
    <3>1. \A w \in WordsIn(o) : Meant(kindOf, w) /\ Leads(new, w) /\ Settled(new, w)
      BY <1>1, <1>5
    <3> QED
      BY <2>1, <2>2, <3>1, <1>1, <1>2 DEF LiveObject
  <2>3. CASE b # a
    <3>1. new[b] = h[b]
      BY <1>2, <2>3
    <3>2. \A w \in WordsIn(h[b]) : Meant(kindOf, w) /\ Leads(new, w)
      BY <1>5, <2>1 DEF LiveObject
    <3>3. b \notin (g \ {a}) \union Condemned => \A w \in WordsIn(h[b]) : Settled(new, w)
      BY <1>5, <2>1, <2>3 DEF LiveObject
    <3> QED
      BY <2>1, <3>1, <3>2, <3>3 DEF LiveObject
  <2> QED
    BY <2>2, <2>3
<1>7. ASSUME NEW b \in Addresses, new[b].kind \in Forwarders PROVE Moved(kindOf, new, b)
  <2>1. h[b].kind \in Forwarders /\ b # a
    BY <1>1, <1>3, <1>7 DEF Live
  <2>2. Moved(kindOf, h, b) /\ new[b] = h[b]
    BY <1>1, <1>2, <2>1 DEF Objects
  <2> QED
    BY <2>2, <1>3, <1>4 DEF Moved
<1>8. ASSUME NEW b \in Addresses, new[b].kind = "free" PROVE new[b].id = 0 /\ b \notin white
  BY <1>1, <1>3, <1>8 DEF Objects
<1>9. ASSUME NEW b \in Addresses, NEW d \in Addresses, Live(new, b), Live(new, d), new[b].id = new[d].id
      PROVE  b = d
  BY <1>1, <1>3, <1>4, <1>9 DEF Objects
<1>10. ASSUME NEW b \in g \ {a} PROVE Live(new, b) /\ b \notin Condemned
  BY <1>1, <1>4 DEF Objects
<1>11. Objects(kindOf, new, g \ {a})
  BY <1>6, <1>7, <1>8, <1>9, <1>10 DEF Objects
<1>12. Good(kindOf, h) \subseteq Good(kindOf, new)
  BY <1>5 DEF Good
<1> QED
  BY <1>11, <1>12 DEF new

-----------------------------------------------------------------------------
(***************************************************************************)
(* The collector's steps.                                                  *)
(***************************************************************************)
LEMMA SeqOfMore == ASSUME NEW S, NEW T, S \subseteq T PROVE Seq(S) \subseteq Seq(T)
OBVIOUS

LEMMA FunctionOfMore == ASSUME NEW D, NEW S, NEW T, S \subseteq T PROVE [D -> S] \subseteq [D -> T]
OBVIOUS

\* Between a flip and what it reclaims the same addresses are condemned.
LEMMA AfterScan ==
  ASSUME NEW kindOf, NEW h, NEW g, heap' = h, grey' = g, UNCHANGED <<nextId, white, nailed>>
  PROVE  /\ Words' = Words /\ Objs' = Objs
         /\ Objects(kindOf, h, g) => Objects(kindOf, heap, grey)'
         /\ Good(kindOf, heap)' = Good(kindOf, h)
<1>1. Words' = Words
  BY DEF Words
<1>2. Objs' = Objs
  BY <1>1 DEF Objs
<1>3. Condemned' = Condemned
  BY DEF Condemned
<1>4. Objects(kindOf, h, g) => Objects(kindOf, heap, grey)'
  BY <1>3 DEF Objects, LiveObject, Moved, Live, Leads, Settled, Meant
<1>5. Good(kindOf, heap)' = Good(kindOf, h)
  BY <1>1, <1>3 DEF Good, Meant, Settled, Live
<1> QED
  BY <1>1, <1>2, <1>4, <1>5

LEMMA KeptGood ==
  ASSUME NEW kindOf, NEW h, NEW new, Kept(h, new)
  PROVE  Good(kindOf, h) \subseteq Good(kindOf, new)
BY KeptWords DEF Good

\* Nothing is condemned, grey or forwarded when the collector is off.
LEMMA OffFacts ==
  ASSUME Typed, gc = "off"
  PROVE  /\ white = {} /\ nailed = {} /\ grey = {} /\ Condemned = {}
         /\ \A kindOf : Objects(kindOf, heap, grey) =>
              \A a \in Addresses : /\ heap[a].kind \notin Forwarders
                                   /\ Live(heap, a) <=> heap[a].kind # "free"
                                   /\ Live(heap, a) <=> heap[a].id # 0
<1>1. white = {} /\ nailed = {} /\ grey = {} /\ Condemned = {}
  BY DEF Typed, TypeOK, Condemned
<1>2. ASSUME NEW kindOf, Objects(kindOf, heap, grey), NEW a \in Addresses
      PROVE  /\ heap[a].kind \notin Forwarders
             /\ Live(heap, a) <=> heap[a].kind # "free"
             /\ Live(heap, a) <=> heap[a].id # 0
  <2>1. heap[a].kind \notin Forwarders
    BY <1>1, <1>2 DEF Objects, Moved
  <2>2. Live(heap, a) <=> heap[a].kind # "free"
    BY <2>1 DEF Live
  <2>3. Live(heap, a) => heap[a].id # 0
    BY <1>2 DEF Objects, LiveObject
  <2>4. heap[a].kind = "free" => heap[a].id = 0
    BY <1>2 DEF Objects
  <2> QED
    BY <2>1, <2>2, <2>3, <2>4
<1> QED
  BY <1>1, <1>2

LEMMA StartSound ==
  ASSUME Typed, NEW kindOf, Objects(kindOf, heap, grey), Roots(kindOf), gc = "off", StartCollection,
         UNCHANGED <<encoders, cstack, stack, bp>>, RootCreated' <=> RootCreated, confused' = {}
  PROVE  Objects(kindOf, heap, grey)' /\ Roots(kindOf)'
<1>1. /\ white = {} /\ nailed = {} /\ grey = {} /\ Condemned = {}
      /\ \A a \in Addresses : /\ heap[a].kind \notin Forwarders
                              /\ Live(heap, a) <=> heap[a].kind # "free"
                              /\ Live(heap, a) <=> heap[a].id # 0
  BY OffFacts
<1>2. /\ heap' = heap /\ nextId' = nextId /\ gc' = "flipped"
      /\ white' = Addresses \ Free
      /\ grey' = {a \in nailed' : heap[a].kind \in Scanned}
      /\ \A i \in DOMAIN encoders : encoders[i] = <<>>
  BY DEF StartCollection
<1>3. PICK old \in Stray : nailed' = (Ambiguous \ Free) \union old
  BY DEF StartCollection
<1>4. \A a \in old : a \in Addresses /\ heap[a].kind # "free"
  BY <1>3, BoundsAssumption DEF Stray
<1>5. /\ \A a \in Addresses : a \in white' <=> Live(heap, a)
      /\ \A a \in nailed' : a \in Addresses /\ Live(heap, a)
      /\ Ambiguous \ Free \subseteq nailed'
  BY <1>1, <1>2, <1>3, <1>4 DEF Free, Ambiguous
<1>6. Condemned' = white' \ nailed'
  BY DEF Condemned
<1>7. \A a \in Addresses : Live(heap, a) => LiveObject(kindOf, heap, grey, a)
  BY DEF Objects
<1>8. \A a \in Addresses : Live(heap', a) <=> Live(heap, a)
  BY <1>2
<1>9. \A w : Settled(heap, w) => Leads(heap', w)
  BY <1>2 DEF Settled, Leads
<1>10. \A w : Meant(kindOf, w) => Meant(kindOf, w)'
  BY <1>2 DEF Meant
<1>11. ASSUME NEW a \in Addresses, Live(heap', a) PROVE LiveObject(kindOf, heap, grey, a)'
  <2>1. LiveObject(kindOf, heap, grey, a) /\ a \notin grey \union Condemned
    BY <1>1, <1>7, <1>8, <1>11
  <2>2. ASSUME a \notin grey' \union Condemned'
        PROVE  \A w \in WordsIn(heap[a]) : w.id = 0
    <3>1. a \in nailed' /\ heap[a].kind \notin Scanned
      BY <1>2, <1>5, <1>6, <1>8, <1>11, <2>2
    <3>2. heap[a].kind \in Prims \union {"CharArray"}
      BY <3>1, <1>8, <1>11 DEF Typed, TypeOK, Kinds, Live, Scanned
    <3> QED
      BY <2>1, <3>2 DEF LiveObject, Shape, WordsIn
  <2> QED
    BY <1>2, <2>1, <2>2 DEF LiveObject, Meant, Leads, Settled
<1>12. Objects(kindOf, heap, grey)'
  <2>1. \A a \in Addresses : heap'[a].kind = "free" => heap'[a].id = 0 /\ a \notin white'
    BY <1>1, <1>2, <1>5
  <2>2. \A a \in Addresses : heap'[a].kind \notin Forwarders
    BY <1>1, <1>2
  <2>3. \A a, b \in Addresses : Live(heap', a) /\ Live(heap', b) /\ heap'[a].id = heap'[b].id => a = b
    BY <1>2, <1>8 DEF Objects
  <2>4. \A a \in grey' : Live(heap', a) /\ a \notin Condemned'
    BY <1>2, <1>5, <1>6, <1>8
  <2> QED
    BY <1>11, <2>1, <2>2, <2>3, <2>4 DEF Objects, Live
<1>13. Words' = Words
  BY <1>2 DEF Words
<1>14. cstack' \in [Variables -> Good(kindOf, heap)']
  <2>1. ASSUME NEW v \in Variables PROVE cstack[v] \in Good(kindOf, heap)'
    <3>1. cstack[v] \in Good(kindOf, heap)
      BY DEF Roots
    <3>2. cstack[v] \in Words' /\ Meant(kindOf, cstack[v]) /\ Settled(heap, cstack[v])
      BY <1>13, <3>1 DEF Good
    <3>3. cstack[v].a \in Addresses => cstack[v].a \in Ambiguous
      BY DEF Ambiguous
    <3>4. cstack[v].id # 0 => cstack[v].a \in nailed'
      BY <1>1, <1>5, <3>2, <3>3 DEF Settled, Free
    <3> QED
      BY <1>2, <1>6, <3>2, <3>4 DEF Good, Meant, Settled, Live
  <2> QED
    BY <2>1 DEF Roots
<1>15. stack' \in Seq(Leading(kindOf, heap)')
  <2>1. Good(kindOf, heap) \subseteq Leading(kindOf, heap)'
    BY <1>2, <1>9, <1>10, <1>13 DEF Good, Leading, Leads, Meant
  <2>2. stack \in Seq(Good(kindOf, heap))
    BY DEF Roots
  <2> HIDE DEF Good, Leading
  <2> QED
    BY <2>1, <2>2, SeqOfMore
<1>16. encoders' \in Seq(Seq(Good(kindOf, heap)'))
  <2>1. encoders \in Seq(Seq(Words))
    BY DEF Typed, TypeOK
  <2>2. \A i \in 1 .. Len(encoders) : encoders[i] \in Seq(Good(kindOf, heap)')
    BY <1>2, <2>1
  <2> QED
    BY <2>1, <2>2
<1>17. (~RootCreated => stack = <<>>)'
  BY DEF Roots
<1> QED
  BY <1>2, <1>12, <1>14, <1>15, <1>16, <1>17 DEF Roots

\* v means what w meant: a fix changes an address, an allocation what is made later.
Same(kindOf, kind2, w, v) ==
  v.id = w.id /\ IF w.id = 0 THEN v = w ELSE kind2[w.id] = kindOf[w.id]

LEMMA SameRef ==
  ASSUME NEW kindOf, NEW kind2, NEW w, NEW v, Same(kindOf, kind2, w, v)
  PROVE  \A kind : IsRef(kindOf, w, kind) => IsRef(kind2, v, kind)
BY DEF Same, IsRef

LEMMA FramesKept ==
  ASSUME bp \in Nat, bp' = bp, NEW kindOf, NEW kind2, Frames(kindOf),
         \A i \in 1 .. bp : Same(kindOf, kind2, stack[i], stack'[i])
  PROVE  Frames(kind2)'
<1>1. PICK F \in SUBSET (4 .. bp) :
        /\ bp \in F \union {0}
        /\ \A f \in F :
             /\ IsRef(kindOf, stack[f], "Environment") /\ IsRef(kindOf, stack[f - 1], "Closure")
             /\ \E g \in F \union {0} : g <= f - 4 /\ stack[f - 2] = Number(g)
  BY DEF Frames
<1>2. ASSUME NEW f \in F
      PROVE  /\ IsRef(kind2, stack'[f], "Environment") /\ IsRef(kind2, stack'[f - 1], "Closure")
             /\ \E g \in F \union {0} : g <= f - 4 /\ stack'[f - 2] = Number(g)
  <2>1. f \in 1 .. bp /\ f - 1 \in 1 .. bp /\ f - 2 \in 1 .. bp
    BY <1>1
  <2>2. IsRef(kind2, stack'[f], "Environment") /\ IsRef(kind2, stack'[f - 1], "Closure")
    BY <1>1, <2>1, SameRef
  <2>3. \A g : stack[f - 2] = Number(g) => stack'[f - 2] = Number(g)
    BY <2>1 DEF Same, Number
  <2> QED
    BY <1>1, <2>2, <2>3
<1> QED
  BY <1>1, <1>2 DEF Frames

\* Nothing that says where the mutator is has changed.
LEMMA VariablesKept ==
  ASSUME NEW kindOf, InVariables(kindOf), UNCHANGED <<cstack, pc, bp>>, Len(stack') = Len(stack)
  PROVE  InVariables(kindOf)'
BY DEF InVariables, RootCreated, Operands

LEMMA TypedFacts ==
  ASSUME Typed
  PROVE  /\ CollectorTyped /\ bp \in Nat /\ bp <= Len(stack) /\ Len(stack) \in Nat
         /\ stack \in Seq(Words) /\ DOMAIN stack = 1 .. Len(stack)
<1>1. CollectorTyped
  BY DEF Typed, TypeOK, CollectorTyped, Objs
<1>2. stack \in Seq(Words) /\ bp \in 0 .. Len(stack)
  BY DEF Typed, TypeOK
<1> QED
  BY <1>1, <1>2

\* What the exact root holds when it is scanned.
RootWords == IF RootCreated THEN stack ELSE <<>>

LEMMA ScanRootTyped ==
  ASSUME Typed, ScanRoot
  PROVE  /\ Typed' /\ confused \subseteq confused' /\ Len(stack') = Len(stack)
         /\ FixedTyped(RootWords, Len(RootWords), FixAll(RootWords))
<1> DEFINE c == FixAll(RootWords)
<1>1. CollectorTyped /\ stack \in Seq(Words) /\ RootWords \in Seq(Words)
  BY TypedFacts DEF RootWords
<1>2. FixedTyped(RootWords, Len(RootWords), c)
  BY <1>1, FixAllTyped
<1>3. /\ heap' = c.heap /\ grey' = c.grey /\ confused' = c.confused
      /\ stack' = IF RootCreated THEN c.fixed ELSE stack
      /\ gc = "flipped" /\ gc' \in {"up", "down"}
      /\ UNCHANGED <<nextId, encoders, cstack, bp, source, pc, path, white, nailed, flips, messages>>
  BY DEF ScanRoot, RootWords
<1> HIDE DEF c
<1>4. c \in Scans /\ Len(c.fixed) = Len(RootWords) /\ confused \subseteq c.confused
  BY <1>2 DEF FixedTyped
<1>5. /\ c.heap \in [Addresses -> Objs] /\ c.grey \subseteq Addresses /\ c.confused \subseteq Reasons
      /\ c.fixed \in Seq(Words)
  BY <1>4 DEF Scans
<1>6. stack' \in Seq(Words) /\ Len(stack') = Len(stack)
  BY <1>1, <1>3, <1>4, <1>5 DEF RootWords
<1>7. Words' = Words /\ Objs' = Objs
  BY <1>3 DEF Words, Objs
<1>8. Typed'
  BY <1>3, <1>5, <1>6, <1>7 DEF Typed, TypeOK, Objs
<1> QED
  BY <1>2, <1>3, <1>4, <1>6, <1>8 DEF c

LEMMA ScanRootSane ==
  ASSUME Typed, NEW kindOf, Sane(kindOf), ScanRoot, confused' = {}
  PROVE  Sane(kindOf)'
<1> DEFINE c == FixAll(RootWords)
<1>1. /\ Len(stack') = Len(stack) /\ FixedTyped(RootWords, Len(RootWords), c)
      /\ CollectorTyped /\ stack \in Seq(Words) /\ bp \in Nat /\ bp <= Len(stack)
      /\ RootWords \in Seq(Words)
  BY ScanRootTyped, TypedFacts DEF RootWords
<1>2. /\ heap' = c.heap /\ grey' = c.grey /\ confused' = c.confused
      /\ stack' = IF RootCreated THEN c.fixed ELSE stack
      /\ gc = "flipped" /\ gc' \in {"up", "down"}
      /\ UNCHANGED <<nextId, encoders, cstack, bp, source, pc, path, white, nailed, flips, messages>>
  BY DEF ScanRoot, RootWords
<1>3. AllLead(kindOf, RootWords)
  <2>1. stack \in Seq(Leading(kindOf, heap))
    BY <1>2 DEF Sane, Roots
  <2>2. \A i \in DOMAIN RootWords : RootWords[i] \in Leading(kindOf, heap)
    <3> HIDE DEF Leading
    <3> QED
      BY <2>1 DEF RootWords
  <2> QED
    BY <2>2 DEF AllLead, Leading
<1>4. FixedSound(kindOf, RootWords, Len(RootWords), c)
  BY <1>1, <1>2, <1>3, FixAllSound DEF Sane
<1> HIDE DEF c
<1>5. /\ Objects(kindOf, c.heap, c.grey) /\ Kept(heap, c.heap)
      /\ c \in Scans /\ Len(c.fixed) = Len(RootWords)
  BY <1>1, <1>4 DEF FixedSound, FixedTyped
<1>6. /\ Objects(kindOf, heap, grey)' /\ Good(kindOf, heap)' = Good(kindOf, c.heap)
      /\ Words' = Words
  BY <1>2, <1>5, AfterScan
<1>7. Good(kindOf, heap) \subseteq Good(kindOf, heap)'
  BY <1>5, <1>6, KeptGood
<1>8. /\ \A i \in 1 .. Len(stack) : Same(kindOf, kindOf, stack[i], stack'[i])
      /\ stack' \in Seq(Good(kindOf, heap)')
  <2>1. CASE RootCreated
    <3>1. /\ stack' = c.fixed /\ RootWords = stack /\ c.fixed \in Seq(Words)
      BY <1>2, <1>5, <2>1 DEF RootWords, Scans
    <3>2. ASSUME NEW i \in 1 .. Len(stack)
          PROVE  Same(kindOf, kindOf, stack[i], stack'[i]) /\ stack'[i] \in Good(kindOf, heap)'
      <4>1. /\ c.fixed[i].id = stack[i].id /\ c.fixed[i].tag = stack[i].tag
            /\ stack[i].id = 0 => c.fixed[i] = stack[i]
            /\ Settled(c.heap, c.fixed[i])
        BY <1>1, <1>4, <3>1 DEF FixedTyped, FixedSound
      <4>2. Meant(kindOf, stack[i]) /\ c.fixed[i] \in Words
        BY <1>1, <1>3, <1>5, <3>1 DEF AllLead
      <4>3. c.fixed[i] \in Good(kindOf, c.heap)
        BY <4>1, <4>2 DEF Good, Meant
      <4> QED
        BY <1>6, <3>1, <4>1, <4>3 DEF Same
    <3> HIDE DEF Good
    <3> QED
      BY <1>1, <3>1, <3>2
  <2>2. CASE ~RootCreated
    <3>1. stack' = stack /\ stack = <<>>
      BY <1>2, <2>2 DEF Sane, Roots
    <3> QED
      BY <3>1
  <2> QED
    BY <2>1, <2>2
<1>9. Roots(kindOf)'
  <2>1. cstack' \in [Variables -> Good(kindOf, heap)']
    <3>1. cstack \in [Variables -> Good(kindOf, heap)]
      BY DEF Sane, Roots
    <3> HIDE DEF Good
    <3> QED
      BY <1>2, <1>7, <3>1, FunctionOfMore
  <2>2. encoders' \in Seq(Seq(Good(kindOf, heap)')) /\ \A e \in DOMAIN encoders' : encoders'[e] = <<>>
    <3>1. encoders \in Seq(Seq(Good(kindOf, heap))) /\ \A e \in DOMAIN encoders : encoders[e] = <<>>
      BY <1>2 DEF Sane, Roots
    <3>2. Seq(Good(kindOf, heap)) \subseteq Seq(Good(kindOf, heap)')
      BY <1>7, SeqOfMore
    <3> HIDE DEF Good
    <3> QED
      BY <1>2, <3>1, <3>2, SeqOfMore
  <2>3. (~RootCreated => stack = <<>>)'
    BY <1>2 DEF Sane, Roots, RootCreated
  <2> QED
    BY <1>2, <1>8, <2>1, <2>2, <2>3 DEF Roots
<1>10. Frames(kindOf)'
  <2>1. \A i \in 1 .. bp : Same(kindOf, kindOf, stack[i], stack'[i])
    BY <1>1, <1>8
  <2> QED
    BY <1>1, <1>2, <2>1, FramesKept DEF Sane
<1>11. InVariables(kindOf)'
  BY <1>1, <1>2, VariablesKept DEF Sane
<1> QED
  BY <1>6, <1>9, <1>10, <1>11 DEF Sane

(***************************************************************************)
(* One object.                                                             *)
(***************************************************************************)
Alike(kindOf, kind2, o, v) ==
  /\ v.kind = o.kind /\ v.id = o.id /\ Same(kindOf, kind2, o.word, v.word)
  /\ o.rest \in Seq(Words) /\ v.rest \in Seq(Words) /\ Len(v.rest) = Len(o.rest)
  /\ \A i \in 1 .. Len(o.rest) : Same(kindOf, kind2, o.rest[i], v.rest[i])

LEMMA ShapeKept ==
  ASSUME NEW kindOf, NEW kind2, NEW o, NEW v, Alike(kindOf, kind2, o, v), Shape(kindOf, o)
  PROVE  Shape(kind2, v)
<1>1. /\ v.kind = o.kind /\ o.rest \in Seq(Words) /\ v.rest \in Seq(Words) /\ Len(v.rest) = Len(o.rest)
      /\ \A i \in 1 .. Len(o.rest) : Same(kindOf, kind2, o.rest[i], v.rest[i])
      /\ Same(kindOf, kind2, o.word, v.word)
  BY DEF Alike
<1>2. v.word.id = o.word.id /\ \A n : o.word = Number(n) => v.word = Number(n)
  BY <1>1 DEF Same, Number
<1>3. \A kind : IsRef(kindOf, o.word, kind) => IsRef(kind2, v.word, kind)
  BY <1>1, SameRef
<1>4. \A i \in 1 .. Len(o.rest) : \A kind : IsRef(kindOf, o.rest[i], kind) => IsRef(kind2, v.rest[i], kind)
  BY <1>1, SameRef
<1>5. o.rest = <<>> => v.rest = <<>>
  BY <1>1
<1>6. o.kind \in Prims \union {"CharArray"} => v.word.id = 0 /\ v.rest = <<>>
  BY <1>2, <1>5 DEF Shape
<1>7. o.kind = "PlainArray" => v.word.id = 0
  BY <1>2 DEF Shape
<1>8. o.kind = "EnvironmentMap" => \E n \in Nat : v.word = Number(n)
  BY <1>2 DEF Shape
<1>9. o.kind = "Closure" => IsRef(kind2, v.word, "Function")
  BY <1>3 DEF Shape
<1>10. o.kind = "Function" => /\ IsRef(kind2, v.word, "EnvironmentMap")
                              /\ Len(v.rest) = 2 /\ IsRef(kind2, v.rest[2], "PlainArray")
  <2>1. SUFFICES ASSUME o.kind = "Function"
                 PROVE  /\ IsRef(kind2, v.word, "EnvironmentMap")
                        /\ Len(v.rest) = 2 /\ IsRef(kind2, v.rest[2], "PlainArray")
    OBVIOUS
  <2>2. IsRef(kindOf, o.word, "EnvironmentMap") /\ Len(o.rest) = 2 /\ IsRef(kindOf, o.rest[2], "PlainArray")
    BY <2>1 DEF Shape
  <2>3. 2 \in 1 .. Len(o.rest)
    BY <2>2
  <2> QED
    BY <1>1, <1>3, <1>4, <2>2, <2>3
<1>11. o.kind = "Environment" =>
          /\ IsRef(kind2, v.word, "EnvironmentMap")
          /\ Len(v.rest) = 3 /\ \A i \in {2, 3} : IsRef(kind2, v.rest[i], "PlainArray")
  <2>1. SUFFICES ASSUME o.kind = "Environment"
                 PROVE  /\ IsRef(kind2, v.word, "EnvironmentMap")
                        /\ Len(v.rest) = 3 /\ \A i \in {2, 3} : IsRef(kind2, v.rest[i], "PlainArray")
    OBVIOUS
  <2>2. /\ IsRef(kindOf, o.word, "EnvironmentMap") /\ Len(o.rest) = 3
        /\ \A i \in {2, 3} : IsRef(kindOf, o.rest[i], "PlainArray")
    BY <2>1 DEF Shape
  <2>3. \A i \in {2, 3} : i \in 1 .. Len(o.rest)
    BY <2>2
  <2> QED
    BY <1>1, <1>3, <1>4, <2>2, <2>3
<1> QED
  BY <1>1, <1>6, <1>7, <1>8, <1>9, <1>10, <1>11 DEF Shape

LEMMA FixNothing == FixAll(<<>>).heap = heap /\ FixAll(<<>>).grey = grey /\ FixAll(<<>>).confused = confused
<1>1. <<>> \in Seq(Words) /\ Len(<<>>) = 0
  OBVIOUS
<1>2. FixedUpTo(<<>>)[0] = [heap |-> heap, grey |-> grey, confused |-> confused, fixed |-> <<>>]
  BY <1>1, FirstAndNext
<1> QED
  BY <1>1, <1>2 DEF FixAll

\* The words of an object in the order of the scan.
ScannedWords(o) == o.rest \o <<o.word>>

LEMMA ScannedWordsAre ==
  ASSUME NEW o \in Objs
  PROVE  /\ ScannedWords(o) \in Seq(Words) /\ Len(ScannedWords(o)) = Len(o.rest) + 1
         /\ Len(o.rest) \in Nat /\ ScannedWords(o)[Len(o.rest) + 1] = o.word
         /\ \A i \in 1 .. Len(o.rest) : ScannedWords(o)[i] = o.rest[i]
<1>1. o.word \in Words /\ o.rest \in Seq(Words)
  BY DEF Objs
<1>2. \A s \in Seq(Words), w \in Words :
        /\ s \o <<w>> \in Seq(Words) /\ Len(s \o <<w>>) = Len(s) + 1 /\ Len(s) \in Nat
        /\ (s \o <<w>>)[Len(s) + 1] = w
        /\ \A i \in 1 .. Len(s) : (s \o <<w>>)[i] = s[i]
  OBVIOUS
<1> QED
  BY <1>1, <1>2 DEF ScannedWords

\* What a scan puts back into p.
Rescanned(p, c, n) == [p EXCEPT !.word = c.fixed[n + 1], !.rest = SubSeq(c.fixed, 1, n)]

LEMMA RescannedIs ==
  ASSUME NEW n \in Nat, NEW p \in Objs, NEW c \in Scans, Len(c.fixed) = n + 1
  PROVE  LET v == Rescanned(p, c, n)
         IN  /\ v \in Objs /\ v.kind = p.kind /\ v.id = p.id
             /\ v.word = c.fixed[n + 1] /\ Len(v.rest) = n
             /\ \A i \in 1 .. n : v.rest[i] = c.fixed[i]
<1>1. c.fixed \in Seq(Words)
  BY DEF Scans
<1>2. \A s \in Seq(Words) : Len(s) = n + 1 =>
        /\ SubSeq(s, 1, n) \in Seq(Words) /\ Len(SubSeq(s, 1, n)) = n /\ s[n + 1] \in Words
        /\ \A i \in 1 .. n : SubSeq(s, 1, n)[i] = s[i]
  OBVIOUS
<1> DEFINE word == c.fixed[n + 1]
           rest == SubSeq(c.fixed, 1, n)
           v    == Rescanned(p, c, n)
<1>3. /\ word \in Words /\ rest \in Seq(Words) /\ Len(rest) = n
      /\ \A i \in 1 .. n : rest[i] = c.fixed[i]
  BY <1>1, <1>2
<1>4. v = [p EXCEPT !.word = word, !.rest = rest]
  BY DEF Rescanned
<1> HIDE DEF word, rest, v
<1>5. v \in Objs /\ v.kind = p.kind /\ v.id = p.id /\ v.word = word /\ v.rest = rest
  BY <1>3, <1>4 DEF Objs
<1> QED
  BY <1>3, <1>5 DEF word, v

\* A scan of an object that has words to fix, and of one that has none.
ScanIs(a) ==
  LET o == heap[a]
      c == FixAll(IF o.kind \in Scanned THEN ScannedWords(o) ELSE <<>>)
  IN  /\ heap' = IF o.kind \in Scanned
                 THEN [c.heap EXCEPT ![a] = Rescanned(c.heap[a], c, Len(o.rest))]
                 ELSE heap
      /\ grey' = c.grey \ {a} /\ confused' = c.confused

LEMMA ScanObjectIs ==
  ASSUME Typed, NEW a \in Addresses, ScanObject(a)
  PROVE  ScanIs(a)
<1> DEFINE o == heap[a]
<1>1. CollectorTyped /\ o \in Objs
  BY TypedFacts DEF CollectorTyped
<1>2. CASE o.kind \in Scanned
  <2>1. WordsOf(o) = o.rest /\ (WordsOf(o) \o IF o.kind \in Scanned THEN <<o.word>> ELSE <<>>) = ScannedWords(o)
    BY <1>2 DEF WordsOf, ScannedWords
  <2> DEFINE c == FixAll(ScannedWords(o))
  <2>2. /\ heap' = [c.heap EXCEPT ![a].word = c.fixed[Len(o.rest) + 1],
                                  ![a].rest = SubSeq(c.fixed, 1, Len(o.rest))]
        /\ grey' = c.grey \ {a} /\ confused' = c.confused
    BY <1>2, <2>1 DEF ScanObject
  <2>3. c.heap \in [Addresses -> Objs]
    <3>1. ScannedWords(o) \in Seq(Words)
      BY <1>1, ScannedWordsAre
    <3>2. FixedTyped(ScannedWords(o), Len(ScannedWords(o)), c)
      BY <1>1, <3>1, FixAllTyped
    <3> HIDE DEF c
    <3> QED
      BY <3>2 DEF FixedTyped, Scans
  <2> HIDE DEF c
  <2>4. \A x, y : [c.heap EXCEPT ![a].word = x, ![a].rest = y]
                  = [c.heap EXCEPT ![a] = [c.heap[a] EXCEPT !.word = x, !.rest = y]]
    BY <2>3
  <2> QED
    BY <1>2, <2>2, <2>4 DEF ScanIs, Rescanned, c
<1>3. CASE o.kind \notin Scanned
  <2>1. (WordsOf(o) \o IF o.kind \in Scanned THEN <<o.word>> ELSE <<>>) = <<>>
    <3>1. WordsOf(o) = <<>>
      BY <1>3 DEF WordsOf
    <3>2. <<>> \o <<>> = <<>>
      OBVIOUS
    <3> QED
      BY <1>3, <3>1, <3>2
  <2> QED
    BY <1>3, <2>1 DEF ScanObject, ScanIs
<1> QED
  BY <1>2, <1>3

LEMMA ScanObjectTyped ==
  ASSUME Typed, NEW a \in Addresses, ScanObject(a), gc \in {"up", "down"}
  PROVE  Typed' /\ confused \subseteq confused'
<1> DEFINE o == heap[a]
           words == IF o.kind \in Scanned THEN ScannedWords(o) ELSE <<>>
           c == FixAll(words)
<1>1. CollectorTyped /\ o \in Objs /\ o.rest \in Seq(Words) /\ Len(o.rest) \in Nat
  BY TypedFacts DEF CollectorTyped, Objs
<1>2. words \in Seq(Words) /\ (o.kind \in Scanned => Len(words) = Len(o.rest) + 1)
  BY <1>1, ScannedWordsAre
<1>3. FixedTyped(words, Len(words), c)
  BY <1>1, <1>2, FixAllTyped
<1>4. /\ heap' = IF o.kind \in Scanned THEN [c.heap EXCEPT ![a] = Rescanned(c.heap[a], c, Len(o.rest))]
                 ELSE heap
      /\ grey' = c.grey \ {a} /\ confused' = c.confused
  BY ScanObjectIs DEF ScanIs
<1> HIDE DEF c, words
<1>5. c \in Scans /\ Len(c.fixed) = Len(words) /\ confused \subseteq c.confused
  BY <1>3 DEF FixedTyped
<1>6. c.heap \in [Addresses -> Objs] /\ c.grey \subseteq Addresses /\ c.confused \subseteq Reasons
  BY <1>5 DEF Scans
<1>7. heap' \in [Addresses -> Objs]
  <2>1. CASE o.kind \in Scanned
    <3>1. Rescanned(c.heap[a], c, Len(o.rest)) \in Objs
      BY <1>1, <1>2, <1>5, <1>6, <2>1, RescannedIs
    <3> QED
      BY <1>4, <1>6, <2>1, <3>1
  <2>2. CASE o.kind \notin Scanned
    BY <1>1, <1>4, <2>2 DEF CollectorTyped
  <2> QED
    BY <2>1, <2>2
<1>8. UNCHANGED <<nextId, mutator, gc, white, nailed, flips, messages>>
  BY DEF ScanObject
<1>9. Words' = Words /\ Objs' = Objs
  BY <1>8 DEF Words, Objs
<1>10. Typed'
  BY <1>4, <1>6, <1>7, <1>8, <1>9 DEF Typed, TypeOK, Objs, mutator
<1> QED
  BY <1>4, <1>5, <1>10

\* An object whose words have been fixed is no longer grey.
Scanning(kindOf, a, o, c) ==
  /\ Typed /\ Objects(kindOf, heap, grey) /\ a \in grey /\ o = heap[a] /\ o.kind \in Scanned
  /\ c = FixAll(ScannedWords(o)) /\ c.confused = {}

LEMMA ScannedSound ==
  ASSUME NEW kindOf, NEW a, NEW o, NEW c, Scanning(kindOf, a, o, c)
  PROVE  LET h == [c.heap EXCEPT ![a] = Rescanned(c.heap[a], c, Len(o.rest))]
         IN  /\ Objects(kindOf, h, c.grey \ {a})
             /\ Good(kindOf, heap) \subseteq Good(kindOf, h)
<1> USE DEF Scanning
<1>1. /\ CollectorTyped /\ a \in Addresses /\ o \in Objs
      /\ Live(heap, a) /\ a \notin Condemned /\ LiveObject(kindOf, heap, grey, a)
  BY TypedFacts DEF CollectorTyped, Objects
<1> DEFINE words == ScannedWords(o)
           n == Len(o.rest)
<1>2. /\ words \in Seq(Words) /\ Len(words) = n + 1 /\ n \in Nat /\ words[n + 1] = o.word
      /\ \A i \in 1 .. n : words[i] = o.rest[i]
  BY <1>1, ScannedWordsAre
<1> HIDE DEF words
<1>3. \A i \in 1 .. n + 1 : words[i] \in WordsIn(o)
  <2>1. DOMAIN o.rest = 1 .. n
    BY <1>1 DEF Objs
  <2> QED
    BY <1>2, <2>1 DEF WordsIn
<1>4. AllLead(kindOf, words)
  BY <1>1, <1>2, <1>3 DEF AllLead, LiveObject
<1>5. FixedTyped(words, n + 1, c) /\ FixedSound(kindOf, words, n + 1, c)
  BY <1>1, <1>2, <1>4, FixAllTyped, FixAllSound DEF words
<1>6. /\ c \in Scans /\ Len(c.fixed) = n + 1 /\ c.heap \in [Addresses -> Objs] /\ c.grey \subseteq Addresses
      /\ Objects(kindOf, c.heap, c.grey) /\ Kept(heap, c.heap) /\ a \in c.grey
  BY <1>5 DEF FixedTyped, FixedSound, Scans
<1>7. c.heap[a] = o
  BY <1>1, <1>6 DEF Kept, LiveObject
<1> DEFINE v == Rescanned(o, c, n)
<1>8. /\ v \in Objs /\ v.kind = o.kind /\ v.id = o.id
      /\ v.word = c.fixed[n + 1] /\ Len(v.rest) = n
      /\ \A i \in 1 .. n : v.rest[i] = c.fixed[i]
  BY <1>1, <1>2, <1>6, RescannedIs
<1> HIDE DEF v
<1>9. \A i \in 1 .. n + 1 : /\ Same(kindOf, kindOf, words[i], c.fixed[i])
                            /\ Meant(kindOf, c.fixed[i]) /\ Settled(c.heap, c.fixed[i])
  <2>1. DOMAIN words = 1 .. n + 1
    BY <1>2
  <2> QED
    BY <1>4, <1>5, <2>1 DEF FixedTyped, FixedSound, AllLead, Same, Meant
<1>10. Shape(kindOf, v)
  <2>1. v.rest \in Seq(Words) /\ o.rest \in Seq(Words)
    BY <1>1, <1>8 DEF Objs
  <2>2. n + 1 \in 1 .. n + 1 /\ \A i \in 1 .. n : i \in 1 .. n + 1
    BY <1>2
  <2>3. Alike(kindOf, kindOf, o, v)
    BY <1>2, <1>8, <1>9, <2>1, <2>2 DEF Alike
  <2>4. Shape(kindOf, o)
    BY <1>1 DEF LiveObject
  <2> QED
    BY <2>3, <2>4, ShapeKept
<1>11. \A w \in WordsIn(v) : Meant(kindOf, w) /\ Settled(c.heap, w)
  <2>1. DOMAIN v.rest = 1 .. n
    BY <1>8 DEF Objs
  <2>2. n + 1 \in 1 .. n + 1 /\ \A i \in 1 .. n : i \in 1 .. n + 1
    BY <1>2
  <2> QED
    BY <1>8, <1>9, <2>1, <2>2 DEF WordsIn
<1>12. Live(c.heap, a)
  BY <1>1, <1>7 DEF Live
<1>13. Rewrites(kindOf, c.heap, c.grey, a, v)
  BY <1>1, <1>6, <1>7, <1>8, <1>10, <1>11, <1>12 DEF Rewrites
<1>14. /\ Objects(kindOf, [c.heap EXCEPT ![a] = v], c.grey \ {a})
       /\ Good(kindOf, c.heap) \subseteq Good(kindOf, [c.heap EXCEPT ![a] = v])
  BY <1>6, <1>13, RewriteSound
<1>15. Good(kindOf, heap) \subseteq Good(kindOf, c.heap)
  BY <1>6, KeptGood
<1> HIDE DEF Good
<1>16. Good(kindOf, heap) \subseteq Good(kindOf, [c.heap EXCEPT ![a] = v])
  BY <1>14, <1>15
<1> QED
  BY <1>7, <1>14, <1>16 DEF v

\* Of roots that were good before a step of the collector.
LEMMA RootsKept ==
  ASSUME NEW kindOf, Roots(kindOf), gc # "flipped", UNCHANGED <<cstack, stack, encoders, pc>>,
         Good(kindOf, heap) \subseteq Good(kindOf, heap)', gc' # "flipped", gc # "off"
  PROVE  Roots(kindOf)'
<1> DEFINE old == Good(kindOf, heap)
           new == Good(kindOf, heap)'
<1>1. /\ cstack \in [Variables -> old] /\ stack \in Seq(old) /\ encoders \in Seq(Seq(old))
      /\ ~RootCreated => stack = <<>>
      /\ \A e \in DOMAIN encoders : encoders[e] = <<>>
  BY DEF Roots
<1>2. old \subseteq new
  OBVIOUS
<1>3. RootCreated' <=> RootCreated
  BY DEF RootCreated
<1> HIDE DEF old, new
<1>4. cstack \in [Variables -> new] /\ stack \in Seq(new) /\ encoders \in Seq(Seq(new))
  <2>1. Seq(old) \subseteq Seq(new)
    BY <1>2, SeqOfMore
  <2>2. Seq(Seq(old)) \subseteq Seq(Seq(new))
    BY <2>1, SeqOfMore
  <2>3. [Variables -> old] \subseteq [Variables -> new]
    BY <1>2, FunctionOfMore
  <2> QED
    BY <1>1, <2>1, <2>2, <2>3
<1> QED
  BY <1>1, <1>3, <1>4 DEF Roots, new

LEMMA ScanObjectSane ==
  ASSUME Typed, NEW kindOf, Sane(kindOf), gc \in {"up", "down"}, NEW a \in grey, ScanObject(a), confused' = {}
  PROVE  Sane(kindOf)'
<1> DEFINE o == heap[a]
           c == FixAll(IF o.kind \in Scanned THEN ScannedWords(o) ELSE <<>>)
<1>1. a \in Addresses /\ Live(heap, a) /\ Objects(kindOf, heap, grey) /\ Roots(kindOf)
      /\ bp \in Nat /\ Frames(kindOf) /\ InVariables(kindOf)
  BY TypedFacts DEF CollectorTyped, Sane, Objects
<1>2. /\ heap' = IF o.kind \in Scanned THEN [c.heap EXCEPT ![a] = Rescanned(c.heap[a], c, Len(o.rest))]
                 ELSE heap
      /\ grey' = c.grey \ {a} /\ confused' = c.confused
  BY <1>1, ScanObjectIs DEF ScanIs
<1>3. UNCHANGED <<nextId, encoders, cstack, stack, bp, source, pc, path, gc, white, nailed, flips, messages>>
  BY DEF ScanObject, mutator
<1>4. Objects(kindOf, heap', grey') /\ Good(kindOf, heap) \subseteq Good(kindOf, heap')
  <2>1. CASE o.kind \in Scanned
    <3>1. c = FixAll(ScannedWords(o))
      BY <2>1
    <3> HIDE DEF c
    <3>2. Scanning(kindOf, a, o, c)
      BY <1>1, <1>2, <2>1, <3>1 DEF Scanning
    <3>3. /\ Objects(kindOf, [c.heap EXCEPT ![a] = Rescanned(c.heap[a], c, Len(o.rest))], c.grey \ {a})
          /\ Good(kindOf, heap) \subseteq
               Good(kindOf, [c.heap EXCEPT ![a] = Rescanned(c.heap[a], c, Len(o.rest))])
      BY <3>2, ScannedSound
    <3>4. heap' = [c.heap EXCEPT ![a] = Rescanned(c.heap[a], c, Len(o.rest))] /\ grey' = c.grey \ {a}
      BY <1>2, <2>1
    <3> QED
      BY <3>3, <3>4
  <2>2. CASE o.kind \notin Scanned
    <3>1. c.grey = grey /\ heap' = heap
      BY <1>2, <2>2, FixNothing
    <3>2. LiveObject(kindOf, heap, grey, a) /\ a \notin Condemned
      BY <1>1 DEF Objects
    <3>3. o.kind \in Prims \union {"CharArray"}
      <4>1. o.kind \in Kinds
        BY <1>1, TypedFacts DEF CollectorTyped, Objs
      <4> QED
        BY <1>1, <2>2, <4>1 DEF Kinds, Live, Scanned
    <3>4. Rewrites(kindOf, heap, grey, a, o)
      <4>1. Shape(kindOf, o) /\ \A w \in WordsIn(o) : Meant(kindOf, w) /\ Settled(heap, w)
        BY <3>2, <3>3 DEF LiveObject, Shape, WordsIn, Settled
      <4> QED
        BY <1>1, <3>2, <4>1 DEF Rewrites
    <3>5. heap \in [Addresses -> Objs] /\ grey \in SUBSET Addresses
      BY TypedFacts DEF CollectorTyped
    <3>6. [heap EXCEPT ![a] = o] = heap
      BY <3>5
    <3>7. Objects(kindOf, [heap EXCEPT ![a] = o], grey \ {a})
      BY <3>4, <3>5, RewriteSound
    <3> HIDE DEF o, Good
    <3>8. heap' = [heap EXCEPT ![a] = o] /\ grey' = grey \ {a}
      BY <1>2, <3>1, <3>6
    <3>9. Objects(kindOf, heap', grey')
      BY <3>7, <3>8
    <3> QED
      BY <3>1, <3>9
  <2> QED
    BY <2>1, <2>2
<1>5. Objects(kindOf, heap, grey)' /\ Good(kindOf, heap) \subseteq Good(kindOf, heap)'
  <2>1. \A h, g : heap' = h /\ grey' = g =>
          /\ Objects(kindOf, h, g) => Objects(kindOf, heap, grey)'
          /\ Good(kindOf, heap)' = Good(kindOf, h)
    BY <1>3, AfterScan
  <2>2. PICK h, g : heap' = h /\ grey' = g
    OBVIOUS
  <2>3. Objects(kindOf, h, g) /\ Good(kindOf, heap) \subseteq Good(kindOf, h)
    BY <1>4, <2>2
  <2> QED
    BY <2>1, <2>2, <2>3
<1>6. Roots(kindOf)'
  BY <1>1, <1>3, <1>5, RootsKept
<1>7. Frames(kindOf)'
  <2>1. \A i \in 1 .. bp : Same(kindOf, kindOf, stack[i], stack'[i])
    BY <1>3 DEF Same
  <2> QED
    BY <1>1, <1>3, <2>1, FramesKept
<1>8. InVariables(kindOf)'
  BY <1>1, <1>3, VariablesKept
<1> QED
  BY <1>5, <1>6, <1>7, <1>8 DEF Sane

LEMMA ReclaimTyped ==
  ASSUME Typed, Reclaim
  PROVE  Typed' /\ confused' = confused
<1> DEFINE Freed(a) == [heap[a] EXCEPT !.kind = "free", !.id = 0]
<1>1. CollectorTyped
  BY TypedFacts
<1>2. /\ heap' = [a \in Addresses |-> IF a \in Condemned THEN Freed(a) ELSE heap[a]]
      /\ gc' = "off" /\ white' = {} /\ nailed' = {} /\ grey = {}
      /\ messages' = Append(messages, "gc")
      /\ UNCHANGED <<nextId, encoders, cstack, stack, bp, source, pc, path, grey, flips, confused>>
  BY DEF Reclaim, mutator, Condemned
<1>3. \A a \in Addresses : heap[a] \in Objs /\ Freed(a) \in Objs
  <2>1. "free" \in Kinds /\ 0 \in 0 .. nextId
    BY <1>1 DEF Kinds, CollectorTyped
  <2> QED
    BY <1>1, <2>1 DEF CollectorTyped, Objs
<1> HIDE DEF Freed
<1>4. heap' \in [Addresses -> Objs]
  BY <1>2, <1>3
<1>5. Words' = Words /\ Objs' = Objs
  BY <1>2 DEF Words, Objs
<1>6. messages' \in Seq({"gc_start", "gc"})
  <2>1. \A s \in Seq({"gc_start", "gc"}) : Append(s, "gc") \in Seq({"gc_start", "gc"})
    OBVIOUS
  <2> QED
    BY <1>2, <2>1 DEF Typed, TypeOK
<1> QED
  BY <1>2, <1>4, <1>5, <1>6 DEF Typed, TypeOK, Objs

LEMMA ReclaimSane ==
  ASSUME Typed, NEW kindOf, Sane(kindOf), Reclaim
  PROVE  Sane(kindOf)'
<1>1. /\ CollectorTyped /\ bp \in Nat /\ Objects(kindOf, heap, grey) /\ Roots(kindOf)
      /\ Frames(kindOf) /\ InVariables(kindOf)
  BY TypedFacts DEF Sane
<1>2. /\ gc \in {"up", "down"} /\ grey = {} /\ gc' = "off" /\ white' = {} /\ nailed' = {}
      /\ UNCHANGED <<nextId, encoders, cstack, stack, bp, source, pc, path, grey, flips, confused>>
  BY DEF Reclaim, mutator
<1>3. \A a \in Addresses : /\ a \notin Condemned => heap'[a] = heap[a]
                           /\ a \in Condemned => heap'[a].kind = "free" /\ heap'[a].id = 0
  <2>1. heap' = [a \in Addresses |-> IF a \in white \ nailed THEN [heap[a] EXCEPT !.kind = "free", !.id = 0]
                                     ELSE heap[a]]
    BY DEF Reclaim
  <2>2. \A a \in Addresses : /\ [heap[a] EXCEPT !.kind = "free", !.id = 0].kind = "free"
                             /\ [heap[a] EXCEPT !.kind = "free", !.id = 0].id = 0
    BY <1>1 DEF CollectorTyped, Objs
  <2> QED
    BY <2>1, <2>2 DEF Condemned
<1>4. Condemned' = {}
  BY <1>2 DEF Condemned
<1>5. /\ \A a \in Addresses : Live(heap', a) <=> Live(heap, a) /\ a \notin Condemned
      /\ \A a \in Addresses : Live(heap', a) => heap'[a] = heap[a]
  BY <1>3 DEF Live
<1>6. \A w : Settled(heap, w) => Settled(heap, w)' /\ Leads(heap', w)
  <2>1. \A w : Settled(heap, w) /\ w.id # 0 =>
          /\ w.a \in Addresses /\ heap'[w.a].id = w.id /\ Live(heap', w.a) /\ w.a \notin Condemned'
    BY <1>3, <1>4, <1>5 DEF Settled
  <2> QED
    BY <2>1 DEF Settled, Leads, Live
<1>7. \A w : Meant(kindOf, w) => Meant(kindOf, w)'
  BY <1>2 DEF Meant
<1>8. ASSUME NEW a \in Addresses, Live(heap', a) PROVE LiveObject(kindOf, heap, grey, a)'
  <2>1. /\ Live(heap, a) /\ heap'[a] = heap[a] /\ LiveObject(kindOf, heap, grey, a)
        /\ a \notin grey \union Condemned
    BY <1>1, <1>2, <1>5, <1>8 DEF Objects
  <2>2. /\ heap'[a].id \in 1 .. nextId' - 1 /\ heap'[a].kind = kindOf[heap'[a].id]
        /\ Shape(kindOf, heap'[a])
        /\ \A w \in WordsIn(heap'[a]) : Meant(kindOf, w) /\ Settled(heap, w)
    BY <1>2, <2>1 DEF LiveObject
  <2>3. \A w \in WordsIn(heap'[a]) : Meant(kindOf, w)' /\ Settled(heap, w)' /\ Leads(heap', w)
    BY <1>6, <1>7, <2>2
  <2> QED
    BY <2>2, <2>3 DEF LiveObject, Meant, Leads, Settled, Live
<1>9. Objects(kindOf, heap, grey)'
  <2>1. \A a \in Addresses : heap'[a].kind = "free" => heap'[a].id = 0 /\ a \notin white'
    BY <1>1, <1>2, <1>3 DEF Objects
  <2>2. \A a \in Addresses : heap'[a].kind \notin Forwarders
    BY <1>1, <1>3 DEF Objects, Moved, Forwarders
  <2>3. \A a, b \in Addresses : Live(heap', a) /\ Live(heap', b) /\ heap'[a].id = heap'[b].id => a = b
    BY <1>1, <1>5 DEF Objects
  <2> QED
    BY <1>2, <1>8, <2>1, <2>2, <2>3 DEF Objects, Live
<1>10. Good(kindOf, heap) \subseteq Good(kindOf, heap)'
  <2>1. Words' = Words
    BY <1>2 DEF Words
  <2> QED
    BY <1>6, <1>7, <2>1 DEF Good, Meant, Settled, Live
<1>11. Roots(kindOf)'
  BY <1>1, <1>2, <1>10, RootsKept
<1>12. Frames(kindOf)'
  <2>1. \A i \in 1 .. bp : Same(kindOf, kindOf, stack[i], stack'[i])
    BY <1>2 DEF Same
  <2> QED
    BY <1>1, <1>2, <2>1, FramesKept
<1>13. InVariables(kindOf)'
  BY <1>1, <1>2, VariablesKept
<1> QED
  BY <1>9, <1>11, <1>12, <1>13 DEF Sane

\* Typed, with what a flip sets.
LEMMA StartTyped ==
  ASSUME Typed, StartCollection, UNCHANGED <<encoders, cstack, stack, bp>>
  PROVE  Typed'
<1>1. /\ heap' = heap /\ nextId' = nextId /\ gc' = "flipped" /\ white' = Addresses \ Free
      /\ flips' = flips + 1
      /\ grey' = {a \in nailed' : heap[a].kind \in Scanned} /\ messages' = Append(messages, "gc_start")
      /\ confused' \in {{"literal"}, {}}
  BY DEF StartCollection
<1>2. PICK old \in Stray : nailed' = (Ambiguous \ Free) \union old
  BY DEF StartCollection
<1>3. \A a \in old : a \in Addresses /\ heap[a].kind # "free"
  BY <1>2, BoundsAssumption DEF Stray
<1>4. nailed' \subseteq white' /\ white' \subseteq Addresses /\ grey' \subseteq Addresses
  BY <1>1, <1>2, <1>3 DEF Free, Ambiguous
<1>5. Words' = Words
  BY <1>1 DEF Words
<1>6. messages' \in Seq({"gc_start", "gc"})
  <2>1. \A s \in Seq({"gc_start", "gc"}) : Append(s, "gc_start") \in Seq({"gc_start", "gc"})
    OBVIOUS
  <2> QED
    BY <1>1, <2>1 DEF Typed, TypeOK
<1>7. confused' \subseteq Reasons
  BY <1>1 DEF Reasons
<1>8. flips' \in Nat
  BY <1>1 DEF Typed, TypeOK
<1> QED
  BY <1>1, <1>4, <1>5, <1>6, <1>7, <1>8 DEF Typed, TypeOK

LEMMA StartSane ==
  ASSUME Typed, NEW kindOf, Sane(kindOf), gc = "off", StartCollection, confused' = {},
         UNCHANGED <<encoders, cstack, stack, bp>>, InVariables(kindOf)', RootCreated' <=> RootCreated
  PROVE  Sane(kindOf)'
<1>1. Objects(kindOf, heap, grey) /\ Roots(kindOf) /\ Frames(kindOf) /\ bp \in Nat
  BY TypedFacts DEF Sane
<1>2. Objects(kindOf, heap, grey)' /\ Roots(kindOf)'
  BY <1>1, StartSound
<1>3. Frames(kindOf)'
  <2>1. \A i \in 1 .. bp : Same(kindOf, kindOf, stack[i], stack'[i])
    BY DEF Same
  <2> QED
    BY <1>1, <2>1, FramesKept
<1> QED
  BY <1>2, <1>3 DEF Sane

LEMMA CollectStep ==
  ASSUME IInv, Collect \/ ArenaCollect
  PROVE  IInv'
<1> USE DEF IInv
<1>1. CASE Flip \/ ArenaCollect
  <2>1. /\ gc = "off" /\ StartCollection /\ UNCHANGED <<encoders, cstack, stack, bp, source, path>>
        /\ gc' = "flipped"
        /\ \/ pc' = pc /\ pc \in Allocating
           \/ pc = "collect" /\ pc' = "restore"
    BY <1>1, BoundsAssumption DEF Flip, ArenaCollect, Running, StartCollection, mutator
  <2>2. Typed'
    BY <2>1, StartTyped
  <2>3. Compiling'
    BY <2>1 DEF Compiling
  <2>4. Queue'
    BY <2>1 DEF Queue, Allocating
  <2>5. ASSUME confused' = {}, NEW kindOf, Sane(kindOf) PROVE Sane(kindOf)'
    <3>1. RootCreated' <=> RootCreated
      BY <2>1 DEF RootCreated
    <3>2. InVariables(kindOf)'
      BY <2>1, <2>5 DEF Sane, InVariables, RootCreated, Operands, Allocating
    <3> QED
      BY <2>1, <2>5, <3>1, <3>2, StartSane
  <2>6. confused = {}
    BY <1>1 DEF Flip, ArenaCollect, Running
  <2> QED
    BY <2>2, <2>3, <2>4, <2>5, <2>6
<1>2. ASSUME ScanRoot \/ ScanUp \/ ScanDown \/ Reclaim
      PROVE  IInv'
  <2>1. /\ UNCHANGED <<encoders, source, path, pc>> /\ gc # "off"
        /\ pc \in {"fetch", "halted"} => UNCHANGED <<messages, stack>>
    <3>1. gc # "off" => pc \notin {"fetch", "halted"}
      BY DEF Queue, Allocating
    <3> QED
      BY <1>2, <3>1 DEF ScanRoot, ScanUp, ScanDown, ScanObject, Reclaim, mutator
  <2>2. Compiling' /\ Queue'
    BY <2>1 DEF Compiling, Queue, Allocating
  <2>3. Typed' /\ confused \subseteq confused' /\ \A kindOf : Sane(kindOf) /\ confused' = {} => Sane(kindOf)'
    <3>1. CASE ScanRoot
      BY <3>1, ScanRootTyped, ScanRootSane
    <3>2. ASSUME NEW a \in grey, ScanObject(a), gc \in {"up", "down"}
          PROVE  /\ Typed' /\ confused \subseteq confused'
                 /\ \A kindOf : Sane(kindOf) /\ confused' = {} => Sane(kindOf)'
      <4>1. a \in Addresses
        BY <3>2 DEF Typed, TypeOK
      <4> QED
        BY <3>2, <4>1, ScanObjectTyped, ScanObjectSane
    <3>3. CASE ScanUp \/ ScanDown
      <4>1. grey # {} => Min(grey) \in grey /\ Max(grey) \in grey
        BY MinIs, MaxIs DEF Typed, TypeOK
      <4> QED
        BY <3>2, <3>3, <4>1 DEF ScanUp, ScanDown
    <3>4. CASE Reclaim
      BY <3>4, ReclaimTyped, ReclaimSane
    <3> QED
      BY <1>2, <3>1, <3>3, <3>4
  <2> QED
    BY <2>2, <2>3
<1> QED
  BY <1>1, <1>2 DEF Collect

-----------------------------------------------------------------------------
(***************************************************************************)
(* The mutator's steps: words that are followed, and objects that are made *)
(* or written to.                                                          *)
(***************************************************************************)
\* Nothing is being collected, and kindOf tells the kinds.
Resting(kindOf) == Typed /\ gc = "off" /\ kindOf \in [Nat -> Kinds] /\ Objects(kindOf, heap, grey)

LEMMA GoodNumbers ==
  ASSUME Typed, NEW kindOf
  PROVE  /\ Nil \in Good(kindOf, heap) /\ Undefined \in Good(kindOf, heap)
         /\ \A n \in Int : Number(n) \in Good(kindOf, heap)
         /\ \A w \in Words : [w EXCEPT !.id = 0] \in Good(kindOf, heap)
<1>1. nextId \in Nat
  BY DEF Typed
<1>2. 0 \in 0 .. nextId /\ \A n \in Int : -n \in Int
  BY <1>1
<1>3. \A w \in Words : w.id = 0 => w \in Good(kindOf, heap)
  BY DEF Good, Meant, Settled
<1>4. Nil \in Words /\ Undefined \in Words /\ \A n \in Int : Number(n) \in Words
  BY <1>2 DEF Nil, Undefined, Number, Words
<1>5. Nil.id = 0 /\ Undefined.id = 0 /\ \A n \in Int : Number(n).id = 0
  BY DEF Nil, Undefined, Number
<1>6. \A w \in Words : [w EXCEPT !.id = 0] \in Words /\ [w EXCEPT !.id = 0].id = 0
  BY <1>2 DEF Words
<1> QED
  BY <1>3, <1>4, <1>5, <1>6

LEMMA WordsOfGood ==
  ASSUME NEW S, NEW o, o.word \in S, o.rest \in Seq(S)
  PROVE  \A w \in WordsIn(o) : w \in S
<1>1. \A i \in DOMAIN o.rest : o.rest[i] \in S
  OBVIOUS
<1> QED
  BY <1>1 DEF WordsIn

\* What a reference leads to.
LEMMA Followed ==
  ASSUME NEW kindOf, Resting(kindOf), NEW w \in Good(kindOf, heap), w.id # 0
  PROVE  /\ w.a \in Addresses /\ Live(heap, w.a) /\ At(w) \in Objs /\ At(w).id = w.id
         /\ At(w).kind = kindOf[w.id] /\ Shape(kindOf, At(w))
         /\ At(w).word \in Good(kindOf, heap) /\ At(w).rest \in Seq(Good(kindOf, heap))
<1>1. /\ w.a \in Addresses /\ heap[w.a].id = w.id /\ Live(heap, w.a)
  BY DEF Good, Settled
<1>2. /\ white = {} /\ grey = {} /\ Condemned = {} /\ heap \in [Addresses -> Objs]
  BY OffFacts, TypedFacts DEF Resting, CollectorTyped
<1>3. LiveObject(kindOf, heap, grey, w.a)
  BY <1>1 DEF Resting, Objects
<1>4. \A v \in WordsIn(heap[w.a]) : Meant(kindOf, v) /\ Settled(heap, v)
  BY <1>2, <1>3 DEF LiveObject
<1>5. heap[w.a] \in Objs /\ heap[w.a].word \in Words /\ heap[w.a].rest \in Seq(Words)
  BY <1>1, <1>2 DEF Objs
<1>6. heap[w.a].word \in Good(kindOf, heap) /\ \A i \in DOMAIN heap[w.a].rest : heap[w.a].rest[i] \in Good(kindOf, heap)
  <2>1. heap[w.a].word \in WordsIn(heap[w.a]) /\ \A i \in DOMAIN heap[w.a].rest : heap[w.a].rest[i] \in WordsIn(heap[w.a])
    BY DEF WordsIn
  <2>2. \A i \in DOMAIN heap[w.a].rest : heap[w.a].rest[i] \in Words
    BY <1>5
  <2> QED
    BY <1>4, <1>5, <2>1, <2>2 DEF Good
<1>7. heap[w.a].rest \in Seq(Good(kindOf, heap))
  <2> HIDE DEF Good
  <2> QED
    BY <1>5, <1>6
<1> QED
  BY <1>1, <1>3, <1>5, <1>6, <1>7 DEF At, LiveObject

LEMMA GarbageIs ==
  ASSUME NEW kindOf, Resting(kindOf), Free # {}, NEW n \in Int, NEW rest \in Garbage(n)
  PROVE  rest \in Seq(Good(kindOf, heap))
<1>1. NewAt \in Addresses /\ heap[NewAt] \in Objs /\ heap[NewAt].rest \in Seq(Words)
  <2>1. NewAt \in Free
    BY MinIs DEF NewAt, Free
  <2>2. heap \in [Addresses -> Objs]
    BY TypedFacts DEF Resting, CollectorTyped
  <2> QED
    BY <2>1, <2>2 DEF Free, Objs
<1> DEFINE old(i) == IF i \in DOMAIN heap[NewAt].rest THEN [heap[NewAt].rest[i] EXCEPT !.id = 0] ELSE Nil
<1>2. Nil \in Good(kindOf, heap) /\ \A i \in 1 .. n : old(i) \in Good(kindOf, heap)
  <2>1. \A i \in DOMAIN heap[NewAt].rest : heap[NewAt].rest[i] \in Words
    BY <1>1
  <2> QED
    BY <2>1, GoodNumbers DEF Resting
<1>3. rest = [i \in 1 .. n |-> Nil] \/ rest = [i \in 1 .. n |-> old(i)]
  BY DEF Garbage
<1> HIDE DEF old, Good
<1>4. \E m \in Nat : 1 .. n = 1 .. m
  <2>1. CASE n \in Nat
    BY <2>1
  <2>2. CASE n \notin Nat
    <3>1. 1 .. n = 1 .. 0
      BY <2>2
    <3> QED
      BY <3>1
  <2> QED
    BY <2>1, <2>2
<1>5. PICK m \in Nat : 1 .. n = 1 .. m
  BY <1>4
<1>6. rest \in [1 .. m -> Good(kindOf, heap)]
  BY <1>2, <1>3, <1>5
<1> QED
  BY <1>6

\* What the mutator's memory is after a step, and what it was before.
Grows(kindOf, kind2) ==
  /\ kind2 \in [Nat -> Kinds] /\ nextId' \in Nat \ {0} /\ heap' \in [Addresses -> Objs']
  /\ Objects(kind2, heap, grey)' /\ Good(kindOf, heap) \subseteq Good(kind2, heap)'
  /\ \A w \in Good(kindOf, heap) : Same(kindOf, kind2, w, w)

LEMMA GrowsNot ==
  ASSUME NEW kindOf, Resting(kindOf), UNCHANGED <<heap, nextId, white, nailed, grey>>
  PROVE  Grows(kindOf, kindOf)
<1>1. Words' = Words /\ Objs' = Objs
  BY DEF Words, Objs
<1>2. Objects(kindOf, heap, grey)' /\ Good(kindOf, heap)' = Good(kindOf, heap)
  BY AfterScan DEF Resting
<1>3. heap \in [Addresses -> Objs] /\ nextId \in Nat \ {0}
  BY TypedFacts DEF Resting, CollectorTyped, Typed
<1> QED
  BY <1>1, <1>2, <1>3 DEF Grows, Resting, Same

LEMMA GrowsByRewriting ==
  ASSUME NEW kindOf, Resting(kindOf), NEW a, NEW o \in Objs, Rewrites(kindOf, heap, grey, a, o),
         heap' = [heap EXCEPT ![a] = o], UNCHANGED <<nextId, white, nailed, grey>>
  PROVE  Grows(kindOf, kindOf)
<1>1. /\ heap \in [Addresses -> Objs] /\ nextId \in Nat \ {0} /\ grey = {} /\ a \in Addresses
  BY TypedFacts, OffFacts DEF Resting, CollectorTyped, Typed, Rewrites
<1>2. PICK h : h = [heap EXCEPT ![a] = o]
  OBVIOUS
<1>3. /\ Objects(kindOf, h, grey \ {a}) /\ Good(kindOf, heap) \subseteq Good(kindOf, h)
  BY <1>1, <1>2, RewriteSound
<1>4. heap' = h /\ grey' = grey \ {a} /\ grey \ {a} = grey
  BY <1>1, <1>2
<1>5. /\ Objs' = Objs /\ Objects(kindOf, heap, grey)' /\ Good(kindOf, heap)' = Good(kindOf, h)
  BY <1>3, <1>4, AfterScan
<1>6. heap' \in [Addresses -> Objs]
  BY <1>1
<1> QED
  BY <1>1, <1>3, <1>5, <1>6 DEF Grows, Resting, Same

(***************************************************************************)
(* Allocations.  The kinds, with that of the object made.                  *)
(***************************************************************************)
Known(kindOf, kind) == [kindOf EXCEPT ![nextId] = kind]
NewWord(kind)       == [a |-> NewAt, id |-> nextId, tag |-> TagOf(kind)]

Makes(kindOf, kind, o) ==
  /\ Resting(kindOf) /\ Free # {} /\ kind \in Kinds \ (Forwarders \union {"free"})
  /\ o.kind = kind /\ o.id = nextId /\ Shape(kindOf, o)
  /\ o = [id |-> o.id, kind |-> o.kind, word |-> o.word, rest |-> o.rest]
  /\ o.word \in Good(kindOf, heap) /\ o.rest \in Seq(Good(kindOf, heap))

\* q takes the place of p: the same, or written to.
Replaces(kindOf, kind, p, q) ==
  \/ q = p
  \/ LET S == Good(kindOf, heap) \union {NewWord(kind)}
     IN  /\ p.id # 0 /\ q.id = p.id /\ q.kind = p.kind /\ Shape(Known(kindOf, kind), q)
         /\ q = [id |-> q.id, kind |-> q.kind, word |-> q.word, rest |-> q.rest]
         /\ q.word \in S /\ q.rest \in Seq(S)

Allocates(kindOf, kind, o, kind2, new) ==
  /\ Makes(kindOf, kind, o) /\ kind2 = Known(kindOf, kind) /\ new = NewWord(kind)
  /\ nextId' = nextId + 1 /\ UNCHANGED <<gc, white, nailed, grey>>
  /\ heap' = [a \in Addresses |-> heap'[a]] /\ heap'[NewAt] = o
  /\ \A a \in Addresses \ {NewAt} : Replaces(kindOf, kind, heap[a], heap'[a])

LEMMA MoreIds ==
  ASSUME nextId \in Nat \ {0}, nextId' = nextId + 1
  PROVE  /\ Words \subseteq Words' /\ Objs \subseteq Objs' /\ nextId' \in Nat \ {0}
         /\ nextId \in 0 .. nextId' /\ nextId \in 1 .. nextId' - 1 /\ nextId < nextId'
         /\ 1 .. nextId - 1 \subseteq 1 .. nextId' - 1
         /\ \A n \in 0 .. nextId : n < nextId => n # nextId /\ n < nextId'
<1>1. /\ \A n \in Nat \ {0} : 0 .. n \subseteq 0 .. n + 1 /\ n + 1 \in Nat \ {0} /\ n \in 0 .. n + 1
      /\ \A n \in Nat \ {0} : n \in 1 .. (n + 1) - 1 /\ n < n + 1 /\ 1 .. n - 1 \subseteq 1 .. (n + 1) - 1
      /\ \A n \in Nat \ {0} : \A m \in 0 .. n : m < n => m # n /\ m < n + 1
  OBVIOUS
<1>2. 0 .. nextId \subseteq 0 .. nextId'
  BY <1>1
<1>3. Words \subseteq Words'
  BY <1>2 DEF Words
<1>4. Seq(Words) \subseteq Seq(Words')
  BY <1>3, SeqOfMore
<1>5. Objs \subseteq Objs'
  <2> HIDE DEF Words
  <2> QED
    BY <1>2, <1>3, <1>4 DEF Objs
<1> QED
  BY <1>1, <1>3, <1>5

\* The objects before, where nothing is collected.
LEMMA RestingFacts ==
  ASSUME NEW kindOf, Resting(kindOf)
  PROVE  /\ white = {} /\ nailed = {} /\ grey = {} /\ Condemned = {} /\ nextId \in Nat \ {0}
         /\ heap \in [Addresses -> Objs] /\ kindOf \in [Nat -> Kinds] /\ Objects(kindOf, heap, grey)
         /\ \A a \in Addresses : /\ heap[a].kind \notin Forwarders
                                 /\ Live(heap, a) <=> heap[a].kind # "free"
                                 /\ Live(heap, a) <=> heap[a].id # 0
                                 /\ Live(heap, a) => heap[a].id \in 1 .. nextId - 1
         /\ \A a \in Addresses : Live(heap, a) =>
              /\ heap[a].kind = kindOf[heap[a].id] /\ Shape(kindOf, heap[a])
              /\ heap[a].word \in Good(kindOf, heap) /\ heap[a].rest \in Seq(Good(kindOf, heap))
<1>1. /\ white = {} /\ nailed = {} /\ grey = {} /\ Condemned = {} /\ nextId \in Nat \ {0}
      /\ heap \in [Addresses -> Objs] /\ kindOf \in [Nat -> Kinds] /\ Objects(kindOf, heap, grey)
      /\ \A a \in Addresses : /\ heap[a].kind \notin Forwarders
                              /\ Live(heap, a) <=> heap[a].kind # "free"
                              /\ Live(heap, a) <=> heap[a].id # 0
  BY OffFacts, TypedFacts DEF Resting, CollectorTyped, Typed
<1>2. ASSUME NEW a \in Addresses, Live(heap, a)
      PROVE  /\ heap[a].id \in 1 .. nextId - 1
             /\ heap[a].kind = kindOf[heap[a].id] /\ Shape(kindOf, heap[a])
             /\ heap[a].word \in Good(kindOf, heap) /\ heap[a].rest \in Seq(Good(kindOf, heap))
  <2>1. LiveObject(kindOf, heap, grey, a)
    BY <1>1, <1>2 DEF Objects
  <2>2. /\ heap[a].id \in 1 .. nextId - 1 /\ heap[a].kind = kindOf[heap[a].id] /\ Shape(kindOf, heap[a])
        /\ heap[a].word \in Words /\ heap[a].rest \in Seq(Words)
        /\ \A w \in WordsIn(heap[a]) : Meant(kindOf, w) /\ Settled(heap, w)
    BY <1>1, <2>1 DEF LiveObject, Objs
  <2>3. heap[a].word \in WordsIn(heap[a]) /\ \A i \in DOMAIN heap[a].rest : heap[a].rest[i] \in WordsIn(heap[a])
    BY DEF WordsIn
  <2>4. \A i \in DOMAIN heap[a].rest : heap[a].rest[i] \in Words
    BY <2>2
  <2>5. heap[a].word \in Good(kindOf, heap) /\ \A i \in DOMAIN heap[a].rest : heap[a].rest[i] \in Good(kindOf, heap)
    BY <2>2, <2>3, <2>4 DEF Good
  <2> HIDE DEF Good
  <2> QED
    BY <2>2, <2>5
<1> QED
  BY <1>1, <1>2

LEMMA SameGood ==
  ASSUME NEW kindOf, Resting(kindOf), NEW kind
  PROVE  \A w \in Good(kindOf, heap) : Same(kindOf, Known(kindOf, kind), w, w)
<1>1. kindOf \in [Nat -> Kinds] /\ nextId \in Nat \ {0}
  BY DEF Resting, Typed
<1>2. ASSUME NEW w \in Good(kindOf, heap), w.id # 0 PROVE Known(kindOf, kind)[w.id] = kindOf[w.id]
  <2>1. w.id \in Nat /\ w.id # nextId
    BY <1>1, <1>2 DEF Good, Words, Meant
  <2> QED
    BY <1>1, <2>1 DEF Known
<1> QED
  BY <1>2 DEF Same

\* An object that was there.
LEMMA SameShape ==
  ASSUME NEW kindOf, Resting(kindOf), NEW kind, NEW o, o.word \in Good(kindOf, heap),
         o.rest \in Seq(Good(kindOf, heap)), Shape(kindOf, o)
  PROVE  Shape(Known(kindOf, kind), o)
<1>1. \A w \in Good(kindOf, heap) : Same(kindOf, Known(kindOf, kind), w, w)
  BY SameGood
<1>2. Good(kindOf, heap) \subseteq Words
  BY DEF Good
<1>3. o.rest \in Seq(Words) /\ \A i \in 1 .. Len(o.rest) : o.rest[i] \in Good(kindOf, heap)
  <2> HIDE DEF Good
  <2> QED
    BY <1>2, SeqOfMore
<1>4. Alike(kindOf, Known(kindOf, kind), o, o)
  BY <1>1, <1>3 DEF Alike
<1> QED
  BY <1>4, ShapeKept

LEMMA AllocSound ==
  ASSUME NEW kindOf, NEW kind, NEW o, NEW kind2, NEW new, Allocates(kindOf, kind, o, kind2, new)
  PROVE  /\ Grows(kindOf, kind2) /\ new \in Good(kind2, heap)' /\ IsRef(kind2, new, kind)
<1> DEFINE G == Good(kindOf, heap)
<1>0. kind2 = Known(kindOf, kind) /\ new = NewWord(kind)
  BY DEF Allocates
<1>1. /\ Resting(kindOf) /\ Free # {} /\ kind \in Kinds /\ kind \notin Forwarders \union {"free"}
      /\ o.kind = kind /\ o.id = nextId /\ Shape(kindOf, o) /\ o.word \in G /\ o.rest \in Seq(G)
      /\ o = [id |-> o.id, kind |-> o.kind, word |-> o.word, rest |-> o.rest]
      /\ nextId' = nextId + 1 /\ white' = white /\ nailed' = nailed /\ grey' = grey
      /\ heap' = [a \in Addresses |-> heap'[a]] /\ heap'[NewAt] = o
  BY DEF Allocates, Makes
<1>2. /\ white = {} /\ nailed = {} /\ grey = {} /\ Condemned = {} /\ nextId \in Nat \ {0}
      /\ heap \in [Addresses -> Objs] /\ kindOf \in [Nat -> Kinds]
      /\ \A a, b \in Addresses : Live(heap, a) /\ Live(heap, b) /\ heap[a].id = heap[b].id => a = b
      /\ \A a \in Addresses : /\ heap[a].kind \notin Forwarders
                              /\ Live(heap, a) <=> heap[a].kind # "free"
                              /\ Live(heap, a) <=> heap[a].id # 0
                              /\ Live(heap, a) => heap[a].id \in 1 .. nextId - 1
  BY <1>1, RestingFacts DEF Objects
<1>3. /\ Words \subseteq Words' /\ Objs \subseteq Objs' /\ nextId' \in Nat \ {0}
      /\ nextId \in 0 .. nextId' /\ nextId \in 1 .. nextId' - 1 /\ nextId < nextId'
      /\ 1 .. nextId - 1 \subseteq 1 .. nextId' - 1
      /\ \A n \in 0 .. nextId : n < nextId => n # nextId /\ n < nextId'
  BY <1>1, <1>2, MoreIds
<1>4. NewAt \in Addresses /\ heap[NewAt].kind = "free" /\ NewAt \in Int
  <2>1. NewAt \in Free
    BY <1>1, MinIs DEF NewAt, Free
  <2> QED
    BY <2>1, AddressFacts DEF Free
<1>5. kind2 \in [Nat -> Kinds] /\ kind2[nextId] = kind /\ \A w \in G : Same(kindOf, kind2, w, w)
  BY <1>0, <1>1, <1>2, SameGood DEF Known
<1>6. \A n \in 1 .. nextId - 1 : kind2[n] = kindOf[n]
  BY <1>0, <1>2 DEF Known
<1>7. Condemned' = {}
  BY <1>1, <1>2 DEF Condemned
<1>8. new \in Words' /\ new.id = nextId /\ new.a = NewAt /\ new.tag = TagOf(kind)
  <2>1. TagOf(kind) \in {0, 1, 2, 12, 14}
    BY DEF TagOf
  <2> QED
    BY <1>0, <1>3, <1>4, <2>1 DEF NewWord, Words
<1> HIDE DEF G
<1>9. ASSUME NEW a \in Addresses, a # NewAt
      PROVE  heap'[a].id = heap[a].id /\ heap'[a].kind = heap[a].kind
  BY <1>9 DEF Allocates, Replaces
<1>10. /\ \A a \in Addresses : Live(heap', a) <=> Live(heap, a) \/ a = NewAt
       /\ ~Live(heap, NewAt)
  BY <1>1, <1>4, <1>9 DEF Live
<1>11. ASSUME NEW w \in G PROVE w \in Good(kind2, heap)'
  <2>1. w \in Words /\ Meant(kindOf, w) /\ Settled(heap, w)
    BY DEF G, Good
  <2>2. w.id # 0 => /\ w.id < nextId' /\ w.tag = TagOf(kind2[w.id])
                    /\ w.a \in Addresses /\ heap'[w.a].id = w.id /\ Live(heap', w.a)
    BY <1>3, <1>5, <1>9, <1>10, <2>1 DEF Meant, Settled, Same, Words
  <2>3. Meant(kind2, w)' /\ Settled(heap, w)'
    BY <1>7, <2>2 DEF Meant, Settled, Live
  <2> QED
    BY <1>3, <2>1, <2>3 DEF Good
<1>12. new \in Good(kind2, heap)'
  <2>1. Meant(kind2, new)'
    BY <1>3, <1>5, <1>8 DEF Meant
  <2>2. Settled(heap, new)'
    BY <1>1, <1>4, <1>7, <1>8, <1>10 DEF Settled, Live
  <2> QED
    BY <1>8, <2>1, <2>2 DEF Good
<1>13. ASSUME NEW a \in Addresses, Live(heap', a)
       PROVE  /\ heap'[a].id \in 1 .. nextId' - 1 /\ heap'[a].kind = kind2[heap'[a].id]
              /\ Shape(kind2, heap'[a])
              /\ heap'[a].word \in G \union {new} /\ heap'[a].rest \in Seq(G \union {new})
  <2>0. Seq(G) \subseteq Seq(G \union {new})
    BY SeqOfMore
  <2>1. CASE a = NewAt
    <3>1. Shape(kind2, o)
      BY <1>0, <1>1, SameShape DEF G
    <3> QED
      BY <1>1, <1>3, <1>5, <2>0, <2>1, <3>1
  <2>2. CASE a # NewAt
    <3>1. /\ Live(heap, a) /\ heap'[a].id = heap[a].id /\ heap'[a].kind = heap[a].kind
          /\ heap[a].id \in 1 .. nextId - 1 /\ heap[a].kind = kindOf[heap[a].id] /\ Shape(kindOf, heap[a])
          /\ heap[a].word \in G /\ heap[a].rest \in Seq(G)
      BY <1>1, <1>9, <1>10, <1>13, <2>2, RestingFacts DEF G
    <3>2. heap'[a].id \in 1 .. nextId' - 1 /\ heap'[a].kind = kind2[heap'[a].id]
      BY <1>3, <1>6, <3>1
    <3>3. CASE heap'[a] = heap[a]
      <4>1. Shape(kind2, heap[a])
        BY <1>0, <1>1, <3>1, SameShape DEF G
      <4> QED
        BY <2>0, <3>1, <3>2, <3>3, <4>1
    <3>4. CASE heap'[a] # heap[a]
      <4>1. Replaces(kindOf, kind, heap[a], heap'[a])
        BY <2>2 DEF Allocates
      <4>2. /\ Shape(kind2, heap'[a])
            /\ heap'[a].word \in G \union {new} /\ heap'[a].rest \in Seq(G \union {new})
        BY <1>0, <3>4, <4>1 DEF Replaces, G
      <4> QED
        BY <3>2, <4>2
    <3> QED
      BY <3>3, <3>4
  <2> QED
    BY <2>1, <2>2
<1>14. \A w \in G \union {new} : w \in Good(kind2, heap)'
  BY <1>11, <1>12
<1>15. \A w \in Good(kind2, heap)' : w \in Words' /\ Meant(kind2, w)' /\ Leads(heap, w)' /\ Settled(heap, w)'
  BY DEF Good, Leads, Settled
<1>16. ASSUME NEW a \in Addresses, Live(heap', a) PROVE LiveObject(kind2, heap, grey, a)'
  <2>1. \A w \in WordsIn(heap'[a]) : w \in G \union {new}
    BY <1>13, <1>16, WordsOfGood
  <2>2. \A w \in WordsIn(heap'[a]) : Meant(kind2, w)' /\ Leads(heap, w)' /\ Settled(heap, w)'
    BY <1>14, <1>15, <2>1
  <2> QED
    BY <1>13, <1>16, <2>2 DEF LiveObject, Meant, Leads, Settled, Live
<1>17. Objects(kind2, heap, grey)'
  <2>1. \A a \in Addresses : heap'[a].kind = "free" => heap'[a].id = 0 /\ a \notin white'
    BY <1>1, <1>2, <1>9
  <2>2. \A a \in Addresses : heap'[a].kind \notin Forwarders
    BY <1>1, <1>2, <1>9
  <2>3. ASSUME NEW a \in Addresses, NEW b \in Addresses, Live(heap', a), Live(heap', b), heap'[a].id = heap'[b].id
        PROVE  a = b
    <3>1. \A x \in Addresses : x # NewAt /\ Live(heap', x) => Live(heap, x) /\ heap'[x].id = heap[x].id /\ heap[x].id \in 1 .. nextId - 1
      BY <1>2, <1>9, <1>10
    <3>2. nextId \notin 1 .. nextId - 1
      BY <1>2
    <3>3. heap'[NewAt].id = nextId
      BY <1>1
    <3> QED
      BY <1>2, <2>3, <3>1, <3>2, <3>3
  <2> QED
    BY <1>1, <1>2, <1>16, <2>1, <2>2, <2>3 DEF Objects, Live
<1>18. heap' \in [Addresses -> Objs']
  <2>1. ASSUME NEW a \in Addresses PROVE heap'[a] \in Objs'
    <3>1. CASE heap'[a] = heap[a]
      BY <1>2, <1>3, <3>1
    <3>2. CASE heap'[a] # heap[a]
      <4>1. heap'[a] = [id |-> heap'[a].id, kind |-> heap'[a].kind, word |-> heap'[a].word, rest |-> heap'[a].rest]
        BY <1>1, <3>2 DEF Allocates, Replaces
      <4>2. Live(heap', a)
        BY <1>2, <1>10, <3>2 DEF Allocates, Replaces
      <4>3. /\ heap'[a].word \in G \union {new} /\ heap'[a].rest \in Seq(G \union {new})
            /\ heap'[a].id \in 1 .. nextId' - 1 /\ heap'[a].kind \in Kinds
        <5>1. \A n \in 1 .. nextId' - 1 : kind2[n] \in Kinds
          BY <1>3, <1>5
        <5> QED
          BY <1>13, <4>2, <5>1
      <4>4. G \union {new} \subseteq Words'
        BY <1>14, <1>15
      <4>5. heap'[a].word \in Words' /\ heap'[a].rest \in Seq(Words')
        BY <4>3, <4>4, SeqOfMore
      <4>6. heap'[a].id \in 0 .. nextId'
        BY <1>3, <4>3
      <4> QED
        BY <4>1, <4>3, <4>5, <4>6 DEF Objs
    <3> QED
      BY <3>1, <3>2
  <2> QED
    BY <1>1, <2>1
<1>19. IsRef(kind2, new, kind)
  BY <1>2, <1>5, <1>8 DEF IsRef
<1>20. Grows(kindOf, kind2)
  BY <1>3, <1>5, <1>11, <1>17, <1>18 DEF Grows, G
<1> QED
  BY <1>12, <1>19, <1>20

(***************************************************************************)
(* Where the mutator's steps leave from and arrive at.                     *)
(***************************************************************************)
Starting(kindOf) ==
  /\ Resting(kindOf) /\ Compiling /\ Queue /\ Frames(kindOf) /\ InVariables(kindOf)
  /\ cstack \in [Variables -> Good(kindOf, heap)] /\ stack \in Seq(Good(kindOf, heap))
  /\ encoders \in Seq(Seq(Good(kindOf, heap)))
  /\ RootCreated \/ stack = <<>>
  /\ bp \in Nat /\ bp <= Len(stack) /\ messages \in Seq({"gc_start", "gc"})

Lands(kindOf, kind2) ==
  /\ Grows(kindOf, kind2) /\ UNCHANGED collector
  /\ cstack' \in [Variables -> Good(kind2, heap)'] /\ stack' \in Seq(Good(kind2, heap)')
  /\ encoders' \in Seq(Seq(Good(kind2, heap)'))
  /\ RootCreated' \/ stack' = <<>>
  /\ bp' \in Nat /\ bp' <= Len(stack') /\ messages' \in Seq({"gc_start", "gc"})
  /\ Frames(kind2)' /\ InVariables(kind2)' /\ Compiling' /\ Queue'

LEMMA Started ==
  ASSUME IInv, Running
  PROVE  \E kindOf \in [Nat -> Kinds] : Starting(kindOf)
<1>1. PICK kindOf \in [Nat -> Kinds] : Sane(kindOf)
  BY DEF IInv, Running
<1>2. Typed /\ gc = "off" /\ Compiling /\ Queue /\ messages \in Seq({"gc_start", "gc"})
  BY DEF IInv, Running, Typed, TypeOK
<1>3. bp \in Nat /\ bp <= Len(stack)
  BY <1>2, TypedFacts
<1>4. Starting(kindOf)
  BY <1>1, <1>2, <1>3 DEF Starting, Resting, Sane, Roots
<1> QED
  BY <1>4

LEMMA Landed ==
  ASSUME NEW kindOf, NEW kind2, Starting(kindOf), Lands(kindOf, kind2)
  PROVE  IInv'
<1>1. /\ Typed /\ gc = "off" /\ gc' = gc /\ white' = white /\ nailed' = nailed /\ grey' = grey
      /\ flips' = flips /\ confused' = confused
  BY DEF Starting, Resting, Lands, collector
<1>2. /\ kind2 \in [Nat -> Kinds] /\ nextId' \in Nat \ {0} /\ heap' \in [Addresses -> Objs']
      /\ Objects(kind2, heap, grey)'
  BY DEF Lands, Grows
<1> DEFINE new == Good(kind2, heap)'
<1>3. /\ cstack' \in [Variables -> new] /\ stack' \in Seq(new) /\ encoders' \in Seq(Seq(new))
      /\ RootCreated' \/ stack' = <<>>
      /\ bp' \in Nat /\ bp' <= Len(stack') /\ messages' \in Seq({"gc_start", "gc"})
      /\ Frames(kind2)' /\ InVariables(kind2)' /\ Compiling' /\ Queue'
  BY DEF Lands
<1>4. Roots(kind2)'
  BY <1>1, <1>3 DEF Roots
<1>5. new \subseteq Words'
  BY DEF Good
<1> HIDE DEF new
<1>6. cstack' \in [Variables -> Words'] /\ stack' \in Seq(Words') /\ encoders' \in Seq(Seq(Words'))
  <2>1. Seq(new) \subseteq Seq(Words')
    BY <1>5, SeqOfMore
  <2>2. Seq(Seq(new)) \subseteq Seq(Seq(Words'))
    BY <2>1, SeqOfMore
  <2> QED
    BY <1>3, <1>5, <2>1, <2>2, FunctionOfMore
<1>7. bp' \in 0 .. Len(stack')
  <2>1. Len(stack') \in Nat
    BY <1>3
  <2> QED
    BY <1>3, <2>1
<1>8. Typed'
  BY <1>1, <1>2, <1>3, <1>6, <1>7 DEF Typed, TypeOK, Objs
<1> QED
  BY <1>2, <1>3, <1>4, <1>8 DEF IInv, Sane

\* What a step leaves alone stays good.
LEMMA StackStays ==
  ASSUME NEW kindOf, NEW kind2, Starting(kindOf), Grows(kindOf, kind2), UNCHANGED <<stack, bp>>
  PROVE  /\ stack' \in Seq(Good(kind2, heap)') /\ Frames(kind2)'
         /\ bp' \in Nat /\ bp' <= Len(stack')
<1> DEFINE old == Good(kindOf, heap)
           new == Good(kind2, heap)'
<1>1. /\ old \subseteq new /\ \A w \in old : Same(kindOf, kind2, w, w)
      /\ stack \in Seq(old) /\ bp \in Nat /\ bp <= Len(stack) /\ Frames(kindOf)
  BY DEF Grows, Starting
<1> HIDE DEF old, new
<1>2. stack' \in Seq(new)
  BY <1>1, SeqOfMore
<1>3. \A i \in 1 .. bp : Same(kindOf, kind2, stack[i], stack'[i])
  <2>1. \A i \in 1 .. Len(stack) : stack[i] \in old
    BY <1>1
  <2>2. Len(stack) \in Nat
    BY <1>1
  <2> QED
    BY <1>1, <2>1, <2>2
<1>4. Frames(kind2)'
  BY <1>1, <1>3, FramesKept
<1> QED
  BY <1>1, <1>2, <1>4 DEF new

LEMMA EncodersStay ==
  ASSUME NEW kindOf, NEW kind2, Starting(kindOf), Grows(kindOf, kind2)
  PROVE  encoders \in Seq(Seq(Good(kind2, heap)'))
<1> DEFINE old == Good(kindOf, heap)
           new == Good(kind2, heap)'
<1>1. old \subseteq new /\ encoders \in Seq(Seq(old))
  BY DEF Grows, Starting
<1> HIDE DEF old, new
<1>2. Seq(old) \subseteq Seq(new)
  BY <1>1, SeqOfMore
<1>3. encoders \in Seq(Seq(new))
  BY <1>1, <1>2, SeqOfMore
<1> QED
  BY <1>3 DEF new

\* A C++ variable that is written, and what the others hold.
LEMMA VariablesStay ==
  ASSUME NEW kindOf, NEW kind2, Starting(kindOf), Grows(kindOf, kind2)
  PROVE  /\ cstack \in [Variables -> Good(kind2, heap)']
         /\ \A n \in Int : Number(n) \in Good(kind2, heap)'
         /\ Nil \in Good(kind2, heap)' /\ NoVariables \in [Variables -> Good(kind2, heap)']
         /\ \A v \in Variables, kind \in Kinds : IsRef(kindOf, cstack[v], kind) => IsRef(kind2, cstack[v], kind)
<1> DEFINE old == Good(kindOf, heap)
           new == Good(kind2, heap)'
<1>1. /\ old \subseteq new /\ cstack \in [Variables -> old] /\ \A w \in old : Same(kindOf, kind2, w, w)
  BY DEF Grows, Starting
<1>2. Nil \in old /\ \A n \in Int : Number(n) \in old
  BY GoodNumbers DEF Starting, Resting
<1> HIDE DEF old, new
<1>3. \A v \in Variables : cstack[v] \in old
  BY <1>1
<1>4. \A v \in Variables, kind \in Kinds : IsRef(kindOf, cstack[v], kind) => IsRef(kind2, cstack[v], kind)
  BY <1>1, <1>3, SameRef
<1>5. NoVariables \in [Variables -> new]
  BY <1>1, <1>2 DEF NoVariables
<1> QED
  BY <1>1, <1>2, <1>4, <1>5 DEF new

(***************************************************************************)
(* The source.                                                             *)
(***************************************************************************)
DepthAfter(item, n) == CASE item.k = "enter" -> n + 1 [] item.k = "exit" -> n - 1 [] OTHER -> n

LEMMA NestedTail ==
  ASSUME NEW items, NEW n \in Nat, items # <<>>, Nested(items, n)
  PROVE  LET d == DepthAfter(Head(items), n)
         IN  /\ d \in Nat /\ Nested(Tail(items), d) /\ (d > 0 => Tail(items) # <<>>)
             /\ Head(items).k # "enter" => n > 0
             /\ Head(items) \in Items
<1> DEFINE d == DepthAfter(Head(items), n)
           L == Len(items)
<1>1. PICK depth \in [0 .. L -> 0 .. n + L] :
        /\ depth[0] = n /\ depth[L] = 0
        /\ \A i \in 1 .. L :
             /\ depth[i] = CASE items[i].k = "enter" -> depth[i - 1] + 1
                             [] items[i].k = "exit"  -> depth[i - 1] - 1
                             [] OTHER                -> depth[i - 1]
             /\ items[i].k # "enter" => depth[i - 1] > 0
             /\ i < L => depth[i] > 0
  BY DEF Nested
<1>2. /\ items \in Seq(Items) /\ L \in Nat /\ L >= 1 /\ Head(items) = items[1] /\ Head(items) \in Items
      /\ Tail(items) \in Seq(Items) /\ Len(Tail(items)) = L - 1
      /\ \A i \in 1 .. L - 1 : Tail(items)[i] = items[i + 1]
  <2>1. items \in Seq(Items)
    BY DEF Nested
  <2> QED
    BY <2>1
<1>3. \A i \in 1 .. L : /\ depth[i] = DepthAfter(items[i], depth[i - 1])
                        /\ items[i].k # "enter" => depth[i - 1] > 0
                        /\ i < L => depth[i] > 0
  BY <1>1 DEF DepthAfter
<1>4. \A i \in 0 .. L : depth[i] \in Nat
  <2>1. \A a \in Nat : \A x \in 0 .. a : x \in Nat
    OBVIOUS
  <2> QED
    BY <1>1, <1>2
<1> HIDE DEF L
<1>5. depth[1] = d /\ d \in Nat
  <2>1. 1 \in 1 .. L /\ 1 \in 0 .. L /\ 1 - 1 = 0
    BY <1>2
  <2> QED
    BY <1>1, <1>2, <1>3, <1>4, <2>1
<1> HIDE DEF d
<1>6. \A i \in 1 .. L : depth[i] <= d + (i - 1)
  <2> DEFINE T == {i \in Nat : i + 1 <= L /\ ~(depth[i + 1] <= d + i)}
  <2>1. 0 \notin T
    BY <1>5
  <2>2. ASSUME NEW i \in Nat, i + 1 \in T PROVE i \in T
    <3>1. i + 2 \in 1 .. L /\ i + 1 \in 0 .. L /\ (i + 2) - 1 = i + 1 /\ (i + 1) + 1 = i + 2
      BY <1>2, <2>2
    <3>2. depth[i + 2] = DepthAfter(items[i + 2], depth[i + 1])
      BY <1>3, <3>1
    <3>3. depth[i + 2] <= depth[i + 1] + 1
      <4>1. \A x \in Nat : DepthAfter(items[i + 2], x) <= x + 1
        BY DEF DepthAfter
      <4> QED
        BY <1>4, <3>1, <3>2, <4>1
    <3>4. depth[i + 1] \in Nat /\ depth[i + 2] \in Nat /\ ~(depth[i + 2] <= d + (i + 1))
      BY <1>4, <2>2, <3>1
    <3>5. ~(depth[i + 1] <= d + i)
      BY <1>5, <3>3, <3>4
    <3> QED
      BY <1>2, <2>2, <3>1, <3>5
  <2>3. T = {}
    <3>1. T \subseteq Nat
      OBVIOUS
    <3> HIDE DEF T
    <3> QED
      BY <2>1, <2>2, <3>1, NoException
  <2>4. \A i \in 1 .. L : i - 1 \in Nat /\ (i - 1) + 1 = i
    BY <1>2
  <2>5. \A j \in Nat : j + 1 <= L => depth[j + 1] <= d + j
    BY <2>3
  <2> QED
    BY <1>2, <2>4, <2>5
<1> DEFINE tail == Tail(items)
           rest == [i \in 0 .. L - 1 |-> depth[i + 1]]
<1>7. rest \in [0 .. L - 1 -> 0 .. d + (L - 1)]
  <2>1. ASSUME NEW i \in 0 .. L - 1 PROVE depth[i + 1] \in 0 .. d + (L - 1)
    <3>1. i + 1 \in 1 .. L /\ i + 1 \in 0 .. L
      BY <1>2
    <3>2. depth[i + 1] \in Nat /\ depth[i + 1] <= d + ((i + 1) - 1)
      BY <1>4, <1>6, <3>1
    <3> QED
      BY <1>2, <1>5, <3>2
  <2> QED
    BY <2>1
<1>8. rest[0] = d /\ rest[L - 1] = 0
  <2>1. 0 \in 0 .. L - 1 /\ L - 1 \in 0 .. L - 1 /\ (L - 1) + 1 = L /\ 0 + 1 = 1
    BY <1>2
  <2> QED
    BY <1>1, <1>5, <2>1 DEF L
<1>9. ASSUME NEW i \in 1 .. L - 1
      PROVE  /\ rest[i] = CASE tail[i].k = "enter" -> rest[i - 1] + 1
                            [] tail[i].k = "exit"  -> rest[i - 1] - 1
                            [] OTHER               -> rest[i - 1]
             /\ tail[i].k # "enter" => rest[i - 1] > 0
             /\ i < L - 1 => rest[i] > 0
  <2>1. /\ i \in 0 .. L - 1 /\ i - 1 \in 0 .. L - 1 /\ i + 1 \in 1 .. L /\ (i - 1) + 1 = i /\ (i + 1) - 1 = i
        /\ i < L - 1 => i + 1 < L
    BY <1>2
  <2>2. rest[i] = depth[i + 1] /\ rest[i - 1] = depth[i] /\ tail[i] = items[i + 1]
    BY <1>2, <2>1
  <2>3. /\ depth[i + 1] = DepthAfter(items[i + 1], depth[i])
        /\ items[i + 1].k # "enter" => depth[i] > 0
        /\ i + 1 < L => depth[i + 1] > 0
    BY <1>3, <2>1
  <2> HIDE DEF rest, tail
  <2> QED
    BY <2>1, <2>2, <2>3 DEF DepthAfter
<1> HIDE DEF rest
<1>10. Nested(tail, d)
  <2>1. tail \in Seq(Items) /\ Len(tail) = L - 1
    BY <1>2
  <2> HIDE DEF tail
  <2>2. \A m \in Int : m = L - 1 => 
          /\ rest \in [0 .. m -> 0 .. d + m] /\ rest[0] = d /\ rest[m] = 0
          /\ \A i \in 1 .. m :
               /\ rest[i] = CASE tail[i].k = "enter" -> rest[i - 1] + 1
                             [] tail[i].k = "exit"  -> rest[i - 1] - 1
                             [] OTHER               -> rest[i - 1]
               /\ tail[i].k # "enter" => rest[i - 1] > 0
               /\ i < m => rest[i] > 0
    BY <1>7, <1>8, <1>9
  <2>3. Len(tail) \in Int
    BY <1>2, <2>1
  <2> QED
    BY <2>1, <2>2, <2>3 DEF Nested
<1>11. d > 0 => tail # <<>>
  <2>1. CASE L = 1
    BY <1>1, <1>5, <2>1 DEF L
  <2>2. CASE L # 1
    <3>1. Len(tail) # 0
      BY <1>2, <2>2
    <3> HIDE DEF tail
    <3> QED
      BY <3>1
  <2> QED
    BY <2>1, <2>2
<1>12. Head(items).k # "enter" => n > 0
  <2>1. 1 \in 1 .. L /\ 1 - 1 = 0
    BY <1>2
  <2> QED
    BY <1>1, <1>2, <1>3, <2>1
<1> QED
  BY <1>2, <1>5, <1>10, <1>11, <1>12 DEF d

LEMMA PopIs ==
  ASSUME NEW S, NEW s \in Seq(S), Len(s) > 0
  PROVE  /\ Front(s) \in Seq(S) /\ Len(Front(s)) = Len(s) - 1 /\ Len(s) \in Nat
         /\ Last(s) \in S /\ Last(s) = s[Len(s)]
         /\ \A i \in 1 .. Len(s) - 1 : Front(s)[i] = s[i]
<1>1. Last(s) = s[Len(s)] /\ Front(s) = SubSeq(s, 1, Len(s) - 1)
  BY DEF Last, Front
<1>2. \A t \in Seq(S), n \in Nat : Len(t) = n + 1 =>
        /\ SubSeq(t, 1, n) \in Seq(S) /\ Len(SubSeq(t, 1, n)) = n /\ t[n + 1] \in S
        /\ \A i \in 1 .. n : SubSeq(t, 1, n)[i] = t[i]
  OBVIOUS
<1>3. Len(s) \in Nat /\ Len(s) - 1 \in Nat /\ (Len(s) - 1) + 1 = Len(s)
  OBVIOUS
<1> QED
  BY <1>1, <1>2, <1>3

LEMMA WrittenAt ==
  ASSUME NEW S, NEW s \in Seq(S), NEW n, NEW v \in S
  PROVE  [s EXCEPT ![n] = v] \in Seq(S) /\ Len([s EXCEPT ![n] = v]) = Len(s)
<1> DEFINE t == [s EXCEPT ![n] = v]
<1>1. Len(s) \in Nat /\ DOMAIN s = 1 .. Len(s) /\ \A i \in 1 .. Len(s) : s[i] \in S
  OBVIOUS
<1>2. t \in [1 .. Len(s) -> S]
  BY <1>1
<1> HIDE DEF t
<1>3. t \in Seq(S) /\ Len(t) = Len(s)
  BY <1>1, <1>2
<1> QED
  BY <1>3 DEF t

Making(kindOf, kind, word, rest) ==
  /\ Starting(kindOf) /\ Free # {} /\ kind \in Kinds \ (Forwarders \union {"free"})
  /\ word \in Good(kindOf, heap) /\ rest \in Seq(Good(kindOf, heap))
  /\ Shape(kindOf, Made(kind, word, rest).o)

LEMMA MadeIs ==
  ASSUME NEW kind, NEW word, NEW rest
  PROVE  LET made == Made(kind, word, rest)
         IN  /\ made.w = NewWord(kind)
             /\ made.o = [id |-> nextId, kind |-> kind, word |-> word, rest |-> rest]
BY DEF Made, NewWord

LEMMA Allocated ==
  ASSUME NEW kindOf, NEW kind, NEW word, NEW rest, Making(kindOf, kind, word, rest),
         Alloc(Made(kind, word, rest)), UNCHANGED collector
  PROVE  \E kind2, new : /\ new = Made(kind, word, rest).w /\ Grows(kindOf, kind2)
                         /\ new \in Good(kind2, heap)' /\ IsRef(kind2, new, kind)
<1>1. PICK kind2, new, o : /\ kind2 = Known(kindOf, kind) /\ new = Made(kind, word, rest).w
                           /\ o = Made(kind, word, rest).o
  OBVIOUS
<1>2. new = NewWord(kind) /\ o = [id |-> nextId, kind |-> kind, word |-> word, rest |-> rest]
  BY <1>1, MadeIs
<1>3. /\ Resting(kindOf) /\ Free # {} /\ kind \in Kinds \ (Forwarders \union {"free"})
      /\ word \in Good(kindOf, heap) /\ rest \in Seq(Good(kindOf, heap)) /\ Shape(kindOf, o)
  BY <1>1 DEF Making, Starting
<1>4. Makes(kindOf, kind, o)
  BY <1>2, <1>3 DEF Makes
<1>5. heap' = [heap EXCEPT ![NewAt] = o] /\ nextId' = nextId + 1 /\ UNCHANGED <<gc, white, nailed, grey>>
  BY <1>1 DEF Alloc, collector
<1>6. heap \in [Addresses -> Objs] /\ NewAt \in Addresses
  <2>1. NewAt \in Free
    BY <1>3, MinIs DEF NewAt, Free
  <2> QED
    BY <1>3, <2>1, RestingFacts DEF Free
<1>7. /\ heap' = [a \in Addresses |-> heap'[a]] /\ heap'[NewAt] = o
      /\ \A a \in Addresses \ {NewAt} : heap'[a] = heap[a]
  BY <1>5, <1>6
<1>8. Allocates(kindOf, kind, o, kind2, new)
  BY <1>1, <1>2, <1>4, <1>5, <1>7 DEF Allocates, Replaces
<1>9. Grows(kindOf, kind2) /\ new \in Good(kind2, heap)' /\ IsRef(kind2, new, kind)
  BY <1>8, AllocSound
<1> QED
  BY <1>1, <1>9

-----------------------------------------------------------------------------
(***************************************************************************)
(* Compiling.                                                              *)
(***************************************************************************)
\* Steps that are taken before there is an exact root.
BeforeRoot == {"compile", "envMap", "names", "fun", "main", "args0", "locals0", "env0"}

LEMMA StepFacts ==
  ASSUME IInv, NEW at, NEW to, Step(at, to)
  PROVE  /\ Running /\ pc = at /\ pc' = to /\ UNCHANGED <<collector, messages>> /\ Free # {}
         /\ \E kindOf \in [Nat -> Kinds] : Starting(kindOf)
BY Started DEF Step, Running

LEMMA EnterStep ==
  ASSUME IInv, Enter
  PROVE  IInv'
<1>1. /\ pc = "compile" /\ pc' = "compile" /\ UNCHANGED <<collector, messages>>
      /\ \E kindOf \in [Nat -> Kinds] : Starting(kindOf)
  BY StepFacts DEF Enter
<1>2. PICK kindOf \in [Nat -> Kinds] : Starting(kindOf)
  BY <1>1
<1>3. /\ Head(source).k = "enter" /\ encoders' = Append(encoders, <<>>) /\ source' = Tail(source)
      /\ UNCHANGED <<heap, nextId, cstack, stack, bp, path>>
  BY DEF Enter
<1>4. Grows(kindOf, kindOf)
  BY <1>1, <1>2, <1>3, GrowsNot DEF Starting, collector
<1>5. /\ stack' \in Seq(Good(kindOf, heap)') /\ Frames(kindOf)' /\ bp' \in Nat /\ bp' <= Len(stack')
      /\ cstack' \in [Variables -> Good(kindOf, heap)'] /\ encoders \in Seq(Seq(Good(kindOf, heap)'))
  BY <1>2, <1>3, <1>4, StackStays, EncodersStay, VariablesStay
<1>6. /\ encoders' \in Seq(Seq(Good(kindOf, heap)')) /\ Len(encoders') = Len(encoders) + 1
      /\ Len(encoders) \in Nat
  <2>1. \A S : <<>> \in Seq(S)
    OBVIOUS
  <2> HIDE DEF Good
  <2> QED
    BY <1>3, <1>5, <2>1, Appended
<1>7. source # <<>> /\ Nested(source, Len(encoders))
  BY <1>1, <1>2 DEF Starting, Compiling
<1>8. Compiling'
  <2>1. /\ DepthAfter(Head(source), Len(encoders)) = Len(encoders) + 1
        /\ Len(encoders) + 1 > 0
    BY <1>3, <1>6 DEF DepthAfter
  <2>2. Nested(source', Len(encoders')) /\ source' # <<>>
    BY <1>3, <1>6, <1>7, <2>1, NestedTail
  <2> QED
    BY <1>1, <2>2 DEF Compiling, Nested
<1>9. InVariables(kindOf)' /\ Queue' /\ (RootCreated' \/ stack' = <<>>)
  BY <1>1, <1>2, <1>3 DEF Starting, InVariables, Queue, Allocating, RootCreated, collector
<1>10. Lands(kindOf, kindOf)
  BY <1>1, <1>2, <1>4, <1>5, <1>6, <1>8, <1>9 DEF Lands, Starting
<1> QED
  BY <1>2, <1>10, Landed

LEMMA LiteralStep ==
  ASSUME IInv, Literal
  PROVE  IInv'
<1>1. /\ pc = "compile" /\ pc' = "compile" /\ UNCHANGED <<collector, messages>> /\ Free # {}
      /\ \E kindOf \in [Nat -> Kinds] : Starting(kindOf)
  BY StepFacts DEF Literal
<1>2. PICK kindOf \in [Nat -> Kinds] : Starting(kindOf)
  BY <1>1
<1> DEFINE kind == IF Head(source).k = "num" THEN "Double" ELSE "String"
           made == Made(kind, Nil, <<>>)
<1>3. /\ Head(source).k \in {"num", "str"} /\ Alloc(made)
      /\ encoders' = [encoders EXCEPT ![Len(encoders)] = Append(@, made.w)] /\ source' = Tail(source)
      /\ UNCHANGED <<cstack, stack, bp, path>>
  BY DEF Literal
<1>4. Making(kindOf, kind, Nil, <<>>)
  <2>1. Nil \in Good(kindOf, heap) /\ <<>> \in Seq(Good(kindOf, heap))
    BY <1>2, GoodNumbers DEF Starting, Resting
  <2>2. Shape(kindOf, made.o)
    <3>1. made.o = [id |-> nextId, kind |-> kind, word |-> Nil, rest |-> <<>>]
      BY MadeIs
    <3> HIDE DEF made
    <3>2. made.o.kind \in {"Double", "String"} /\ made.o.word.id = 0 /\ made.o.rest = <<>>
      BY <3>1 DEF Nil
    <3> QED
      BY <3>2 DEF Shape
  <2>3. kind \in Kinds \ (Forwarders \union {"free"})
    BY DEF Kinds, Forwarders, Prims
  <2> QED
    BY <1>1, <1>2, <2>1, <2>2, <2>3 DEF Making
<1> HIDE DEF kind
<1>5. PICK kind2, new : /\ new = made.w /\ Grows(kindOf, kind2)
                        /\ new \in Good(kind2, heap)' /\ IsRef(kind2, new, kind)
  BY <1>1, <1>3, <1>4, Allocated
<1> HIDE DEF made
<1>6. /\ stack' \in Seq(Good(kind2, heap)') /\ Frames(kind2)' /\ bp' \in Nat /\ bp' <= Len(stack')
      /\ cstack' \in [Variables -> Good(kind2, heap)'] /\ encoders \in Seq(Seq(Good(kind2, heap)'))
  BY <1>2, <1>3, <1>5, StackStays, EncodersStay, VariablesStay
<1>7. source # <<>> /\ Nested(source, Len(encoders)) /\ Len(encoders) \in Nat
  BY <1>1, <1>2 DEF Starting, Compiling
<1>8. /\ Len(encoders) > 0 /\ Nested(source', Len(encoders)) /\ source' # <<>>
  <2>1. DepthAfter(Head(source), Len(encoders)) = Len(encoders) /\ Head(source).k # "enter"
    BY <1>3, <1>7 DEF DepthAfter
  <2> QED
    BY <1>3, <1>7, <2>1, NestedTail
<1>9. encoders' \in Seq(Seq(Good(kind2, heap)')) /\ Len(encoders') = Len(encoders)
  <2> HIDE DEF Good
  <2>1. Len(encoders) \in 1 .. Len(encoders) /\ encoders[Len(encoders)] \in Seq(Good(kind2, heap)')
    BY <1>6, <1>7, <1>8
  <2>2. Append(encoders[Len(encoders)], new) \in Seq(Good(kind2, heap)')
    BY <1>5, <2>1
  <2>3. encoders' = [encoders EXCEPT ![Len(encoders)] = Append(encoders[Len(encoders)], new)]
    BY <1>3, <1>5
  <2> QED
    BY <1>6, <2>2, <2>3, WrittenAt
<1>10. Compiling'
  BY <1>1, <1>8, <1>9 DEF Compiling, Nested
<1>11. InVariables(kind2)' /\ Queue' /\ (RootCreated' \/ stack' = <<>>)
  BY <1>1, <1>2, <1>3 DEF Starting, InVariables, Queue, Allocating, RootCreated, collector
<1>12. Lands(kindOf, kind2)
  BY <1>1, <1>2, <1>5, <1>6, <1>9, <1>10, <1>11 DEF Lands, Starting
<1> QED
  BY <1>2, <1>12, Landed

\* A step that makes an object and keeps the reference in a C++ variable.
KeepsInVariable(kindOf, kind2) ==
  /\ Starting(kindOf) /\ Grows(kindOf, kind2)
  /\ UNCHANGED <<collector, messages, encoders, stack, bp, path, source>>
  /\ cstack' \in [Variables -> Good(kind2, heap)'] /\ InVariables(kind2)'
  /\ RootCreated => RootCreated'

LEMMA Keeps ==
  ASSUME NEW kindOf, NEW kind2, KeepsInVariable(kindOf, kind2), Compiling', Queue'
  PROVE  IInv'
<1>1. /\ Starting(kindOf) /\ Grows(kindOf, kind2)
      /\ UNCHANGED <<collector, messages, encoders, stack, bp, path, source>>
      /\ cstack' \in [Variables -> Good(kind2, heap)'] /\ InVariables(kind2)'
      /\ RootCreated => RootCreated'
  BY DEF KeepsInVariable
<1>2. /\ stack' \in Seq(Good(kind2, heap)') /\ Frames(kind2)' /\ bp' \in Nat /\ bp' <= Len(stack')
      /\ encoders \in Seq(Seq(Good(kind2, heap)'))
  BY <1>1, StackStays, EncodersStay
<1>3. RootCreated' \/ stack' = <<>>
  BY <1>1 DEF Starting
<1>4. Lands(kindOf, kind2)
  BY <1>1, <1>2, <1>3 DEF Lands, Starting
<1> QED
  BY <1>1, <1>4, Landed

LEMMA MakeCharArrayStep ==
  ASSUME IInv, MakeCharArray
  PROVE  IInv'
<1> DEFINE made == Made("CharArray", Number(3), <<>>)
<1>1. /\ pc = "compile" /\ pc' = "envMap" /\ UNCHANGED <<collector, messages>> /\ Free # {}
      /\ \E kindOf \in [Nat -> Kinds] : Starting(kindOf)
  BY StepFacts DEF MakeCharArray
<1>2. PICK kindOf \in [Nat -> Kinds] : Starting(kindOf)
  BY <1>1
<1>3. /\ Head(source).k = "exit" /\ Alloc(made) /\ cstack' = [cstack EXCEPT !.bytecode = made.w]
      /\ UNCHANGED <<encoders, stack, bp, source, path>>
  BY DEF MakeCharArray
<1>4. Making(kindOf, "CharArray", Number(3), <<>>)
  <2>1. Number(3) \in Good(kindOf, heap) /\ <<>> \in Seq(Good(kindOf, heap))
    BY <1>2, GoodNumbers DEF Starting, Resting
  <2>2. made.o = [id |-> nextId, kind |-> "CharArray", word |-> Number(3), rest |-> <<>>]
    BY MadeIs
  <2> HIDE DEF made
  <2>3. made.o.kind = "CharArray" /\ made.o.word.id = 0 /\ made.o.rest = <<>>
    BY <2>2 DEF Number
  <2>4. Shape(kindOf, made.o)
    BY <2>3 DEF Shape
  <2>5. "CharArray" \in Kinds \ (Forwarders \union {"free"})
    BY DEF Kinds, Forwarders
  <2> QED
    BY <1>1, <1>2, <2>1, <2>4, <2>5 DEF Making, made
<1>5. PICK kind2, new : /\ new = made.w /\ Grows(kindOf, kind2)
                        /\ new \in Good(kind2, heap)' /\ IsRef(kind2, new, "CharArray")
  BY <1>1, <1>3, <1>4, Allocated
<1> HIDE DEF made
<1>6. cstack' \in [Variables -> Good(kind2, heap)']
  <2>1. cstack \in [Variables -> Good(kind2, heap)']
    BY <1>2, <1>5, VariablesStay
  <2> HIDE DEF Good
  <2> QED
    BY <1>3, <1>5, <2>1
<1>7. InVariables(kind2)'
  BY <1>1 DEF InVariables, RootCreated
<1>8. Compiling' /\ Queue'
  BY <1>1, <1>2, <1>3 DEF Starting, Compiling, Queue, Allocating, Nested, collector
<1>9. ~RootCreated
  BY <1>1 DEF RootCreated
<1>10. KeepsInVariable(kindOf, kind2)
  BY <1>1, <1>2, <1>3, <1>5, <1>6, <1>7, <1>9 DEF KeepsInVariable
<1> QED
  BY <1>8, <1>10, Keeps

LEMMA MakeEnvironmentMapStep ==
  ASSUME IInv, MakeEnvironmentMap
  PROVE  IInv'
<1> DEFINE n == Head(source).params
<1>1. /\ pc = "envMap" /\ pc' = "names" /\ UNCHANGED <<collector, messages>> /\ Free # {}
      /\ \E kindOf \in [Nat -> Kinds] : Starting(kindOf)
  BY StepFacts DEF MakeEnvironmentMap
<1>2. PICK kindOf \in [Nat -> Kinds] : Starting(kindOf)
  BY <1>1
<1>3. PICK rest \in Garbage(n + Head(source).locals) :
        LET made == Made("EnvironmentMap", Number(n), rest)
        IN  /\ Alloc(made) /\ cstack' = [cstack EXCEPT !.envMap = made.w]
            /\ UNCHANGED <<encoders, stack, bp, source, path>>
  BY DEF MakeEnvironmentMap
<1> DEFINE made == Made("EnvironmentMap", Number(n), rest)
<1>4. n \in Nat /\ Head(source).locals \in Nat
  <2>1. source # <<>> /\ source \in Seq(Items) /\ Head(source).k = "exit"
    BY <1>1, <1>2 DEF Starting, Compiling, Nested
  <2>2. Head(source) \in Items
    BY <2>1
  <2> QED
    BY <2>1, <2>2 DEF Items
<1>5. Making(kindOf, "EnvironmentMap", Number(n), rest)
  <2>0. Resting(kindOf) /\ Typed /\ n \in Int /\ n + Head(source).locals \in Int
    BY <1>2, <1>4 DEF Starting, Resting
  <2>1. Number(n) \in Good(kindOf, heap) /\ rest \in Seq(Good(kindOf, heap))
    <3> HIDE DEF n
    <3> QED
      BY <1>1, <1>3, <2>0, GoodNumbers, GarbageIs
  <2>2. made.o = [id |-> nextId, kind |-> "EnvironmentMap", word |-> Number(n), rest |-> rest]
    BY MadeIs
  <2> HIDE DEF made
  <2>3. Shape(kindOf, made.o)
    BY <1>4, <2>2 DEF Shape, Prims
  <2>4. "EnvironmentMap" \in Kinds \ (Forwarders \union {"free"})
    BY DEF Kinds, Forwarders
  <2> QED
    BY <1>1, <1>2, <2>1, <2>3, <2>4 DEF Making, made
<1>6. PICK kind2, new : /\ new = made.w /\ Grows(kindOf, kind2)
                        /\ new \in Good(kind2, heap)' /\ IsRef(kind2, new, "EnvironmentMap")
  BY <1>1, <1>3, <1>5, Allocated
<1> HIDE DEF made
<1>7. cstack' = [cstack EXCEPT !.envMap = new] /\ UNCHANGED <<encoders, stack, bp, source, path>>
  BY <1>3, <1>6 DEF made
<1>8. cstack' \in [Variables -> Good(kind2, heap)'] /\ cstack'["envMap"] = new
  <2>1. cstack \in [Variables -> Good(kind2, heap)'] /\ "envMap" \in Variables
    BY <1>2, <1>6, VariablesStay DEF Variables
  <2> HIDE DEF Good
  <2> QED
    BY <1>6, <1>7, <2>1
<1>9. InVariables(kind2)'
  BY <1>1, <1>6, <1>8 DEF InVariables, RootCreated
<1>10. Compiling' /\ Queue'
  BY <1>1, <1>2, <1>7 DEF Starting, Compiling, Queue, Allocating, Nested, collector
<1>11. ~RootCreated
  BY <1>1 DEF RootCreated
<1>12. KeepsInVariable(kindOf, kind2)
  BY <1>1, <1>2, <1>6, <1>7, <1>8, <1>9, <1>11 DEF KeepsInVariable
<1> QED
  BY <1>10, <1>12, Keeps

\* The map and one of its names.
LEMMA MakeNameStep ==
  ASSUME IInv, MakeName
  PROVE  IInv'
<1> DEFINE made == Made("String", Nil, <<>>)
           at   == cstack["envMap"].a
           n    == Cardinality(NamesMade) + 1
<1>1. /\ pc = "names" /\ pc' = "names" /\ UNCHANGED <<collector, messages>> /\ Free # {}
      /\ \E kindOf \in [Nat -> Kinds] : Starting(kindOf)
  BY StepFacts DEF MakeName
<1>2. PICK kindOf \in [Nat -> Kinds] : Starting(kindOf)
  BY <1>1
<1>3. /\ heap' = [heap EXCEPT ![NewAt] = made.o, ![at].rest[n] = made.w]
      /\ nextId' = nextId + 1 /\ UNCHANGED <<encoders, cstack, stack, bp, source, path>>
  BY DEF MakeName
<1>4. /\ Resting(kindOf) /\ heap \in [Addresses -> Objs]
      /\ at \in Addresses /\ Live(heap, at) /\ heap[at].kind = "EnvironmentMap" /\ Shape(kindOf, heap[at])
      /\ heap[at].word \in Good(kindOf, heap) /\ heap[at].rest \in Seq(Good(kindOf, heap)) /\ heap[at].id # 0
  <2>1. /\ IsRef(kindOf, cstack["envMap"], "EnvironmentMap") /\ cstack["envMap"] \in Good(kindOf, heap)
    BY <1>1, <1>2 DEF Starting, InVariables, Variables
  <2>2. Resting(kindOf)
    BY <1>2 DEF Starting
  <2>3. heap[at].id = cstack["envMap"].id
    BY <2>1, <2>2, Followed DEF IsRef, At
  <2> QED
    BY <2>1, <2>2, <2>3, Followed, RestingFacts DEF IsRef, At
<1>5. NewAt \in Addresses /\ NewAt # at
  <2>1. NewAt \in Free
    BY <1>1, MinIs DEF NewAt, Free
  <2> QED
    BY <1>4, <2>1 DEF Free, Live
<1>6. PICK o, new, kind2 : o = made.o /\ new = made.w /\ kind2 = Known(kindOf, "String")
  OBVIOUS
<1>7. /\ new = NewWord("String")
      /\ o = [id |-> nextId, kind |-> "String", word |-> Nil, rest |-> <<>>]
  BY <1>6, MadeIs
<1> HIDE DEF made, n, at
<1> DEFINE q == [heap[at] EXCEPT !.rest = [heap[at].rest EXCEPT ![n] = new]]
<1>8. /\ heap'[NewAt] = o /\ heap'[at] = q
      /\ \A a \in Addresses \ {NewAt, at} : heap'[a] = heap[a]
      /\ heap' = [a \in Addresses |-> heap'[a]]
  <2>1. heap' = [heap EXCEPT ![NewAt] = o, ![at].rest[n] = new]
    BY <1>3, <1>6
  <2>2. \A h \in [Addresses -> Objs] : \A x, y : [h EXCEPT ![NewAt] = x, ![at].rest[n] = y]
                  = [[h EXCEPT ![NewAt] = x] EXCEPT ![at] = [[h EXCEPT ![NewAt] = x][at] EXCEPT !.rest = [[h EXCEPT ![NewAt] = x][at].rest EXCEPT ![n] = y]]]
    OBVIOUS
  <2>3. [heap EXCEPT ![NewAt] = o][at] = heap[at]
    BY <1>4, <1>5
  <2>4. heap' = [[heap EXCEPT ![NewAt] = o] EXCEPT ![at] = q]
    BY <1>4, <2>1, <2>2, <2>3
  <2> HIDE DEF q
  <2> QED
    BY <1>4, <1>5, <2>4
<1>9. /\ q.id = heap[at].id /\ q.kind = heap[at].kind /\ q.word = heap[at].word
      /\ q = [id |-> q.id, kind |-> q.kind, word |-> q.word, rest |-> q.rest]
      /\ q.rest \in Seq(Good(kindOf, heap) \union {new})
  <2>1. heap[at] \in Objs
    BY <1>4
  <2>2. heap[at].rest \in Seq(Good(kindOf, heap) \union {new}) /\ new \in Good(kindOf, heap) \union {new}
    BY <1>4, SeqOfMore
  <2> DEFINE rest == [heap[at].rest EXCEPT ![n] = new]
  <2>3. rest \in Seq(Good(kindOf, heap) \union {new})
    BY <2>2, WrittenAt
  <2> HIDE DEF rest
  <2>4. q = [heap[at] EXCEPT !.rest = rest]
    BY DEF rest
  <2> HIDE DEF q
  <2> QED
    BY <2>1, <2>3, <2>4 DEF Objs
<1> HIDE DEF q
<1>10. Shape(kind2, q)
  BY <1>4, <1>9 DEF Shape, Prims
<1>11. Makes(kindOf, "String", o)
  <2>1. Nil \in Good(kindOf, heap) /\ <<>> \in Seq(Good(kindOf, heap))
    BY <1>4, GoodNumbers DEF Resting
  <2>2. Shape(kindOf, o)
    <3>1. o.kind = "String" /\ o.word.id = 0 /\ o.rest = <<>>
      BY <1>7 DEF Nil
    <3> QED
      BY <3>1 DEF Shape
  <2>3. "String" \in Kinds \ (Forwarders \union {"free"})
    BY DEF Kinds, Prims, Forwarders
  <2> QED
    BY <1>1, <1>4, <1>7, <2>1, <2>2, <2>3 DEF Makes
<1>12. Allocates(kindOf, "String", o, kind2, new)
  <2>1. Replaces(kindOf, "String", heap[at], q)
    BY <1>4, <1>6, <1>7, <1>9, <1>10 DEF Replaces
  <2> QED
    BY <1>1, <1>3, <1>6, <1>7, <1>8, <1>11, <2>1 DEF Allocates, Replaces, collector
<1>13. Grows(kindOf, kind2)
  BY <1>12, AllocSound
<1>14. cstack' \in [Variables -> Good(kind2, heap)'] /\ IsRef(kind2, cstack["envMap"], "EnvironmentMap")
  <2>1. "envMap" \in Variables /\ "EnvironmentMap" \in Kinds
    BY DEF Variables, Kinds
  <2>2. IsRef(kindOf, cstack["envMap"], "EnvironmentMap")
    BY <1>1, <1>2 DEF Starting, InVariables
  <2> QED
    BY <1>2, <1>3, <1>13, <2>1, <2>2, VariablesStay
<1>15. InVariables(kind2)'
  BY <1>1, <1>3, <1>14 DEF InVariables, RootCreated
<1>16. Compiling' /\ Queue'
  BY <1>1, <1>2, <1>3 DEF Starting, Compiling, Queue, Allocating, Nested, collector
<1>17. ~RootCreated
  BY <1>1 DEF RootCreated
<1>18. KeepsInVariable(kindOf, kind2)
  BY <1>1, <1>2, <1>3, <1>13, <1>14, <1>15, <1>17 DEF KeepsInVariable
<1> QED
  BY <1>16, <1>18, Keeps

LEMMA MakeLiteralsStep ==
  ASSUME IInv, MakeLiterals
  PROVE  IInv'
<1> DEFINE literals == Last(encoders)
           made == Made("PlainArray", Number(Len(literals)), literals)
<1>1. /\ pc = "names" /\ pc' = "fun" /\ UNCHANGED <<collector, messages>> /\ Free # {}
      /\ \E kindOf \in [Nat -> Kinds] : Starting(kindOf)
  BY StepFacts DEF MakeLiterals
<1>2. PICK kindOf \in [Nat -> Kinds] : Starting(kindOf)
  BY <1>1
<1>3. /\ Alloc(made) /\ cstack' = [cstack EXCEPT !.literals = made.w]
      /\ UNCHANGED <<encoders, stack, bp, source, path>>
  BY DEF MakeLiterals
<1>4. literals \in Seq(Good(kindOf, heap)) /\ Len(literals) \in Int
  <2>1. encoders \in Seq(Seq(Good(kindOf, heap))) /\ Len(encoders) \in Nat
    BY <1>2 DEF Starting
  <2>2. Len(encoders) > 0
    <3>1. source # <<>> /\ Nested(source, Len(encoders)) /\ Head(source).k = "exit"
      BY <1>1, <1>2 DEF Starting, Compiling
    <3> QED
      BY <2>1, <3>1, NestedTail
  <2> HIDE DEF Good
  <2>3. literals \in Seq(Good(kindOf, heap))
    BY <2>1, <2>2, PopIs
  <2> QED
    BY <2>3
<1>5. Making(kindOf, "PlainArray", Number(Len(literals)), literals)
  <2>1. Number(Len(literals)) \in Good(kindOf, heap)
    BY <1>2, <1>4, GoodNumbers DEF Starting, Resting
  <2>2. made.o = [id |-> nextId, kind |-> "PlainArray", word |-> Number(Len(literals)), rest |-> literals]
    BY MadeIs
  <2> HIDE DEF made, literals
  <2>3. made.o.kind = "PlainArray" /\ made.o.word.id = 0
    BY <2>2 DEF Number
  <2>4. Shape(kindOf, made.o)
    BY <2>3 DEF Shape, Prims
  <2>5. "PlainArray" \in Kinds \ (Forwarders \union {"free"})
    BY DEF Kinds, Forwarders
  <2> QED
    BY <1>1, <1>2, <1>4, <2>1, <2>4, <2>5 DEF Making, made
<1> HIDE DEF literals
<1>6. PICK kind2, new : /\ new = made.w /\ Grows(kindOf, kind2)
                        /\ new \in Good(kind2, heap)' /\ IsRef(kind2, new, "PlainArray")
  BY <1>1, <1>3, <1>5, Allocated
<1> HIDE DEF made
<1>7. /\ cstack' \in [Variables -> Good(kind2, heap)'] /\ cstack'["literals"] = new
      /\ IsRef(kind2, cstack'["envMap"], "EnvironmentMap")
  <2>1. cstack \in [Variables -> Good(kind2, heap)'] /\ "literals" \in Variables /\ "envMap" \in Variables
        /\ "EnvironmentMap" \in Kinds
    BY <1>2, <1>6, VariablesStay DEF Variables, Kinds
  <2>2. IsRef(kindOf, cstack["envMap"], "EnvironmentMap")
    BY <1>1, <1>2 DEF Starting, InVariables
  <2>3. IsRef(kind2, cstack["envMap"], "EnvironmentMap")
    BY <1>2, <1>6, <2>1, <2>2, VariablesStay
  <2> HIDE DEF Good
  <2> QED
    BY <1>3, <1>6, <2>1, <2>3
<1>8. InVariables(kind2)'
  BY <1>1, <1>6, <1>7 DEF InVariables, RootCreated
<1>9. Compiling' /\ Queue'
  BY <1>1, <1>2, <1>3 DEF Starting, Compiling, Queue, Allocating, Nested, collector
<1>10. ~RootCreated
  BY <1>1 DEF RootCreated
<1>11. KeepsInVariable(kindOf, kind2)
  BY <1>1, <1>2, <1>3, <1>6, <1>7, <1>8, <1>10 DEF KeepsInVariable
<1> QED
  BY <1>9, <1>11, Keeps

LEMMA MakeFunctionStep ==
  ASSUME IInv, MakeFunction
  PROVE  IInv'
<1> DEFINE word  == cstack["envMap"]
           rest  == <<cstack["bytecode"], cstack["literals"]>>
           made  == Made("Function", word, rest)
           outer == Front(encoders)
           n     == Len(encoders)
<1>1. /\ pc = "fun" /\ pc' = (IF n = 1 THEN "main" ELSE "compile") /\ UNCHANGED <<collector, messages>> /\ Free # {}
      /\ \E kindOf \in [Nat -> Kinds] : Starting(kindOf)
  BY StepFacts DEF MakeFunction
<1>2. PICK kindOf \in [Nat -> Kinds] : Starting(kindOf)
  BY <1>1
<1>3. /\ Alloc(made) /\ source' = Tail(source) /\ UNCHANGED <<stack, bp, path>>
      /\ encoders' = IF outer = <<>> THEN <<>> ELSE Append(Front(outer), Append(Last(outer), made.w))
      /\ cstack' = IF outer = <<>> THEN [NoVariables EXCEPT !.fun = made.w] ELSE NoVariables
  BY DEF MakeFunction
<1>4. Making(kindOf, "Function", word, rest)
  <2>1. word \in Good(kindOf, heap) /\ cstack["bytecode"] \in Good(kindOf, heap) /\ cstack["literals"] \in Good(kindOf, heap)
    BY <1>2 DEF Starting, Variables
  <2>2. IsRef(kindOf, word, "EnvironmentMap") /\ IsRef(kindOf, cstack["literals"], "PlainArray")
    BY <1>1, <1>2 DEF Starting, InVariables
  <2>3. made.o = [id |-> nextId, kind |-> "Function", word |-> word, rest |-> rest]
    BY MadeIs
  <2>4. rest \in Seq(Good(kindOf, heap)) /\ Len(rest) = 2 /\ rest[2] = cstack["literals"]
    <3> HIDE DEF Good
    <3> QED
      BY <2>1
  <2> HIDE DEF made, rest, word
  <2>5. Shape(kindOf, made.o)
    BY <2>2, <2>3, <2>4 DEF Shape, Prims
  <2>6. "Function" \in Kinds \ (Forwarders \union {"free"})
    BY DEF Kinds, Forwarders
  <2> QED
    BY <1>1, <1>2, <2>1, <2>4, <2>5, <2>6 DEF Making, made
<1> HIDE DEF word, rest
<1>5. PICK kind2, new : /\ new = made.w /\ Grows(kindOf, kind2)
                        /\ new \in Good(kind2, heap)' /\ IsRef(kind2, new, "Function")
  BY <1>1, <1>3, <1>4, Allocated
<1> HIDE DEF made
<1>6. /\ stack' \in Seq(Good(kind2, heap)') /\ Frames(kind2)' /\ bp' \in Nat /\ bp' <= Len(stack')
      /\ NoVariables \in [Variables -> Good(kind2, heap)'] /\ encoders \in Seq(Seq(Good(kind2, heap)'))
  BY <1>2, <1>3, <1>5, StackStays, EncodersStay, VariablesStay
<1> DEFINE G == Good(kind2, heap)'
<1> HIDE DEF G
<1>7. source # <<>> /\ Nested(source, n) /\ Head(source).k = "exit" /\ n \in Nat
  BY <1>1, <1>2 DEF Starting, Compiling
<1>8. /\ n > 0 /\ n - 1 \in Nat /\ Nested(source', n - 1) /\ (n - 1 > 0 => source' # <<>>)
  <2>1. DepthAfter(Head(source), n) = n - 1 /\ Head(source).k # "enter"
    BY <1>7 DEF DepthAfter
  <2> HIDE DEF n
  <2> QED
    BY <1>3, <1>7, <2>1, NestedTail
<1>9. outer \in Seq(Seq(G)) /\ Len(outer) = n - 1
  <2>1. encoders \in Seq(Seq(G)) /\ n > 0
    BY <1>6, <1>8 DEF G
  <2> QED
    BY <2>1, PopIs
<1>10. outer = <<>> <=> n = 1
  <2> HIDE DEF outer
  <2>1. outer = <<>> <=> Len(outer) = 0
    BY <1>9
  <2> QED
    BY <1>7, <1>9, <2>1
<1> HIDE DEF outer, n
<1>11. encoders' \in Seq(Seq(G)) /\ (n # 1 => Len(encoders') = n - 1)
  <2>1. CASE outer = <<>>
    BY <1>3, <1>10, <2>1
  <2>2. CASE outer # <<>>
    <3>1. Len(outer) > 0
      BY <1>9, <2>2
    <3>2. /\ Front(outer) \in Seq(Seq(G)) /\ Len(Front(outer)) = Len(outer) - 1 /\ Last(outer) \in Seq(G)
      BY <1>9, <3>1, PopIs
    <3>3. Append(Last(outer), new) \in Seq(G)
      BY <1>5, <3>2, Appended DEF G
    <3>4. encoders' = Append(Front(outer), Append(Last(outer), new))
      BY <1>3, <1>5, <2>2
    <3>5. encoders' \in Seq(Seq(G)) /\ Len(encoders') = Len(Front(outer)) + 1
      BY <3>2, <3>3, <3>4, Appended
    <3> QED
      BY <1>7, <1>9, <3>2, <3>5
  <2> QED
    BY <2>1, <2>2
<1>12. Compiling'
  BY <1>1, <1>7, <1>8, <1>11 DEF Compiling
<1>13. cstack' \in [Variables -> G] /\ (n = 1 => cstack'["fun"] = new)
  <2>1. "fun" \in Variables /\ new \in G /\ NoVariables \in [Variables -> G]
    BY <1>5, <1>6 DEF Variables, G
  <2> QED
    BY <1>3, <1>5, <1>10, <2>1
<1>14. InVariables(kind2)' /\ Queue' /\ (RootCreated' \/ stack' = <<>>)
  BY <1>1, <1>2, <1>3, <1>5, <1>13 DEF Starting, InVariables, Queue, Allocating, RootCreated, collector
<1>15. Lands(kindOf, kind2)
  BY <1>1, <1>2, <1>5, <1>6, <1>11, <1>12, <1>13, <1>14 DEF Lands, Starting, G
<1> QED
  BY <1>2, <1>15, Landed

LEMMA MakeMainClosureStep ==
  ASSUME IInv, MakeMainClosure
  PROVE  IInv'
<1> DEFINE word == cstack["fun"]
           made == Made("Closure", word, <<Undefined>>)
<1>1. /\ pc = "main" /\ pc' = "args0" /\ UNCHANGED <<collector, messages>> /\ Free # {}
      /\ \E kindOf \in [Nat -> Kinds] : Starting(kindOf)
  BY StepFacts DEF MakeMainClosure
<1>2. PICK kindOf \in [Nat -> Kinds] : Starting(kindOf)
  BY <1>1
<1>3. /\ Alloc(made) /\ cstack' = [cstack EXCEPT !.closure = made.w, !.m_closure = made.w]
      /\ UNCHANGED <<encoders, stack, bp, source, path>>
  BY DEF MakeMainClosure
<1>4. Making(kindOf, "Closure", word, <<Undefined>>)
  <2>1. word \in Good(kindOf, heap) /\ Undefined \in Good(kindOf, heap)
    BY <1>2, GoodNumbers DEF Starting, Resting, Variables
  <2>2. <<Undefined>> \in Seq(Good(kindOf, heap))
    <3> HIDE DEF Good, Undefined
    <3> QED
      BY <2>1
  <2>3. IsRef(kindOf, word, "Function")
    BY <1>1, <1>2 DEF Starting, InVariables
  <2>4. made.o = [id |-> nextId, kind |-> "Closure", word |-> word, rest |-> <<Undefined>>]
    BY MadeIs
  <2> HIDE DEF made, word
  <2>5. made.o.kind = "Closure" /\ made.o.word = word
    BY <2>4
  <2>6. Shape(kindOf, made.o)
    BY <2>3, <2>5 DEF Shape, Prims
  <2>7. "Closure" \in Kinds \ (Forwarders \union {"free"})
    BY DEF Kinds, Forwarders
  <2> QED
    BY <1>1, <1>2, <2>1, <2>2, <2>6, <2>7 DEF Making, made
<1> HIDE DEF word
<1>5. PICK kind2, new : /\ new = made.w /\ Grows(kindOf, kind2)
                        /\ new \in Good(kind2, heap)' /\ IsRef(kind2, new, "Closure")
  BY <1>1, <1>3, <1>4, Allocated
<1> HIDE DEF made
<1>6. /\ cstack' \in [Variables -> Good(kind2, heap)'] /\ cstack'["closure"] = new /\ cstack'["m_closure"] = new
  <2>1. cstack \in [Variables -> Good(kind2, heap)'] /\ "closure" \in Variables /\ "m_closure" \in Variables
    BY <1>2, <1>5, VariablesStay DEF Variables
  <2> HIDE DEF Good
  <2> QED
    BY <1>3, <1>5, <2>1
<1>7. InVariables(kind2)'
  BY <1>1, <1>5, <1>6 DEF InVariables, RootCreated
<1>8. Compiling' /\ Queue'
  BY <1>1, <1>2, <1>3 DEF Starting, Compiling, Queue, Allocating, collector
<1>9. ~RootCreated
  BY <1>1 DEF RootCreated
<1>10. KeepsInVariable(kindOf, kind2)
  BY <1>1, <1>2, <1>3, <1>5, <1>6, <1>7, <1>9 DEF KeepsInVariable
<1> QED
  BY <1>8, <1>10, Keeps

-----------------------------------------------------------------------------
(***************************************************************************)
(* Environments.                                                           *)
(***************************************************************************)
LEMMA MapOfIs ==
  ASSUME NEW kindOf, Resting(kindOf), NEW w \in Good(kindOf, heap), IsRef(kindOf, w, "Closure")
  PROVE  /\ MapOf(w) \in Good(kindOf, heap) /\ IsRef(kindOf, MapOf(w), "EnvironmentMap")
         /\ At(MapOf(w)).rest \in Seq(Good(kindOf, heap))
         /\ -At(MapOf(w)).word.a \in Nat
<1> DEFINE f == At(w).word
           m == At(f).word
<1>1. f \in Good(kindOf, heap) /\ IsRef(kindOf, f, "Function")
  BY Followed DEF IsRef, Shape
<1>2. m \in Good(kindOf, heap) /\ IsRef(kindOf, m, "EnvironmentMap")
  <2> HIDE DEF f
  <2> QED
    BY <1>1, Followed DEF IsRef, Shape
<1>3. MapOf(w) = m
  BY DEF MapOf
<1> HIDE DEF m
<1>4. At(m).kind = "EnvironmentMap" /\ Shape(kindOf, At(m)) /\ At(m).rest \in Seq(Good(kindOf, heap))
  BY <1>2, Followed DEF IsRef
<1>5. PICK n \in Nat : At(m).word = Number(n)
  BY <1>4 DEF Shape
<1>6. -At(m).word.a = n
  BY <1>5 DEF Number
<1> QED
  BY <1>2, <1>3, <1>4, <1>6

\* Of both makeArray calls: garbage of a number of words.
LEMMA MakingArray ==
  ASSUME NEW kindOf, Starting(kindOf), Free # {}, NEW n \in Int, NEW rest \in Garbage(n)
  PROVE  Making(kindOf, "PlainArray", Number(Len(rest)), rest)
<1> DEFINE made == Made("PlainArray", Number(Len(rest)), rest)
<1>1. rest \in Seq(Good(kindOf, heap))
  BY GarbageIs DEF Starting
<1>2. Number(Len(rest)) \in Good(kindOf, heap)
  <2>1. Len(rest) \in Int
    <3> HIDE DEF Good
    <3> QED
      BY <1>1
  <2> QED
    BY <2>1, GoodNumbers DEF Starting, Resting
<1>3. made.o = [id |-> nextId, kind |-> "PlainArray", word |-> Number(Len(rest)), rest |-> rest]
  BY MadeIs
<1> HIDE DEF made
<1>4. made.o.kind = "PlainArray" /\ made.o.word.id = 0
  BY <1>3 DEF Number
<1>5. Shape(kindOf, made.o)
  BY <1>4 DEF Shape, Prims
<1>6. "PlainArray" \in Kinds \ (Forwarders \union {"free"})
  BY DEF Kinds, Forwarders
<1> QED
  BY <1>1, <1>2, <1>5, <1>6 DEF Making, made

LEMMA MakeArgsStep ==
  ASSUME IInv, MakeArgs("args0", "locals0") \/ MakeArgs("args", "locals")
  PROVE  IInv'
<1>1. PICK at, to : MakeArgs(at, to) /\ <<at, to>> \in {<<"args0", "locals0">>, <<"args", "locals">>}
  OBVIOUS
<1> DEFINE n == Max({-At(MapOf(cstack["closure"])).word.a, -cstack["nArgs"].a})
<1>2. /\ pc = at /\ pc' = to /\ UNCHANGED <<collector, messages>> /\ Free # {}
      /\ \E kindOf \in [Nat -> Kinds] : Starting(kindOf)
  BY <1>1, StepFacts DEF MakeArgs
<1>3. PICK kindOf \in [Nat -> Kinds] : Starting(kindOf)
  BY <1>2
<1>4. PICK rest \in Garbage(n) :
        LET made == Made("PlainArray", Number(Len(rest)), rest)
        IN  /\ Alloc(made) /\ cstack' = [cstack EXCEPT !.args = made.w]
            /\ UNCHANGED <<encoders, stack, bp, source, path>>
  BY <1>1 DEF MakeArgs
<1> DEFINE made == Made("PlainArray", Number(Len(rest)), rest)
<1>5. n \in Int
  <2>1. IsRef(kindOf, cstack["closure"], "Closure")
    BY <1>1, <1>2, <1>3 DEF Starting, InVariables
  <2>2. cstack["closure"] \in Good(kindOf, heap) /\ cstack["nArgs"] \in Good(kindOf, heap)
    BY <1>3 DEF Starting, Variables
  <2>3. -At(MapOf(cstack["closure"])).word.a \in Int
    BY <1>3, <2>1, <2>2, MapOfIs DEF Starting
  <2>4. -cstack["nArgs"].a \in Int
    BY <2>2 DEF Good, Words
  <2>5. \A a, b \in Int : Max({a, b}) \in Int
    BY MaxOfTwo
  <2> QED
    BY <2>3, <2>4, <2>5
<1> HIDE DEF n
<1>6. Making(kindOf, "PlainArray", Number(Len(rest)), rest)
  BY <1>2, <1>3, <1>5, MakingArray
<1>7. PICK kind2, new : /\ new = made.w /\ Grows(kindOf, kind2)
                        /\ new \in Good(kind2, heap)' /\ IsRef(kind2, new, "PlainArray")
  BY <1>2, <1>4, <1>6, Allocated
<1> HIDE DEF made
<1>8. cstack' = [cstack EXCEPT !.args = new] /\ UNCHANGED <<encoders, stack, bp, source, path>>
  BY <1>4, <1>7 DEF made
<1>9. /\ cstack' \in [Variables -> Good(kind2, heap)'] /\ cstack'["args"] = new
      /\ \A v \in Variables \ {"args"} : cstack'[v] = cstack[v]
  <2>1. cstack \in [Variables -> Good(kind2, heap)'] /\ "args" \in Variables
    BY <1>3, <1>7, VariablesStay DEF Variables
  <2> HIDE DEF Good
  <2> QED
    BY <1>7, <1>8, <2>1
<1>10. \A v \in Variables \ {"args"}, kind \in Kinds : IsRef(kindOf, cstack[v], kind) => IsRef(kind2, cstack'[v], kind)
  BY <1>3, <1>7, <1>9, VariablesStay
<1>11. InVariables(kind2)'
  <2>1. InVariables(kindOf)
    BY <1>3 DEF Starting
  <2>2. {"m_closure", "m_env", "closure", "nArgs"} \subseteq Variables \ {"args"} /\ {"Closure", "Environment"} \subseteq Kinds
    BY DEF Variables, Kinds
  <2> QED
    BY <1>1, <1>2, <1>7, <1>8, <1>9, <1>10, <2>1, <2>2 DEF InVariables, RootCreated, Operands
<1>12. Compiling' /\ Queue'
  BY <1>1, <1>2, <1>3, <1>8 DEF Starting, Compiling, Queue, Allocating, collector
<1>13. RootCreated => RootCreated'
  BY <1>1, <1>2 DEF RootCreated
<1>14. KeepsInVariable(kindOf, kind2)
  BY <1>2, <1>3, <1>7, <1>8, <1>9, <1>11, <1>13 DEF KeepsInVariable
<1> QED
  BY <1>12, <1>14, Keeps

LEMMA MakeLocalsStep ==
  ASSUME IInv, MakeLocals("locals0", "env0") \/ MakeLocals("locals", "env")
  PROVE  IInv'
<1>1. PICK at, to : MakeLocals(at, to) /\ <<at, to>> \in {<<"locals0", "env0">>, <<"locals", "env">>}
  OBVIOUS
<1> DEFINE map == At(MapOf(cstack["closure"]))
           n   == Len(map.rest) + map.word.a
<1>2. /\ pc = at /\ pc' = to /\ UNCHANGED <<collector, messages>> /\ Free # {}
      /\ \E kindOf \in [Nat -> Kinds] : Starting(kindOf)
  BY <1>1, StepFacts DEF MakeLocals
<1>3. PICK kindOf \in [Nat -> Kinds] : Starting(kindOf)
  BY <1>2
<1>4. PICK rest \in Garbage(n) :
        LET made == Made("PlainArray", Number(Len(rest)), rest)
        IN  /\ Alloc(made) /\ cstack' = [cstack EXCEPT !.locals = made.w]
            /\ UNCHANGED <<encoders, stack, bp, source, path>>
  BY <1>1 DEF MakeLocals
<1> DEFINE made == Made("PlainArray", Number(Len(rest)), rest)
<1>5. n \in Int
  <2>1. IsRef(kindOf, cstack["closure"], "Closure")
    BY <1>1, <1>2, <1>3 DEF Starting, InVariables
  <2>2. cstack["closure"] \in Good(kindOf, heap)
    BY <1>3 DEF Starting, Variables
  <2>3. /\ MapOf(cstack["closure"]) \in Good(kindOf, heap) /\ MapOf(cstack["closure"]).id # 0
        /\ map.rest \in Seq(Good(kindOf, heap))
    BY <1>3, <2>1, <2>2, MapOfIs DEF Starting, IsRef
  <2>4. map.word \in Good(kindOf, heap)
    BY <1>3, <2>3, Followed DEF Starting
  <2>5. map.word.a \in Int
    BY <2>4 DEF Good, Words
  <2>6. Len(map.rest) \in Int
    <3> HIDE DEF map, Good
    <3> QED
      BY <2>3
  <2> HIDE DEF map
  <2> QED
    BY <2>5, <2>6
<1> HIDE DEF n
<1>6. Making(kindOf, "PlainArray", Number(Len(rest)), rest)
  BY <1>2, <1>3, <1>5, MakingArray
<1>7. PICK kind2, new : /\ new = made.w /\ Grows(kindOf, kind2)
                        /\ new \in Good(kind2, heap)' /\ IsRef(kind2, new, "PlainArray")
  BY <1>2, <1>4, <1>6, Allocated
<1> HIDE DEF made
<1>8. cstack' = [cstack EXCEPT !.locals = new] /\ UNCHANGED <<encoders, stack, bp, source, path>>
  BY <1>4, <1>7 DEF made
<1>9. /\ cstack' \in [Variables -> Good(kind2, heap)'] /\ cstack'["locals"] = new
      /\ \A v \in Variables \ {"locals"} : cstack'[v] = cstack[v]
  <2>1. cstack \in [Variables -> Good(kind2, heap)'] /\ "locals" \in Variables
    BY <1>3, <1>7, VariablesStay DEF Variables
  <2> HIDE DEF Good
  <2> QED
    BY <1>7, <1>8, <2>1
<1>10. \A v \in Variables \ {"locals"}, kind \in Kinds : IsRef(kindOf, cstack[v], kind) => IsRef(kind2, cstack'[v], kind)
  BY <1>3, <1>7, <1>9, VariablesStay
<1>11. InVariables(kind2)'
  <2>1. InVariables(kindOf)
    BY <1>3 DEF Starting
  <2>2. /\ {"m_closure", "m_env", "closure", "nArgs", "args"} \subseteq Variables \ {"locals"}
        /\ {"Closure", "Environment", "PlainArray"} \subseteq Kinds
    BY DEF Variables, Kinds
  <2> QED
    BY <1>1, <1>2, <1>7, <1>8, <1>9, <1>10, <2>1, <2>2 DEF InVariables, RootCreated, Operands
<1>12. Compiling' /\ Queue'
  BY <1>1, <1>2, <1>3, <1>8 DEF Starting, Compiling, Queue, Allocating, collector
<1>13. RootCreated => RootCreated'
  BY <1>1, <1>2 DEF RootCreated
<1>14. KeepsInVariable(kindOf, kind2)
  BY <1>2, <1>3, <1>7, <1>8, <1>9, <1>11, <1>13 DEF KeepsInVariable
<1> QED
  BY <1>12, <1>14, Keeps

\* The environment of a closure's call, with its arguments and locals made.
LEMMA EnvironmentIs ==
  ASSUME NEW kindOf, Starting(kindOf), pc \in {"env0", "env"}, NEW prev \in Good(kindOf, heap)
  PROVE  LET rest == <<prev, cstack["args"], cstack["locals"]>>
             word == MapOf(cstack["closure"])
         IN  /\ MadeEnvironment(prev) = Made("Environment", word, rest)
             /\ word \in Good(kindOf, heap) /\ rest \in Seq(Good(kindOf, heap))
             /\ Shape(kindOf, Made("Environment", word, rest).o)
<1> DEFINE rest == <<prev, cstack["args"], cstack["locals"]>>
           word == MapOf(cstack["closure"])
           made == Made("Environment", word, rest)
<1>1. MadeEnvironment(prev) = made
  BY DEF MadeEnvironment
<1>2. /\ IsRef(kindOf, cstack["closure"], "Closure") /\ IsRef(kindOf, cstack["args"], "PlainArray")
      /\ IsRef(kindOf, cstack["locals"], "PlainArray")
  BY DEF Starting, InVariables
<1>3. /\ cstack["closure"] \in Good(kindOf, heap) /\ cstack["args"] \in Good(kindOf, heap)
      /\ cstack["locals"] \in Good(kindOf, heap)
  BY DEF Starting, Variables
<1>4. word \in Good(kindOf, heap) /\ IsRef(kindOf, word, "EnvironmentMap")
  BY <1>2, <1>3, MapOfIs DEF Starting
<1>5. /\ rest \in Seq(Good(kindOf, heap)) /\ Len(rest) = 3
      /\ rest[2] = cstack["args"] /\ rest[3] = cstack["locals"]
  <2> HIDE DEF Good
  <2> QED
    BY <1>3
<1>6. made.o = [id |-> nextId, kind |-> "Environment", word |-> word, rest |-> rest]
  BY MadeIs
<1> HIDE DEF word, rest, made
<1>7. Shape(kindOf, made.o)
  <2>1. /\ made.o.kind = "Environment" /\ made.o.word = word /\ made.o.rest = rest
    BY <1>6
  <2>2. \A i \in {2, 3} : IsRef(kindOf, rest[i], "PlainArray")
    BY <1>2, <1>5
  <2> QED
    BY <1>4, <1>5, <2>1, <2>2 DEF Shape, Prims
<1> QED
  BY <1>1, <1>4, <1>5, <1>7 DEF word, rest, made

LEMMA StartInterpreterStep ==
  ASSUME IInv, StartInterpreter
  PROVE  IInv'
<1> DEFINE word == MapOf(cstack["closure"])
           rest == <<Undefined, cstack["args"], cstack["locals"]>>
           made == Made("Environment", word, rest)
<1>1. /\ pc = "env0" /\ pc' = "fetch" /\ UNCHANGED <<collector, messages>> /\ Free # {}
      /\ \E kindOf \in [Nat -> Kinds] : Starting(kindOf)
  BY StepFacts DEF StartInterpreter
<1>2. PICK kindOf \in [Nat -> Kinds] : Starting(kindOf)
  BY <1>1
<1>3. Making(kindOf, "Environment", word, rest) /\ MadeEnvironment(Undefined) = made
  <2>1. Undefined \in Good(kindOf, heap)
    BY <1>2, GoodNumbers DEF Starting, Resting
  <2>2. "Environment" \in Kinds \ (Forwarders \union {"free"})
    BY DEF Kinds, Forwarders
  <2>3. /\ MadeEnvironment(Undefined) = made /\ word \in Good(kindOf, heap) /\ rest \in Seq(Good(kindOf, heap))
        /\ Shape(kindOf, made.o)
    BY <1>1, <1>2, <2>1, EnvironmentIs
  <2> HIDE DEF word, rest
  <2> QED
    BY <1>1, <1>2, <2>2, <2>3 DEF Making
<1>4. /\ Alloc(made) /\ UNCHANGED <<encoders, stack, bp, source, path>>
      /\ cstack' = [NoVariables EXCEPT !.m_env = made.w, !.m_closure = cstack.m_closure]
  BY <1>3 DEF StartInterpreter
<1> HIDE DEF word, rest
<1>5. PICK kind2, new : /\ new = made.w /\ Grows(kindOf, kind2)
                        /\ new \in Good(kind2, heap)' /\ IsRef(kind2, new, "Environment")
  BY <1>1, <1>3, <1>4, Allocated
<1> HIDE DEF made
<1>6. /\ cstack' \in [Variables -> Good(kind2, heap)'] /\ cstack'["m_env"] = new
      /\ cstack'["m_closure"] = cstack["m_closure"] /\ IsRef(kind2, cstack["m_closure"], "Closure")
  <2>1. /\ cstack \in [Variables -> Good(kind2, heap)'] /\ NoVariables \in [Variables -> Good(kind2, heap)']
        /\ "m_env" \in Variables /\ "m_closure" \in Variables /\ "Closure" \in Kinds
    BY <1>2, <1>5, VariablesStay DEF Variables, Kinds
  <2>2. IsRef(kindOf, cstack["m_closure"], "Closure")
    BY <1>1, <1>2 DEF Starting, InVariables
  <2>3. IsRef(kind2, cstack["m_closure"], "Closure")
    BY <1>2, <1>5, <2>1, <2>2, VariablesStay
  <2>4. cstack' = [NoVariables EXCEPT !["m_env"] = new, !["m_closure"] = cstack["m_closure"]]
    BY <1>4, <1>5
  <2> HIDE DEF Good, NoVariables
  <2> QED
    BY <1>5, <2>1, <2>3, <2>4
<1>7. InVariables(kind2)'
  BY <1>1, <1>5, <1>6 DEF InVariables, RootCreated
<1>8. Compiling' /\ Queue'
  <2>1. stack = <<>>
    BY <1>1, <1>2 DEF Starting, RootCreated
  <2>2. path \in Paths
    <3>1. Queue /\ "env0" \in Allocating \ {"closure", "args", "locals", "env"}
      BY <1>2 DEF Starting, Allocating
    <3> QED
      BY <1>1, <3>1 DEF Queue
  <2>3. gc' = "off"
    BY <1>1, <1>2 DEF Starting, Resting, collector
  <2> QED
    BY <1>1, <1>4, <2>1, <2>2, <2>3 DEF Compiling, Queue, Allocating
<1>9. ~RootCreated
  BY <1>1 DEF RootCreated
<1>10. KeepsInVariable(kindOf, kind2)
  BY <1>1, <1>2, <1>4, <1>5, <1>6, <1>7, <1>9 DEF KeepsInVariable
<1> QED
  BY <1>8, <1>10, Keeps

LEMMA CompileStep ==
  ASSUME IInv, Compile
  PROVE  IInv'
<1>1. CASE Enter
  BY <1>1, EnterStep
<1>2. CASE Literal
  BY <1>2, LiteralStep
<1>3. CASE MakeCharArray
  BY <1>3, MakeCharArrayStep
<1>4. CASE MakeEnvironmentMap
  BY <1>4, MakeEnvironmentMapStep
<1>5. CASE MakeName
  BY <1>5, MakeNameStep
<1>6. CASE MakeLiterals
  BY <1>6, MakeLiteralsStep
<1>7. CASE MakeFunction
  BY <1>7, MakeFunctionStep
<1>8. CASE MakeMainClosure
  BY <1>8, MakeMainClosureStep
<1>9. CASE MakeArgs("args0", "locals0")
  BY <1>9, MakeArgsStep
<1>10. CASE MakeLocals("locals0", "env0")
  BY <1>10, MakeLocalsStep
<1>11. CASE StartInterpreter
  BY <1>11, StartInterpreterStep
<1> QED
  BY <1>1, <1>2, <1>3, <1>4, <1>5, <1>6, <1>7, <1>8, <1>9, <1>10, <1>11 DEF Compile

-----------------------------------------------------------------------------
(***************************************************************************)
(* Instructions.                                                           *)
(***************************************************************************)
\* The stack is good after a step, and its frames are there.
StackAfter(kind2) ==
  /\ stack' \in Seq(Good(kind2, heap)') /\ Frames(kind2)' /\ bp' \in Nat /\ bp' <= Len(stack')

LEMMA Pushed ==
  ASSUME NEW kindOf, NEW kind2, Starting(kindOf), Grows(kindOf, kind2),
         NEW v \in Good(kind2, heap)', stack' = Append(stack, v), bp' = bp
  PROVE  StackAfter(kind2)
<1> DEFINE old == Good(kindOf, heap)
           new == Good(kind2, heap)'
<1>1. /\ old \subseteq new /\ v \in new /\ \A w \in old : Same(kindOf, kind2, w, w)
      /\ stack \in Seq(old) /\ bp \in Nat /\ bp <= Len(stack) /\ Frames(kindOf)
  BY DEF Grows, Starting
<1> HIDE DEF old, new
<1>2. stack \in Seq(new) /\ Len(stack) \in Nat /\ \A i \in 1 .. Len(stack) : stack[i] \in old
  BY <1>1, SeqOfMore
<1>3. /\ stack' \in Seq(new) /\ Len(stack') = Len(stack) + 1
      /\ \A i \in 1 .. Len(stack) : stack'[i] = stack[i]
  BY <1>1, <1>2, Appended
<1>4. \A i \in 1 .. bp : Same(kindOf, kind2, stack[i], stack'[i])
  <2>1. \A i \in 1 .. bp : i \in 1 .. Len(stack)
    BY <1>1, <1>2
  <2> QED
    BY <1>1, <1>2, <1>3, <2>1
<1>5. Frames(kind2)'
  BY <1>1, <1>4, FramesKept
<1>6. bp' \in Nat /\ bp' <= Len(stack')
  BY <1>1, <1>2, <1>3
<1> QED
  BY <1>3, <1>5, <1>6 DEF StackAfter, new

LEMMA Popped ==
  ASSUME NEW kindOf, NEW kind2, Starting(kindOf), Grows(kindOf, kind2),
         Operands > 0, stack' = Front(stack), bp' = bp
  PROVE  /\ StackAfter(kind2) /\ Last(stack) \in Good(kindOf, heap) /\ Last(stack) \in Good(kind2, heap)'
         /\ Len(stack') = Len(stack) - 1 /\ Len(stack) \in Nat
<1> DEFINE old == Good(kindOf, heap)
           new == Good(kind2, heap)'
<1>1. /\ old \subseteq new /\ \A w \in old : Same(kindOf, kind2, w, w)
      /\ stack \in Seq(old) /\ bp \in Nat /\ bp <= Len(stack) /\ Frames(kindOf)
  BY DEF Grows, Starting
<1> HIDE DEF old, new
<1>2. /\ stack \in Seq(new) /\ Len(stack) \in Nat /\ Len(stack) > 0
      /\ \A i \in 1 .. Len(stack) : stack[i] \in old
  <2>1. Len(stack) \in Nat /\ Len(stack) - bp > 0
    BY <1>1 DEF Operands
  <2> QED
    BY <1>1, <2>1, SeqOfMore
<1>3. /\ stack' \in Seq(new) /\ Len(stack') = Len(stack) - 1 /\ Last(stack) \in old
      /\ \A i \in 1 .. Len(stack) - 1 : stack'[i] = stack[i]
  BY <1>1, <1>2, PopIs
<1>4. bp' \in Nat /\ bp' <= Len(stack')
  BY <1>1, <1>2, <1>3 DEF Operands
<1>5. \A i \in 1 .. bp : Same(kindOf, kind2, stack[i], stack'[i])
  <2>1. \A i \in 1 .. bp : i \in 1 .. Len(stack) /\ i \in 1 .. Len(stack) - 1
    BY <1>1, <1>2, <1>3, <1>4
  <2> QED
    BY <1>1, <1>2, <1>3, <2>1
<1>6. Frames(kind2)'
  BY <1>1, <1>5, FramesKept
<1> QED
  BY <1>1, <1>2, <1>3, <1>4, <1>6 DEF StackAfter, old, new

\* What an instruction's step may change.
Interprets(kindOf, kind2) ==
  /\ Starting(kindOf) /\ Grows(kindOf, kind2) /\ StackAfter(kind2)
  /\ UNCHANGED <<collector, messages, encoders>>
  /\ cstack' \in [Variables -> Good(kind2, heap)'] /\ InVariables(kind2)'
  /\ pc' \in {"poll", "closure", "args", "halted", "collect"}
  /\ pc' = "halted" => messages = <<>>

LEMMA Interpreted ==
  ASSUME NEW kindOf, NEW kind2, Interprets(kindOf, kind2)
  PROVE  IInv'
<1>1. /\ Starting(kindOf) /\ Grows(kindOf, kind2) /\ StackAfter(kind2)
      /\ UNCHANGED <<collector, messages, encoders>>
      /\ cstack' \in [Variables -> Good(kind2, heap)'] /\ InVariables(kind2)'
      /\ pc' \in {"poll", "closure", "args", "halted", "collect"}
      /\ pc' = "halted" => messages = <<>>
  BY DEF Interprets
<1>2. encoders' \in Seq(Seq(Good(kind2, heap)'))
  BY <1>1, EncodersStay
<1>3. RootCreated' /\ Compiling'
  BY <1>1 DEF RootCreated, Compiling
<1>4. Queue'
  <2>1. gc' = "off"
    BY <1>1 DEF Starting, Resting, collector
  <2> QED
    BY <1>1, <2>1 DEF Queue, Allocating
<1>5. Lands(kindOf, kind2)
  BY <1>1, <1>2, <1>3, <1>4 DEF Lands, Starting, StackAfter
<1> QED
  BY <1>1, <1>5, Landed

LEMMA FetchFacts ==
  ASSUME IInv, NEW op, NEW to, Fetch(op, to)
  PROVE  /\ pc = "fetch" /\ pc' = to /\ UNCHANGED <<nextId, encoders, source, collector, messages>>
         /\ \E kindOf \in [Nat -> Kinds] :
              /\ Starting(kindOf)
              /\ IsRef(kindOf, cstack["m_env"], "Environment") /\ cstack["m_env"] \in Good(kindOf, heap)
              /\ IsRef(kindOf, cstack["m_closure"], "Closure") /\ cstack["m_closure"] \in Good(kindOf, heap)
<1>1. Step("fetch", to)
  BY DEF Fetch
<1>2. /\ pc = "fetch" /\ pc' = to /\ UNCHANGED <<nextId, encoders, source, collector, messages>>
      /\ \E kindOf \in [Nat -> Kinds] : Starting(kindOf)
  BY <1>1, StepFacts DEF Fetch
<1>3. PICK kindOf \in [Nat -> Kinds] : Starting(kindOf)
  BY <1>2
<1>4. /\ IsRef(kindOf, cstack["m_env"], "Environment") /\ cstack["m_env"] \in Good(kindOf, heap)
      /\ IsRef(kindOf, cstack["m_closure"], "Closure") /\ cstack["m_closure"] \in Good(kindOf, heap)
  BY <1>2, <1>3 DEF Starting, InVariables, RootCreated, Variables
<1> QED
  BY <1>2, <1>3, <1>4

\* An instruction that pushes a word it found.
LEMMA PushStep ==
  ASSUME IInv, NEW op, Fetch(op, "poll"), UNCHANGED <<heap, cstack, bp>>, NEW v, stack' = Append(stack, v),
         \A kindOf : Starting(kindOf) /\ pc = "fetch" => v \in Good(kindOf, heap)
  PROVE  IInv'
<1>1. /\ pc = "fetch" /\ pc' = "poll" /\ UNCHANGED <<nextId, encoders, source, collector, messages>>
      /\ \E kindOf \in [Nat -> Kinds] : Starting(kindOf)
  BY FetchFacts
<1>2. PICK kindOf \in [Nat -> Kinds] : Starting(kindOf)
  BY <1>1
<1>3. Grows(kindOf, kindOf)
  BY <1>1, <1>2, GrowsNot DEF Starting, collector
<1>4. StackAfter(kindOf)
  <2>1. v \in Good(kindOf, heap)'
    BY <1>1, <1>2, <1>3 DEF Grows
  <2> QED
    BY <1>2, <1>3, <2>1, Pushed
<1>5. cstack' \in [Variables -> Good(kindOf, heap)']
  BY <1>2, <1>3, VariablesStay
<1>6. InVariables(kindOf)'
  BY <1>1, <1>2 DEF Starting, InVariables, RootCreated
<1>7. Interprets(kindOf, kindOf)
  BY <1>1, <1>2, <1>3, <1>4, <1>5, <1>6 DEF Interprets
<1> QED
  BY <1>7, Interpreted

LEMMA PushLiteralStep ==
  ASSUME IInv, PushLiteral
  PROVE  IInv'
<1> DEFINE f == At(cstack["m_closure"]).word
           a == At(f).rest[2]
           literals == At(a).rest
<1>1. PICK i \in DOMAIN literals : stack' = Append(stack, literals[i])
  BY DEF PushLiteral
<1>2. Fetch("kPushLiteral", "poll") /\ UNCHANGED <<heap, cstack, bp>>
  BY DEF PushLiteral
<1>3. ASSUME NEW kindOf, Starting(kindOf), pc = "fetch" PROVE literals[i] \in Good(kindOf, heap)
  <2>1. IsRef(kindOf, cstack["m_closure"], "Closure") /\ cstack["m_closure"] \in Good(kindOf, heap)
    BY <1>3 DEF Starting, InVariables, RootCreated, Variables
  <2>2. f \in Good(kindOf, heap) /\ IsRef(kindOf, f, "Function")
    BY <1>3, <2>1, Followed DEF Starting, IsRef, Shape
  <2> HIDE DEF f
  <2>3. /\ At(f).rest \in Seq(Good(kindOf, heap)) /\ Len(At(f).rest) = 2 /\ IsRef(kindOf, a, "PlainArray")
    BY <1>3, <2>2, Followed DEF Starting, IsRef, Shape
  <2>4. a \in Good(kindOf, heap)
    <3> HIDE DEF Good
    <3>1. \A S : \A s \in Seq(S) : Len(s) = 2 => s[2] \in S
      OBVIOUS
    <3> QED
      BY <2>3, <3>1
  <2> HIDE DEF a
  <2>5. literals \in Seq(Good(kindOf, heap))
    BY <1>3, <2>3, <2>4, Followed DEF Starting, IsRef
  <2> HIDE DEF literals, Good
  <2> QED
    BY <2>5
<1> HIDE DEF literals
<1> QED
  BY <1>1, <1>2, <1>3, PushStep

\* A slot of the environment is in a PlainArray.
LEMMA SlotIs ==
  ASSUME NEW kindOf, Starting(kindOf), pc = "fetch", NEW s \in Slots
  PROVE  /\ s[1] \in Addresses /\ Live(heap, s[1]) /\ heap[s[1]].kind = "PlainArray" /\ heap[s[1]].id # 0
         /\ Shape(kindOf, heap[s[1]]) /\ heap[s[1]] \in Objs /\ heap[s[1]].word \in Good(kindOf, heap)
         /\ heap[s[1]].rest \in Seq(Good(kindOf, heap))
<1> DEFINE env == cstack["m_env"]
<1>1. IsRef(kindOf, env, "Environment") /\ env \in Good(kindOf, heap) /\ Resting(kindOf)
  BY DEF Starting, InVariables, RootCreated, Variables
<1> HIDE DEF env
<1>2. /\ At(env).rest \in Seq(Good(kindOf, heap)) /\ Len(At(env).rest) = 3
      /\ \A i \in {2, 3} : IsRef(kindOf, At(env).rest[i], "PlainArray")
  BY <1>1, Followed DEF IsRef, Shape
<1>3. \A i \in {2, 3} : At(env).rest[i] \in Good(kindOf, heap)
  <2> HIDE DEF Good
  <2>1. \A S : \A t \in Seq(S) : Len(t) = 3 => t[2] \in S /\ t[3] \in S
    OBVIOUS
  <2> QED
    BY <1>2, <2>1
<1>4. PICK i \in {2, 3} : s[1] = At(env).rest[i].a
  BY DEF Slots, env
<1>5. PICK w : w = At(env).rest[i]
  OBVIOUS
<1>6. w \in Good(kindOf, heap) /\ IsRef(kindOf, w, "PlainArray") /\ s[1] = w.a
  BY <1>2, <1>3, <1>4, <1>5
<1>7. /\ w.a \in Addresses /\ Live(heap, w.a) /\ At(w) \in Objs /\ At(w).kind = "PlainArray" /\ At(w).id # 0
      /\ Shape(kindOf, At(w)) /\ At(w).word \in Good(kindOf, heap) /\ At(w).rest \in Seq(Good(kindOf, heap))
  BY <1>1, <1>6, Followed DEF IsRef
<1> QED
  BY <1>6, <1>7 DEF At

LEMMA ResolveStep ==
  ASSUME IInv, Resolve
  PROVE  IInv'
<1>1. PICK s \in Slots : s[2] \in DOMAIN heap[s[1]].rest /\ stack' = Append(stack, heap[s[1]].rest[s[2]])
  BY DEF Resolve
<1>2. Fetch("kResolve", "poll") /\ UNCHANGED <<heap, cstack, bp>>
  BY DEF Resolve
<1>3. ASSUME NEW kindOf, Starting(kindOf), pc = "fetch" PROVE heap[s[1]].rest[s[2]] \in Good(kindOf, heap)
  <2>1. heap[s[1]].rest \in Seq(Good(kindOf, heap))
    BY <1>3, SlotIs
  <2> HIDE DEF Good
  <2>2. \A S : \A t \in Seq(S) : \A i \in DOMAIN t : t[i] \in S
    OBVIOUS
  <2> QED
    BY <1>1, <2>1, <2>2
<1> QED
  BY <1>1, <1>2, <1>3, PushStep

LEMMA ResolvedStoreStep ==
  ASSUME IInv, ResolvedStore
  PROVE  IInv'
<1>1. /\ pc = "fetch" /\ pc' = "poll" /\ UNCHANGED <<nextId, encoders, source, collector, messages>>
      /\ \E kindOf \in [Nat -> Kinds] : Starting(kindOf)
  BY FetchFacts DEF ResolvedStore
<1>2. PICK kindOf \in [Nat -> Kinds] : Starting(kindOf)
  BY <1>1
<1>3. PICK s \in Slots : heap' = [heap EXCEPT ![s[1]].rest[s[2]] = Last(stack)]
  BY DEF ResolvedStore
<1>4. Operands > 0 /\ UNCHANGED <<cstack, stack, bp>>
  BY DEF ResolvedStore
<1>5. PICK a, v, p : a = s[1] /\ v = Last(stack) /\ p = heap[a]
  OBVIOUS
<1>6. /\ a \in Addresses /\ Live(heap, a) /\ p.kind = "PlainArray" /\ Shape(kindOf, p) /\ p \in Objs
      /\ p.word \in Good(kindOf, heap) /\ p.rest \in Seq(Good(kindOf, heap))
  BY <1>1, <1>2, <1>5, SlotIs
<1>7. v \in Good(kindOf, heap)
  <2>1. stack \in Seq(Good(kindOf, heap)) /\ Len(stack) > 0
    <3>1. stack \in Seq(Good(kindOf, heap)) /\ bp \in Nat
      BY <1>2 DEF Starting
    <3> HIDE DEF Good
    <3> QED
      BY <1>4, <3>1 DEF Operands
  <2> QED
    BY <1>5, <2>1, PopIs
<1>8. heap \in [Addresses -> Objs] /\ Condemned = {} /\ Objects(kindOf, heap, grey) /\ Resting(kindOf)
  BY <1>2, RestingFacts DEF Starting
<1> DEFINE rest == [p.rest EXCEPT ![s[2]] = v]
           o    == [p EXCEPT !.rest = rest]
<1>9. rest \in Seq(Good(kindOf, heap)) /\ rest \in Seq(Words)
  <2>1. rest \in Seq(Good(kindOf, heap))
    BY <1>6, <1>7, WrittenAt
  <2>2. Good(kindOf, heap) \subseteq Words
    BY DEF Good
  <2> QED
    BY <2>1, <2>2, SeqOfMore
<1> HIDE DEF rest
<1>10. o \in Objs /\ o.id = p.id /\ o.kind = p.kind /\ o.word = p.word /\ o.rest = rest
  BY <1>6, <1>9 DEF Objs
<1>11. heap' = [heap EXCEPT ![a] = o]
  <2>1. \A h \in [Addresses -> Objs] : \A x, i, y : [h EXCEPT ![x].rest[i] = y]
                  = [h EXCEPT ![x] = [h[x] EXCEPT !.rest = [h[x].rest EXCEPT ![i] = y]]]
    OBVIOUS
  <2> QED
    BY <1>3, <1>5, <1>8, <2>1 DEF rest
<1> HIDE DEF o
<1>12. Rewrites(kindOf, heap, grey, a, o)
  <2>1. Shape(kindOf, o)
    BY <1>6, <1>10 DEF Shape, Prims
  <2>2. \A w \in WordsIn(o) : w \in Good(kindOf, heap)
    BY <1>6, <1>9, <1>10, WordsOfGood
  <2>3. \A w \in WordsIn(o) : Meant(kindOf, w) /\ Settled(heap, w)
    BY <2>2 DEF Good
  <2> QED
    BY <1>5, <1>6, <1>8, <1>10, <2>1, <2>3 DEF Rewrites
<1>13. Grows(kindOf, kindOf)
  BY <1>1, <1>8, <1>10, <1>11, <1>12, GrowsByRewriting DEF collector
<1>14. StackAfter(kindOf)
  BY <1>2, <1>4, <1>13, StackStays DEF StackAfter
<1>15. cstack' \in [Variables -> Good(kindOf, heap)']
  BY <1>2, <1>4, <1>13, VariablesStay
<1>16. InVariables(kindOf)'
  BY <1>1, <1>2, <1>4 DEF Starting, InVariables, RootCreated
<1>17. Interprets(kindOf, kindOf)
  BY <1>1, <1>2, <1>13, <1>14, <1>15, <1>16 DEF Interprets
<1> QED
  BY <1>17, Interpreted

\* A word whose object has a kind was made for it.
LEMMA IsARef ==
  ASSUME NEW kindOf, Resting(kindOf), NEW w \in Good(kindOf, heap), NEW kind, IsA(w, kind)
  PROVE  IsRef(kindOf, w, kind)
BY Followed DEF IsA, IsRef

LEMMA PopFunctionStep ==
  ASSUME IInv, PopFunction
  PROVE  IInv'
<1>1. /\ pc = "fetch" /\ pc' = "closure" /\ UNCHANGED <<nextId, encoders, source, collector, messages>>
      /\ \E kindOf \in [Nat -> Kinds] :
              /\ Starting(kindOf)
              /\ IsRef(kindOf, cstack["m_env"], "Environment") /\ cstack["m_env"] \in Good(kindOf, heap)
              /\ IsRef(kindOf, cstack["m_closure"], "Closure") /\ cstack["m_closure"] \in Good(kindOf, heap)
  BY FetchFacts DEF PopFunction
<1>2. PICK kindOf \in [Nat -> Kinds] : 
        /\ Starting(kindOf)
        /\ IsRef(kindOf, cstack["m_env"], "Environment") /\ IsRef(kindOf, cstack["m_closure"], "Closure")
  BY <1>1
<1>3. /\ Operands > 0 /\ IsA(Last(stack), "Function") /\ cstack' = [cstack EXCEPT !.fun = Last(stack)]
      /\ stack' = Front(stack) /\ UNCHANGED <<heap, bp>>
  BY DEF PopFunction
<1>4. Grows(kindOf, kindOf)
  BY <1>1, <1>2, <1>3, GrowsNot DEF Starting, collector
<1>5. /\ StackAfter(kindOf) /\ Last(stack) \in Good(kindOf, heap) /\ Last(stack) \in Good(kindOf, heap)'
  BY <1>2, <1>3, <1>4, Popped
<1>6. IsRef(kindOf, Last(stack), "Function")
  BY <1>2, <1>3, <1>5, IsARef DEF Starting
<1>7. /\ cstack' \in [Variables -> Good(kindOf, heap)'] /\ cstack'["fun"] = Last(stack)
      /\ cstack'["m_env"] = cstack["m_env"] /\ cstack'["m_closure"] = cstack["m_closure"]
  <2>1. cstack \in [Variables -> Good(kindOf, heap)'] /\ {"fun", "m_env", "m_closure"} \subseteq Variables
    BY <1>2, <1>4, VariablesStay DEF Variables
  <2> HIDE DEF Good, Last
  <2> QED
    BY <1>3, <1>5, <2>1
<1>8. InVariables(kindOf)'
  BY <1>1, <1>2, <1>6, <1>7 DEF InVariables, RootCreated
<1>9. Interprets(kindOf, kindOf)
  BY <1>1, <1>2, <1>4, <1>5, <1>7, <1>8 DEF Interprets
<1> QED
  BY <1>9, Interpreted

LEMMA CreateClosureStep ==
  ASSUME IInv, CreateClosure
  PROVE  IInv'
<1> DEFINE word == cstack["fun"]
           rest == <<cstack["m_env"]>>
           made == Made("Closure", word, rest)
<1>1. /\ pc = "closure" /\ pc' = "poll" /\ UNCHANGED <<collector, messages>> /\ Free # {}
      /\ \E kindOf \in [Nat -> Kinds] : Starting(kindOf)
  BY StepFacts DEF CreateClosure
<1>2. PICK kindOf \in [Nat -> Kinds] : Starting(kindOf)
  BY <1>1
<1>3. /\ Alloc(made) /\ stack' = Append(stack, made.w) /\ cstack' = [cstack EXCEPT !.fun = Nil]
      /\ UNCHANGED <<encoders, bp, source, path>>
  BY DEF CreateClosure
<1>4. /\ IsRef(kindOf, word, "Function") /\ IsRef(kindOf, cstack["m_env"], "Environment")
      /\ IsRef(kindOf, cstack["m_closure"], "Closure")
  BY <1>1, <1>2 DEF Starting, InVariables, RootCreated
<1>5. Making(kindOf, "Closure", word, rest)
  <2>1. word \in Good(kindOf, heap) /\ cstack["m_env"] \in Good(kindOf, heap)
    BY <1>2 DEF Starting, Variables
  <2>2. rest \in Seq(Good(kindOf, heap))
    <3> HIDE DEF Good
    <3> QED
      BY <2>1
  <2>3. made.o = [id |-> nextId, kind |-> "Closure", word |-> word, rest |-> rest]
    BY MadeIs
  <2> HIDE DEF made, word, rest
  <2>4. made.o.kind = "Closure" /\ made.o.word = word
    BY <2>3
  <2>5. Shape(kindOf, made.o)
    BY <1>4, <2>4 DEF Shape, Prims
  <2>6. "Closure" \in Kinds \ (Forwarders \union {"free"})
    BY DEF Kinds, Forwarders
  <2> QED
    BY <1>1, <1>2, <2>1, <2>2, <2>5, <2>6 DEF Making, made
<1> HIDE DEF word, rest
<1>6. PICK kind2, new : /\ new = made.w /\ Grows(kindOf, kind2)
                        /\ new \in Good(kind2, heap)' /\ IsRef(kind2, new, "Closure")
  BY <1>1, <1>3, <1>5, Allocated
<1> HIDE DEF made
<1>7. StackAfter(kind2)
  BY <1>2, <1>3, <1>6, Pushed
<1>8. /\ cstack' \in [Variables -> Good(kind2, heap)']
      /\ IsRef(kind2, cstack'["m_env"], "Environment") /\ IsRef(kind2, cstack'["m_closure"], "Closure")
  <2>1. /\ cstack \in [Variables -> Good(kind2, heap)'] /\ Nil \in Good(kind2, heap)'
        /\ {"fun", "m_env", "m_closure"} \subseteq Variables /\ {"Environment", "Closure"} \subseteq Kinds
    BY <1>2, <1>6, VariablesStay DEF Variables, Kinds
  <2>2. IsRef(kind2, cstack["m_env"], "Environment") /\ IsRef(kind2, cstack["m_closure"], "Closure")
    BY <1>2, <1>4, <1>6, <2>1, VariablesStay
  <2> HIDE DEF Good, Nil
  <2> QED
    BY <1>3, <2>1, <2>2
<1>9. InVariables(kind2)'
  BY <1>1, <1>8 DEF InVariables, RootCreated
<1>10. Interprets(kindOf, kind2)
  BY <1>1, <1>2, <1>3, <1>6, <1>7, <1>8, <1>9 DEF Interprets
<1> QED
  BY <1>10, Interpreted

LEMMA PopClosureStep ==
  ASSUME IInv, PopClosure
  PROVE  IInv'
<1>1. /\ pc = "fetch" /\ pc' = "args" /\ UNCHANGED <<nextId, encoders, source, collector, messages>>
      /\ \E kindOf \in [Nat -> Kinds] :
              /\ Starting(kindOf)
              /\ IsRef(kindOf, cstack["m_env"], "Environment") /\ cstack["m_env"] \in Good(kindOf, heap)
              /\ IsRef(kindOf, cstack["m_closure"], "Closure") /\ cstack["m_closure"] \in Good(kindOf, heap)
  BY FetchFacts DEF PopClosure
<1>2. PICK kindOf \in [Nat -> Kinds] : 
        /\ Starting(kindOf)
        /\ IsRef(kindOf, cstack["m_env"], "Environment") /\ IsRef(kindOf, cstack["m_closure"], "Closure")
  BY <1>1
<1>3. /\ Operands > 0 /\ IsA(Last(stack), "Closure") /\ stack' = Front(stack) /\ UNCHANGED <<heap, bp>>
      /\ \E n \in 0 .. Operands - 1 :
           cstack' = [cstack EXCEPT !.closure = Last(stack), !.nArgs = Number(n)]
  BY DEF PopClosure
<1>4. Grows(kindOf, kindOf)
  BY <1>1, <1>2, <1>3, GrowsNot DEF Starting, collector
<1>5. /\ StackAfter(kindOf) /\ Last(stack) \in Good(kindOf, heap) /\ Last(stack) \in Good(kindOf, heap)'
      /\ Len(stack') = Len(stack) - 1 /\ Len(stack) \in Nat /\ bp \in Nat
  BY <1>2, <1>3, <1>4, Popped DEF Starting
<1>6. IsRef(kindOf, Last(stack), "Closure")
  BY <1>2, <1>3, <1>5, IsARef DEF Starting
<1>7. PICK n \in 0 .. Operands - 1 :
        cstack' = [cstack EXCEPT !.closure = Last(stack), !.nArgs = Number(n)]
  BY <1>3
<1>8. n \in Int /\ n \in 0 .. Operands'
  BY <1>3, <1>5 DEF Operands
<1>9. /\ cstack' \in [Variables -> Good(kindOf, heap)']
      /\ cstack'["closure"] = Last(stack) /\ cstack'["nArgs"] = Number(n)
      /\ cstack'["m_env"] = cstack["m_env"] /\ cstack'["m_closure"] = cstack["m_closure"]
  <2>1. /\ cstack \in [Variables -> Good(kindOf, heap)'] /\ {"closure", "nArgs", "m_env", "m_closure"} \subseteq Variables
        /\ Number(n) \in Good(kindOf, heap)'
    BY <1>2, <1>4, <1>8, VariablesStay DEF Variables
  <2> HIDE DEF Good, Last, Number
  <2> QED
    BY <1>5, <1>7, <2>1
<1>10. InVariables(kindOf)'
  <2> HIDE DEF Number, Operands
  <2> QED
    BY <1>1, <1>2, <1>6, <1>8, <1>9 DEF InVariables, RootCreated
<1>11. Interprets(kindOf, kindOf)
  BY <1>1, <1>2, <1>4, <1>5, <1>9, <1>10 DEF Interprets
<1> QED
  BY <1>11, Interpreted

LEMMA PopValueStep ==
  ASSUME IInv, PopValue
  PROVE  IInv'
<1> DEFINE to == IF Len(stack) = 1 THEN "halted" ELSE "collect"
<1>0. Fetch("kReturn", to)
  BY DEF PopValue
<1>1. /\ pc = "fetch" /\ pc' = to /\ UNCHANGED <<nextId, encoders, source, collector, messages>>
      /\ \E kindOf \in [Nat -> Kinds] :
              /\ Starting(kindOf)
              /\ IsRef(kindOf, cstack["m_env"], "Environment") /\ cstack["m_env"] \in Good(kindOf, heap)
              /\ IsRef(kindOf, cstack["m_closure"], "Closure") /\ cstack["m_closure"] \in Good(kindOf, heap)
  BY <1>0, FetchFacts
<1>2. PICK kindOf \in [Nat -> Kinds] : 
        /\ Starting(kindOf)
        /\ IsRef(kindOf, cstack["m_env"], "Environment") /\ IsRef(kindOf, cstack["m_closure"], "Closure")
  BY <1>1
<1>3. /\ Operands = 1 /\ cstack' = [cstack EXCEPT !.val = Last(stack)] /\ stack' = Front(stack)
      /\ UNCHANGED <<heap, bp>>
  BY DEF PopValue
<1>4. Grows(kindOf, kindOf)
  BY <1>1, <1>2, <1>3, GrowsNot DEF Starting, collector
<1>5. /\ StackAfter(kindOf) /\ Last(stack) \in Good(kindOf, heap)'
      /\ Len(stack') = Len(stack) - 1 /\ Len(stack) \in Nat /\ bp \in Nat
  <2>1. Operands > 0
    BY <1>3
  <2> QED
    BY <1>2, <1>3, <1>4, <2>1, Popped DEF Starting
<1>6. /\ cstack' \in [Variables -> Good(kindOf, heap)']
      /\ cstack'["m_env"] = cstack["m_env"] /\ cstack'["m_closure"] = cstack["m_closure"]
  <2>1. cstack \in [Variables -> Good(kindOf, heap)'] /\ {"val", "m_env", "m_closure"} \subseteq Variables
    BY <1>2, <1>4, VariablesStay DEF Variables
  <2> HIDE DEF Good, Last
  <2> QED
    BY <1>3, <1>5, <2>1
<1>7. pc' = "collect" => bp' = Len(stack') /\ bp' # 0
  BY <1>1, <1>3, <1>5 DEF Operands
<1>8. InVariables(kindOf)'
  BY <1>1, <1>2, <1>6, <1>7 DEF InVariables, RootCreated
<1>9. pc' = "halted" => messages = <<>>
  <2>1. messages = <<>> \/ stack = <<>>
    BY <1>1, <1>2 DEF Starting, Queue
  <2>2. stack # <<>>
    <3>1. stack = <<>> => Len(stack) = 0
      OBVIOUS
    <3> QED
      BY <1>3, <1>5, <3>1 DEF Operands
  <2> QED
    BY <2>1, <2>2
<1>10. Interprets(kindOf, kindOf)
  BY <1>1, <1>2, <1>4, <1>5, <1>6, <1>8, <1>9 DEF Interprets
<1> QED
  BY <1>10, Interpreted

LEMMA Tails ==
  ASSUME NEW S, NEW s \in Seq(S), NEW m \in Nat
  PROVE  SubSeq(s, m + 1, Len(s)) \in Seq(S)
OBVIOUS

LEMMA ReversedIs ==
  ASSUME NEW S, NEW s \in Seq(S)
  PROVE  Reverse(s) \in Seq(S)
<1>1. Len(s) \in Nat /\ \A i \in 1 .. Len(s) : (Len(s) - i) + 1 \in 1 .. Len(s)
  OBVIOUS
<1>2. Reverse(s) = [i \in 1 .. Len(s) |-> s[(Len(s) - i) + 1]]
  BY DEF Reverse
<1>3. \A i \in 1 .. Len(s) : s[(Len(s) - i) + 1] \in S
  BY <1>1
<1> QED
  BY <1>1, <1>2, <1>3

LEMMA Framed ==
  ASSUME NEW S, NEW u \in Seq(S), NEW w \in S, NEW x \in S, NEW y \in S, NEW z \in S
  PROVE  LET t == u \o <<w, x, y, z>>
         IN  /\ t \in Seq(S) /\ Len(t) = Len(u) + 4 /\ \A i \in 1 .. Len(u) : t[i] = u[i]
             /\ t[Len(u) + 2] = x /\ t[Len(u) + 3] = y /\ t[Len(u) + 4] = z
OBVIOUS
\* t is what is left of s with a frame of four on it.
IsFramePushed(S, s, u, w, x, y, z, t) ==
  /\ s \in Seq(S) /\ u \in Nat /\ u <= Len(s) /\ w \in S /\ x \in S /\ y \in S /\ z \in S
  /\ t = SubSeq(s, 1, u) \o <<w, x, y, z>>

LEMMA FramePushed ==
  ASSUME NEW S, NEW s, NEW u, NEW w, NEW x, NEW y, NEW z, NEW t, IsFramePushed(S, s, u, w, x, y, z, t)
  PROVE  /\ t \in Seq(S) /\ Len(t) = u + 4 /\ \A i \in 1 .. u : t[i] = s[i]
         /\ t[u + 2] = x /\ t[u + 3] = y /\ t[u + 4] = z
<1>1. PICK v : v = SubSeq(s, 1, u)
  OBVIOUS
<1>2. v \in Seq(S) /\ Len(v) = u /\ \A i \in 1 .. u : v[i] = s[i]
  BY <1>1 DEF IsFramePushed
<1>3. w \in S /\ x \in S /\ y \in S /\ z \in S /\ t = v \o <<w, x, y, z>>
  BY <1>1 DEF IsFramePushed
<1>4. LET r == v \o <<w, x, y, z>>
      IN  /\ r \in Seq(S) /\ Len(r) = Len(v) + 4 /\ \A i \in 1 .. Len(v) : r[i] = v[i]
          /\ r[Len(v) + 2] = x /\ r[Len(v) + 3] = y /\ r[Len(v) + 4] = z
  BY <1>2, <1>3
<1> QED
  BY <1>2, <1>3, <1>4, Zenon

\* The stack under a call's new frame keeps its frames.
LEMMA FramesMore ==
  ASSUME NEW kindOf, NEW kind2, Frames(kindOf), bp \in Nat, NEW u \in Nat, bp <= u, bp' = u + 4,
         \A i \in 1 .. u : Same(kindOf, kind2, stack[i], stack'[i]),
         stack'[u + 2] = Number(bp), IsRef(kind2, stack'[u + 3], "Closure"), IsRef(kind2, stack'[u + 4], "Environment")
  PROVE  Frames(kind2)'
<1>1. PICK F \in SUBSET (4 .. bp) :
        /\ bp \in F \union {0}
        /\ \A f \in F :
             /\ IsRef(kindOf, stack[f], "Environment") /\ IsRef(kindOf, stack[f - 1], "Closure")
             /\ \E g \in F \union {0} : g <= f - 4 /\ stack[f - 2] = Number(g)
  BY DEF Frames
<1> DEFINE F2 == F \union {u + 4}
<1>2. F2 \in SUBSET (4 .. bp') /\ bp' \in F2 \union {0}
  BY <1>1
<1>3. ASSUME NEW f \in F
      PROVE  /\ IsRef(kind2, stack'[f], "Environment") /\ IsRef(kind2, stack'[f - 1], "Closure")
             /\ \E g \in F2 \union {0} : g <= f - 4 /\ stack'[f - 2] = Number(g)
  <2>1. f \in 1 .. u /\ f - 1 \in 1 .. u /\ f - 2 \in 1 .. u
    BY <1>1
  <2>2. IsRef(kind2, stack'[f], "Environment") /\ IsRef(kind2, stack'[f - 1], "Closure")
    BY <1>1, <2>1, SameRef
  <2>3. \A g : stack[f - 2] = Number(g) => stack'[f - 2] = Number(g)
    BY <2>1 DEF Same, Number
  <2> QED
    BY <1>1, <2>2, <2>3
<1>4. /\ IsRef(kind2, stack'[u + 4], "Environment") /\ IsRef(kind2, stack'[(u + 4) - 1], "Closure")
      /\ bp \in F2 \union {0} /\ bp <= (u + 4) - 4 /\ stack'[(u + 4) - 2] = Number(bp)
  <2>1. (u + 4) - 1 = u + 3 /\ (u + 4) - 2 = u + 2 /\ (u + 4) - 4 = u
    OBVIOUS
  <2> QED
    BY <1>1, <2>1
<1>5. \A f \in F2 :
        /\ IsRef(kind2, stack'[f], "Environment") /\ IsRef(kind2, stack'[f - 1], "Closure")
        /\ \E g \in F2 \union {0} : g <= f - 4 /\ stack'[f - 2] = Number(g)
  BY <1>3, <1>4
<1> HIDE DEF F2
<1> QED
  BY <1>2, <1>5 DEF Frames

LEMMA CallStep ==
  ASSUME IInv, Call
  PROVE  IInv'
<1> DEFINE word  == MapOf(cstack["closure"])
           rest  == <<cstack["m_env"], cstack["args"], cstack["locals"]>>
           made  == Made("Environment", word, rest)
           at    == cstack["args"].a
           n     == -cstack["nArgs"].a
           under == Len(stack) - n
           args  == Reverse(SubSeq(stack, under + 1, Len(stack)))
<1>1. /\ pc = "env" /\ pc' = "poll" /\ UNCHANGED <<collector, messages>> /\ Free # {}
      /\ \E kindOf \in [Nat -> Kinds] : Starting(kindOf)
  BY StepFacts DEF Call
<1>2. PICK kindOf \in [Nat -> Kinds] : Starting(kindOf)
  BY <1>1
<1>3. /\ Resting(kindOf) /\ heap \in [Addresses -> Objs] /\ stack \in Seq(Good(kindOf, heap))
      /\ \A v \in Variables : cstack[v] \in Good(kindOf, heap)
      /\ bp \in Nat /\ bp <= Len(stack) /\ Frames(kindOf)
  BY <1>2, RestingFacts DEF Starting
<1>4. /\ IsRef(kindOf, cstack["m_env"], "Environment") /\ IsRef(kindOf, cstack["m_closure"], "Closure")
      /\ IsRef(kindOf, cstack["closure"], "Closure") /\ IsRef(kindOf, cstack["args"], "PlainArray")
      /\ \E m \in 0 .. Operands : cstack["nArgs"] = Number(m)
  BY <1>1, <1>2 DEF Starting, InVariables, RootCreated
<1>5. {"m_env", "m_closure", "closure", "args", "locals", "nArgs"} \subseteq Variables
  BY DEF Variables
<1>6. n \in Nat /\ under \in Nat /\ bp <= under /\ under <= Len(stack) /\ Len(stack) \in Nat
  <2>1. PICK m \in 0 .. Operands : cstack["nArgs"] = Number(m)
    BY <1>4
  <2>2. Len(stack) \in Nat
    BY <1>3
  <2>3. m \in Nat /\ m <= Len(stack) - bp
    BY <1>3, <2>2 DEF Operands
  <2>4. n = m
    BY <2>1, <2>3 DEF Number
  <2> HIDE DEF n
  <2> QED
    BY <1>3, <2>2, <2>3, <2>4
<1>7. Making(kindOf, "Environment", word, rest) /\ MadeEnvironment(cstack["m_env"]) = made
  <2>1. "Environment" \in Kinds \ (Forwarders \union {"free"})
    BY DEF Kinds, Forwarders
  <2>2. /\ MadeEnvironment(cstack["m_env"]) = made /\ word \in Good(kindOf, heap) /\ rest \in Seq(Good(kindOf, heap))
        /\ Shape(kindOf, made.o)
    BY <1>1, <1>2, <1>3, <1>5, EnvironmentIs
  <2> HIDE DEF word, rest
  <2> QED
    BY <1>1, <1>2, <2>1, <2>2 DEF Making
<1>8. /\ heap' = [heap EXCEPT ![NewAt] = made.o, ![at].rest = args \o SubSeq(@, n + 1, Len(@))]
      /\ nextId' = nextId + 1
      /\ stack' = SubSeq(stack, 1, under) \o <<Number(0), Number(bp), cstack["m_closure"], cstack["m_env"]>>
      /\ bp' = under + 4
      /\ cstack' = [NoVariables EXCEPT !.m_env = made.w, !.m_closure = cstack["closure"]]
      /\ UNCHANGED <<encoders, source, path>>
  BY <1>7 DEF Call
<1>9. args \in Seq(Good(kindOf, heap))
  <2> HIDE DEF Good, under
  <2>1. SubSeq(stack, under + 1, Len(stack)) \in Seq(Good(kindOf, heap))
    BY <1>3, <1>6, Tails
  <2> QED
    BY <2>1, ReversedIs
<1>10. /\ at \in Addresses /\ Live(heap, at) /\ heap[at].kind = "PlainArray" /\ Shape(kindOf, heap[at])
       /\ heap[at].word \in Good(kindOf, heap) /\ heap[at].rest \in Seq(Good(kindOf, heap)) /\ heap[at].id # 0
  <2>1. cstack["args"] \in Good(kindOf, heap)
    BY <1>3, <1>5
  <2> QED
    BY <1>3, <1>4, <2>1, Followed, RestingFacts DEF IsRef, At
<1>11. NewAt \in Addresses /\ NewAt # at
  <2>1. NewAt \in Free
    BY <1>1, MinIs DEF NewAt, Free
  <2> QED
    BY <1>10, <2>1 DEF Free, Live
<1>12. PICK o, new, kind2 : o = made.o /\ new = made.w /\ kind2 = Known(kindOf, "Environment")
  OBVIOUS
<1>13. /\ new = NewWord("Environment")
       /\ o = [id |-> nextId, kind |-> "Environment", word |-> word, rest |-> rest]
  BY <1>12, MadeIs
<1>14. Makes(kindOf, "Environment", o)
  <2>1. /\ word \in Good(kindOf, heap) /\ rest \in Seq(Good(kindOf, heap)) /\ Shape(kindOf, o)
        /\ "Environment" \in Kinds \ (Forwarders \union {"free"})
    BY <1>7, <1>12 DEF Making
  <2> HIDE DEF word, rest
  <2> QED
    BY <1>1, <1>3, <1>13, <2>1 DEF Makes
<1> HIDE DEF made, at, word, rest, under, n, args
<1> DEFINE words == args \o SubSeq(heap[at].rest, n + 1, Len(heap[at].rest))
           q     == [heap[at] EXCEPT !.rest = words]
<1>15. words \in Seq(Good(kindOf, heap))
  <2> HIDE DEF Good
  <2>1. SubSeq(heap[at].rest, n + 1, Len(heap[at].rest)) \in Seq(Good(kindOf, heap))
    BY <1>6, <1>10, Tails
  <2>2. \A S : \A s, t \in Seq(S) : s \o t \in Seq(S)
    OBVIOUS
  <2> QED
    BY <1>9, <2>1, <2>2
<1>16. /\ heap'[NewAt] = o /\ heap'[at] = q
       /\ \A a \in Addresses \ {NewAt, at} : heap'[a] = heap[a]
       /\ heap' = [a \in Addresses |-> heap'[a]]
  <2>1. heap' = [heap EXCEPT ![NewAt] = o, ![at].rest = args \o SubSeq(@, n + 1, Len(@))]
    BY <1>8, <1>12
  <2>2. [heap EXCEPT ![NewAt] = o][at] = heap[at]
    BY <1>3, <1>11
  <2>3. heap' = [[heap EXCEPT ![NewAt] = o] EXCEPT ![at] = q]
    BY <1>3, <2>1, <2>2
  <2> HIDE DEF q
  <2> QED
    BY <1>3, <1>10, <1>11, <2>3
<1> HIDE DEF words
<1>17. /\ q.id = heap[at].id /\ q.kind = heap[at].kind /\ q.word = heap[at].word /\ q.rest = words
       /\ q = [id |-> q.id, kind |-> q.kind, word |-> q.word, rest |-> q.rest]
  <2>1. heap[at] \in Objs
    BY <1>3, <1>10
  <2> QED
    BY <2>1 DEF Objs
<1> HIDE DEF q
<1>18. Replaces(kindOf, "Environment", heap[at], q)
  <2>1. Shape(Known(kindOf, "Environment"), q)
    BY <1>10, <1>17 DEF Shape, Prims
  <2>2. q.rest \in Seq(Good(kindOf, heap) \union {NewWord("Environment")})
    BY <1>15, <1>17, SeqOfMore
  <2> QED
    BY <1>10, <1>17, <2>1, <2>2 DEF Replaces
<1>19. Allocates(kindOf, "Environment", o, kind2, new)
  BY <1>1, <1>8, <1>12, <1>13, <1>14, <1>16, <1>18 DEF Allocates, Replaces, collector
<1>20. Grows(kindOf, kind2) /\ new \in Good(kind2, heap)' /\ IsRef(kind2, new, "Environment")
  BY <1>19, AllocSound
<1>21. /\ \A v \in Variables : cstack[v] \in Good(kind2, heap)'
       /\ IsRef(kind2, cstack["m_env"], "Environment") /\ IsRef(kind2, cstack["m_closure"], "Closure")
       /\ IsRef(kind2, cstack["closure"], "Closure")
       /\ Number(0) \in Good(kind2, heap)' /\ Number(bp) \in Good(kind2, heap)'
       /\ NoVariables \in [Variables -> Good(kind2, heap)']
  <2>1. bp \in Int /\ {"Environment", "Closure"} \subseteq Kinds
    BY <1>3 DEF Kinds
  <2>2. cstack \in [Variables -> Good(kind2, heap)']
    BY <1>2, <1>20, VariablesStay
  <2> HIDE DEF Good
  <2> QED
    BY <1>2, <1>4, <1>5, <1>20, <2>1, <2>2, VariablesStay
<1>22. StackAfter(kind2)
  <2> DEFINE old == Good(kindOf, heap)
             now == Good(kind2, heap)'
  <2>1. old \subseteq now /\ \A w \in old : Same(kindOf, kind2, w, w)
    BY <1>20 DEF Grows
  <2>2. /\ Number(0) \in now /\ Number(bp) \in now /\ cstack["m_closure"] \in now /\ cstack["m_env"] \in now
        /\ stack \in Seq(old)
    BY <1>3, <1>5, <1>21
  <2> HIDE DEF old, now
  <2>3. stack \in Seq(now) /\ \A i \in 1 .. Len(stack) : stack[i] \in old
    BY <2>1, <2>2, SeqOfMore
  <2>4. /\ stack' \in Seq(now) /\ Len(stack') = under + 4 /\ \A i \in 1 .. under : stack'[i] = stack[i]
        /\ stack'[under + 2] = Number(bp) /\ stack'[under + 3] = cstack["m_closure"]
        /\ stack'[under + 4] = cstack["m_env"]
    <3>1. IsFramePushed(now, stack, under, Number(0), Number(bp), cstack["m_closure"], cstack["m_env"], stack')
      BY <1>6, <1>8, <2>2, <2>3 DEF IsFramePushed
    <3>2. PICK S, s, u, w, x, y, z, t :
            /\ S = now /\ s = stack /\ u = under /\ w = Number(0) /\ x = Number(bp)
            /\ y = cstack["m_closure"] /\ z = cstack["m_env"] /\ t = stack'
      OBVIOUS
    <3>3. IsFramePushed(S, s, u, w, x, y, z, t)
      BY <3>1, <3>2
    <3>4. /\ t \in Seq(S) /\ Len(t) = u + 4 /\ \A i \in 1 .. u : t[i] = s[i]
          /\ t[u + 2] = x /\ t[u + 3] = y /\ t[u + 4] = z
      BY <3>3, FramePushed
    <3> QED
      BY <3>2, <3>4, Zenon
  <2>5. \A i \in 1 .. under : Same(kindOf, kind2, stack[i], stack'[i])
    <3>1. \A i \in 1 .. under : i \in 1 .. Len(stack)
      BY <1>6
    <3> QED
      BY <2>1, <2>3, <2>4, <3>1
  <2>6. Frames(kind2)'
    BY <1>3, <1>6, <1>8, <1>21, <2>4, <2>5, FramesMore
  <2>7. bp' \in Nat /\ bp' <= Len(stack')
    BY <1>6, <1>8, <2>4
  <2> QED
    BY <2>4, <2>6, <2>7 DEF StackAfter, now
<1>23. /\ cstack' \in [Variables -> Good(kind2, heap)']
       /\ cstack'["m_env"] = new /\ cstack'["m_closure"] = cstack["closure"]
  <2>1. cstack' = [NoVariables EXCEPT !["m_env"] = new, !["m_closure"] = cstack["closure"]]
    BY <1>8, <1>12
  <2> HIDE DEF Good, NoVariables
  <2> QED
    BY <1>5, <1>20, <1>21, <2>1
<1>24. InVariables(kind2)'
  BY <1>1, <1>20, <1>21, <1>23 DEF InVariables, RootCreated
<1>25. Interprets(kindOf, kind2)
  BY <1>1, <1>2, <1>8, <1>20, <1>22, <1>23, <1>24 DEF Interprets
<1> QED
  BY <1>25, Interpreted

\* The stack without a call's frame keeps the frames under it.
LEMMA FramesLess ==
  ASSUME NEW kindOf, Frames(kindOf), bp \in Nat, bp # 0, \A i \in 1 .. bp - 4 : stack'[i] = stack[i]
  PROVE  /\ IsRef(kindOf, stack[bp], "Environment") /\ IsRef(kindOf, stack[bp - 1], "Closure")
         /\ \E g \in Nat : g <= bp - 4 /\ stack[bp - 2] = Number(g) /\ (bp' = g => Frames(kindOf)')
<1>1. PICK F \in SUBSET (4 .. bp) :
        /\ bp \in F \union {0}
        /\ \A f \in F :
             /\ IsRef(kindOf, stack[f], "Environment") /\ IsRef(kindOf, stack[f - 1], "Closure")
             /\ \E g \in F \union {0} : g <= f - 4 /\ stack[f - 2] = Number(g)
  BY DEF Frames
<1>2. bp \in F
  BY <1>1
<1>3. IsRef(kindOf, stack[bp], "Environment") /\ IsRef(kindOf, stack[bp - 1], "Closure")
  BY <1>1, <1>2
<1>4. PICK g \in F \union {0} : g <= bp - 4 /\ stack[bp - 2] = Number(g)
  BY <1>1, <1>2
<1>5. g \in Nat /\ \A f \in F : f \in Nat /\ f >= 4
  BY <1>1
<1>6. ASSUME bp' = g PROVE Frames(kindOf)'
  <2> DEFINE F2 == {f \in F : f <= g}
  <2>1. F2 \in SUBSET (4 .. bp') /\ bp' \in F2 \union {0}
    <3>1. F2 \in SUBSET (4 .. g) /\ g \in F2 \union {0}
      <4>1. g # 0 => g \in F /\ g \in F2
        BY <1>4, <1>5
      <4>2. \A f \in F2 : f \in Nat /\ f >= 4 /\ f <= g
        BY <1>5
      <4> HIDE DEF F2
      <4> QED
        BY <1>5, <4>1, <4>2
    <3> QED
      BY <1>6, <3>1
  <2>2. ASSUME NEW f \in F2
        PROVE  /\ IsRef(kindOf, stack'[f], "Environment") /\ IsRef(kindOf, stack'[f - 1], "Closure")
               /\ \E k \in F2 \union {0} : k <= f - 4 /\ stack'[f - 2] = Number(k)
    <3>1. f \in F /\ f \in Nat /\ f >= 4 /\ f <= g
      BY <1>5
    <3>2. f \in 1 .. bp - 4 /\ f - 1 \in 1 .. bp - 4 /\ f - 2 \in 1 .. bp - 4
      BY <1>4, <1>5, <3>1
    <3>3. PICK k \in F \union {0} : k <= f - 4 /\ stack[f - 2] = Number(k)
      BY <1>1, <3>1
    <3>4. k \in F2 \union {0}
      BY <1>5, <3>1, <3>3
    <3>5. stack'[f] = stack[f] /\ stack'[f - 1] = stack[f - 1] /\ stack'[f - 2] = stack[f - 2]
      BY <3>2
    <3> QED
      BY <1>1, <3>1, <3>3, <3>4, <3>5
  <2> HIDE DEF F2
  <2> QED
    BY <2>1, <2>2 DEF Frames
<1> QED
  BY <1>3, <1>4, <1>5, <1>6

LEMMA ReturnStep ==
  ASSUME IInv, Return
  PROVE  IInv'
<1> DEFINE base == Len(stack) - 4
<1>1. /\ pc = "restore" /\ pc' = "poll" /\ UNCHANGED <<collector, messages>>
      /\ \E kindOf \in [Nat -> Kinds] : Starting(kindOf)
  BY StepFacts DEF Return
<1>2. PICK kindOf \in [Nat -> Kinds] : Starting(kindOf)
  BY <1>1
<1>3. /\ cstack' = [NoVariables EXCEPT !.m_env = stack[base + 4], !.m_closure = stack[base + 3]]
      /\ bp' = -stack[base + 2].a
      /\ stack' = Append(SubSeq(stack, 1, base), cstack.val)
      /\ UNCHANGED <<heap, nextId, encoders, source, path>>
  BY DEF Return
<1>4. bp = Len(stack) /\ bp # 0 /\ bp \in Nat /\ Frames(kindOf)
  BY <1>1, <1>2 DEF Starting, InVariables
<1>5. Grows(kindOf, kindOf)
  BY <1>1, <1>2, <1>3, GrowsNot DEF Starting, collector
<1>6. PICK S : S = Good(kindOf, heap)'
  OBVIOUS
<1>7. /\ stack \in Seq(S) /\ cstack \in [Variables -> S] /\ NoVariables \in [Variables -> S]
  <2>1. /\ Good(kindOf, heap) \subseteq S /\ stack \in Seq(Good(kindOf, heap))
        /\ cstack \in [Variables -> S] /\ NoVariables \in [Variables -> S]
    BY <1>2, <1>5, <1>6, VariablesStay DEF Grows, Starting
  <2> HIDE DEF Good, NoVariables
  <2> QED
    BY <2>1, SeqOfMore
<1>8. PICK F \in SUBSET (4 .. bp) : bp \in F
  BY <1>4 DEF Frames
<1>9. bp >= 4 /\ base \in Nat /\ base = bp - 4 /\ base <= Len(stack)
  BY <1>4, <1>8
<1>10. /\ stack' \in Seq(S) /\ Len(stack') = base + 1 /\ \A i \in 1 .. base : stack'[i] = stack[i]
  <2>1. \A T : \A s \in Seq(T) : \A m \in Nat : \A v \in T :
          m <= Len(s) =>
            LET t == Append(SubSeq(s, 1, m), v)
            IN  t \in Seq(T) /\ Len(t) = m + 1 /\ \A i \in 1 .. m : t[i] = s[i]
    OBVIOUS
  <2>2. cstack.val \in S
    BY <1>7 DEF Variables
  <2> HIDE DEF base
  <2> QED
    BY <1>3, <1>7, <1>9, <2>1, <2>2
<1>11. /\ IsRef(kindOf, stack[bp], "Environment") /\ IsRef(kindOf, stack[bp - 1], "Closure")
       /\ \E g \in Nat : g <= bp - 4 /\ stack[bp - 2] = Number(g) /\ (bp' = g => Frames(kindOf)')
  BY <1>4, <1>9, <1>10, FramesLess
<1>12. /\ base + 4 = bp /\ base + 3 = bp - 1 /\ base + 2 = bp - 2
       /\ stack[bp] \in S /\ stack[bp - 1] \in S
  <2>1. bp \in 1 .. Len(stack) /\ bp - 1 \in 1 .. Len(stack)
    BY <1>4, <1>9
  <2> QED
    BY <1>4, <1>7, <1>9, <2>1
<1>13. PICK g \in Nat : g <= bp - 4 /\ stack[bp - 2] = Number(g) /\ (bp' = g => Frames(kindOf)')
  BY <1>11
<1>14. bp' = g
  <2>1. -Number(g).a = g
    BY DEF Number
  <2> QED
    BY <1>3, <1>12, <1>13, <2>1
<1>15. StackAfter(kindOf)
  <2>1. bp' \in Nat /\ bp' <= Len(stack')
    BY <1>9, <1>10, <1>13, <1>14
  <2> QED
    BY <1>6, <1>10, <1>13, <1>14, <2>1 DEF StackAfter
<1>16. /\ cstack' \in [Variables -> S] /\ cstack'["m_env"] = stack[bp]
       /\ cstack'["m_closure"] = stack[bp - 1]
  <2>1. cstack' = [NoVariables EXCEPT !["m_env"] = stack[bp], !["m_closure"] = stack[bp - 1]]
    BY <1>3, <1>12
  <2>2. "m_env" \in Variables /\ "m_closure" \in Variables
    BY DEF Variables
  <2> HIDE DEF NoVariables
  <2> QED
    BY <1>7, <1>12, <2>1, <2>2
<1>17. InVariables(kindOf)'
  BY <1>1, <1>11, <1>16 DEF InVariables, RootCreated
<1>18. Interprets(kindOf, kindOf)
  BY <1>1, <1>2, <1>3, <1>5, <1>6, <1>15, <1>16, <1>17 DEF Interprets
<1> QED
  BY <1>18, Interpreted

LEMMA PollStep ==
  ASSUME IInv, Poll
  PROVE  IInv'
<1>1. /\ Running /\ pc = "poll" /\ UNCHANGED <<heap, nextId, encoders, cstack, stack, bp, source, path, collector>>
      /\ \/ messages = <<>> /\ pc' = "fetch" /\ messages' = messages
         \/ messages # <<>> /\ pc' = "poll" /\ messages' = Tail(messages)
  BY DEF Poll
<1>2. PICK kindOf \in [Nat -> Kinds] : Starting(kindOf)
  BY <1>1, Started
<1>3. Grows(kindOf, kindOf)
  BY <1>1, <1>2, GrowsNot DEF Starting, collector
<1>4. /\ stack' \in Seq(Good(kindOf, heap)') /\ Frames(kindOf)' /\ bp' \in Nat /\ bp' <= Len(stack')
      /\ cstack' \in [Variables -> Good(kindOf, heap)'] /\ encoders' \in Seq(Seq(Good(kindOf, heap)'))
  BY <1>1, <1>2, <1>3, StackStays, EncodersStay, VariablesStay
<1>5. messages' \in Seq({"gc_start", "gc"})
  <2>1. messages \in Seq({"gc_start", "gc"})
    BY <1>2 DEF Starting
  <2> QED
    BY <1>1, <2>1
<1>6. InVariables(kindOf)' /\ Compiling' /\ RootCreated'
  BY <1>1, <1>2 DEF Starting, InVariables, Compiling, RootCreated
<1>7. Queue'
  <2>1. gc' = "off"
    BY <1>1, <1>2 DEF Starting, Resting, collector
  <2> QED
    BY <1>1, <2>1 DEF Queue, Allocating
<1>8. Lands(kindOf, kindOf)
  BY <1>1, <1>3, <1>4, <1>5, <1>6, <1>7 DEF Lands
<1> QED
  BY <1>2, <1>8, Landed

LEMMA InterpretStep ==
  ASSUME IInv, Interpret
  PROVE  IInv'
<1>1. CASE PushLiteral
  BY <1>1, PushLiteralStep
<1>2. CASE Resolve
  BY <1>2, ResolveStep
<1>3. CASE ResolvedStore
  BY <1>3, ResolvedStoreStep
<1>4. CASE PopFunction
  BY <1>4, PopFunctionStep
<1>5. CASE CreateClosure
  BY <1>5, CreateClosureStep
<1>6. CASE PopClosure
  BY <1>6, PopClosureStep
<1>7. CASE MakeArgs("args", "locals")
  BY <1>7, MakeArgsStep
<1>8. CASE MakeLocals("locals", "env")
  BY <1>8, MakeLocalsStep
<1>9. CASE Call
  BY <1>9, CallStep
<1>10. CASE PopValue
  BY <1>10, PopValueStep
<1>11. CASE ArenaCollect
  BY <1>11, CollectStep
<1>12. CASE Return
  BY <1>12, ReturnStep
<1>13. CASE Poll
  BY <1>13, PollStep
<1> QED
  BY <1>1, <1>2, <1>3, <1>4, <1>5, <1>6, <1>7, <1>8, <1>9, <1>10, <1>11, <1>12, <1>13 DEF Interpret

LEMMA InitStep ==
  ASSUME Init
  PROVE  IInv
<1>1. /\ heap = [a \in Addresses |-> [id |-> 0, kind |-> "free", word |-> Nil, rest |-> <<>>]]
      /\ nextId = 1 /\ encoders = <<>> /\ cstack = NoVariables /\ stack = <<>> /\ bp = 0
      /\ source \in Sources /\ pc = "compile" /\ path \in Paths /\ gc = "off"
      /\ white = {} /\ nailed = {} /\ grey = {} /\ flips = 0 /\ messages = <<>> /\ confused = {}
  BY DEF Init
<1>2. Nil \in Words /\ NoVariables \in [Variables -> Words]
  <2>1. Nil \in Words
    BY <1>1 DEF Nil, Words
  <2> HIDE DEF Nil, Words
  <2> QED
    BY <2>1 DEF NoVariables
<1>3. heap \in [Addresses -> Objs]
  <2>1. 0 \in 0 .. nextId /\ "free" \in Kinds /\ <<>> \in Seq(Words)
    BY <1>1 DEF Kinds
  <2> HIDE DEF Words, Nil
  <2> QED
    BY <1>1, <1>2, <2>1 DEF Objs
<1>4. Typed
  <2>1. stack \in Seq(Words) /\ encoders \in Seq(Seq(Words)) /\ bp \in 0 .. Len(stack)
        /\ messages \in Seq({"gc_start", "gc"})
    BY <1>1
  <2> QED
    BY <1>1, <1>2, <1>3, <2>1 DEF Typed, TypeOK, Objs
<1>5. Compiling
  <2>1. Len(encoders) = 0
    BY <1>1
  <2> QED
    BY <1>1, <2>1, SourcesAssumption DEF Compiling
<1>6. Queue
  BY <1>1 DEF Queue, Allocating
<1>7. PICK kindOf \in [Nat -> Kinds] : TRUE
  <2>1. "Double" \in Kinds
    BY DEF Kinds, Prims
  <2>2. [n \in Nat |-> "Double"] \in [Nat -> Kinds]
    BY <2>1
  <2> QED
    BY <2>2
<1>8. Objects(kindOf, heap, grey)
  <2>1. \A a \in Addresses : heap[a].kind = "free" /\ heap[a].id = 0
    BY <1>1
  <2> QED
    BY <1>1, <2>1 DEF Objects, Live, Forwarders
<1>9. Roots(kindOf)
  <2>1. cstack \in [Variables -> Good(kindOf, heap)]
    <3>1. Nil \in Good(kindOf, heap)
      BY <1>4, GoodNumbers
    <3> HIDE DEF Good, Nil
    <3> QED
      BY <1>1, <3>1 DEF NoVariables
  <2> QED
    BY <1>1, <2>1 DEF Roots
<1>10. Frames(kindOf) /\ InVariables(kindOf)
  <2>1. Frames(kindOf)
    BY <1>1 DEF Frames
  <2> QED
    BY <1>1, <2>1 DEF InVariables, RootCreated
<1> QED
  BY <1>4, <1>5, <1>6, <1>8, <1>9, <1>10 DEF IInv, Sane

LEMMA StutterStep ==
  ASSUME IInv, UNCHANGED vars
  PROVE  IInv'
<1>1. UNCHANGED <<heap, nextId, encoders, cstack, stack, bp, source, pc, path, gc, white, nailed,
                  grey, flips, messages, confused>>
  BY DEF vars, mutator, collector
<1>2. Words' = Words /\ Objs' = Objs /\ Condemned' = Condemned /\ (RootCreated' <=> RootCreated)
      /\ Operands' = Operands
  BY <1>1 DEF Words, Objs, Condemned, RootCreated, Operands
<1>3. Typed' /\ Compiling' /\ Queue'
  BY <1>1, <1>2 DEF IInv, Typed, TypeOK, Compiling, Queue, Objs
<1>4. ASSUME NEW kindOf, Sane(kindOf) PROVE Sane(kindOf)'
  <2>1. Good(kindOf, heap)' = Good(kindOf, heap) /\ Leading(kindOf, heap)' = Leading(kindOf, heap)
    BY <1>1, <1>2 DEF Good, Leading, Meant, Settled, Leads, Live
  <2>2. Objects(kindOf, heap, grey)'
    BY <1>1, <1>2, <1>4 DEF Sane, Objects, Moved, LiveObject, Live, Meant, Settled, Leads
  <2>3. Roots(kindOf)' /\ Frames(kindOf)' /\ InVariables(kindOf)'
    BY <1>1, <1>2, <1>4, <2>1 DEF Sane, Roots, Frames, InVariables
  <2> QED
    BY <2>2, <2>3 DEF Sane
<1> QED
  BY <1>1, <1>3, <1>4 DEF IInv

\* IInv is inductive: no instruction, allocation, fix or reclamation leaves a reference
\* that leads elsewhere than to its object, or to an object of another kind.
THEOREM Invariance == Spec => []IInv
<1>1. Init => IInv
  BY InitStep
<1>2. IInv /\ [Next]_vars => IInv'
  <2> SUFFICES ASSUME IInv, [Next]_vars PROVE IInv'
    OBVIOUS
  <2>1. CASE Collect
    BY <2>1, CollectStep
  <2>2. CASE Compile
    BY <2>2, CompileStep
  <2>3. CASE Interpret
    BY <2>3, InterpretStep
  <2>4. CASE UNCHANGED vars
    BY <2>4, StutterStep
  <2> QED
    BY <2>1, <2>2, <2>3, <2>4 DEF Next
<1> QED
  BY <1>1, <1>2, PTL DEF Spec

\* Every variable has its type, after any number of collections started anywhere.
THEOREM TypesAreKept == Spec => []TypeOK
<1>1. IInv => TypeOK
  BY DEF IInv, Typed
<1> QED
  BY <1>1, Invariance, PTL

\* poll (ObjectMemory.cc:180) leaves no message of an earlier instruction in the queue.
THEOREM QueueIsDrained == Spec => []QueueDrained
<1>1. IInv => QueueDrained
  BY DEF IInv, Queue, QueueDrained
<1> QED
  BY <1>1, Invariance, PTL

-----------------------------------------------------------------------------
(***************************************************************************)
(* What the mutator can reach.                                             *)
(***************************************************************************)
LEMMA ReachedUpToIs ==
  ASSUME NEW roots, NEW N \in Nat, N = Cardinality(Addresses)
  PROVE  LET upTo == ReachedUpTo(roots)
         IN  upTo = [n \in 0 .. N |->
                       IF n = 0 THEN roots ELSE upTo[n - 1] \union UNION {Onward(w) : w \in upTo[n - 1]}]
<1> DEFINE Further(words) == words \union UNION {Onward(w) : w \in words}
           Is(f, m) == f = [n \in 0 .. m |-> IF n = 0 THEN roots ELSE Further(f[n - 1])]
           T == {m \in Nat : ~\E f : Is(f, m)}
<1> HIDE DEF Further
<1>1. 0 \notin T
  <2>1. Is([n \in 0 .. 0 |-> roots], 0)
    OBVIOUS
  <2> QED
    BY <2>1
<1>2. ASSUME NEW m \in Nat, m + 1 \in T PROVE m \in T
  <2>1. SUFFICES ASSUME NEW f, Is(f, m) PROVE \E h : Is(h, m + 1)
    BY <1>2
  <2> DEFINE h == [n \in 0 .. m + 1 |-> IF n = m + 1 THEN Further(f[m]) ELSE f[n]]
  <2>2. \A n \in 0 .. m : f[n] = IF n = 0 THEN roots ELSE Further(f[n - 1])
    BY <2>1
  <2>3. ASSUME NEW n \in 0 .. m + 1 PROVE h[n] = IF n = 0 THEN roots ELSE Further(h[n - 1])
    <3>1. CASE n = m + 1
      <4>1. n # 0 /\ n - 1 = m /\ m \in 0 .. m + 1 /\ m # m + 1
        BY <3>1
      <4> QED
        BY <3>1, <4>1
    <3>2. CASE n = 0
      <4>1. n \in 0 .. m /\ n # m + 1
        BY <3>2
      <4> QED
        BY <3>2, <4>1, <2>2
    <3>3. CASE n # 0 /\ n # m + 1
      <4>1. n \in 0 .. m /\ n - 1 \in 0 .. m + 1 /\ n - 1 # m + 1
        BY <3>3
      <4>2. h[n] = f[n] /\ h[n - 1] = f[n - 1]
        BY <3>3, <4>1
      <4> HIDE DEF h
      <4> QED
        BY <3>3, <4>1, <4>2, <2>2
    <3> QED
      BY <3>1, <3>2, <3>3
  <2>4. Is(h, m + 1)
    <3>1. h = [n \in 0 .. m + 1 |-> h[n]]
      OBVIOUS
    <3> HIDE DEF h
    <3> QED
      BY <2>3, <3>1
  <2> QED
    BY <2>4
<1>3. T = {}
  <2>1. T \subseteq Nat
    OBVIOUS
  <2> HIDE DEF T
  <2> QED
    BY <1>1, <1>2, <2>1, NoException
<1>4. \E f : Is(f, N)
  BY <1>3
<1>5. ReachedUpTo(roots) = CHOOSE f : Is(f, N)
  BY DEF ReachedUpTo, Further
<1>6. Is(ReachedUpTo(roots), N)
  BY <1>4, <1>5
<1> QED
  BY <1>6 DEF Further

\* A good word leads on to good words.
LEMMA OnwardIsGood ==
  ASSUME NEW kindOf, Resting(kindOf), NEW w \in Good(kindOf, heap)
  PROVE  Onward(w) \subseteq Good(kindOf, heap)
<1>1. CASE w.id = 0
  BY <1>1 DEF Onward
<1>2. CASE w.id # 0
  <2>1. At(w).word \in Good(kindOf, heap) /\ At(w).rest \in Seq(Good(kindOf, heap))
    BY <1>2, Followed
  <2>2. \A S : \A s \in Seq(S) : \A v \in S : ToSet(Append(s, v)) \subseteq S
    BY DEF ToSet
  <2> HIDE DEF Good, At
  <2>3. ToSet(Append(At(w).rest, At(w).word)) \subseteq Good(kindOf, heap)
    BY <2>1, <2>2
  <2> QED
    BY <2>3 DEF Onward
<1> QED
  BY <1>1, <1>2

LEMMA ReachedIsGood ==
  ASSUME NEW kindOf, Resting(kindOf), NEW roots \in SUBSET Good(kindOf, heap)
  PROVE  Reached(roots) \subseteq Good(kindOf, heap)
<1> DEFINE N == Cardinality(Addresses)
           upTo == ReachedUpTo(roots)
           T == {n \in Nat : n <= N /\ ~(upTo[n] \subseteq Good(kindOf, heap))}
<1>1. N \in Nat
  BY AddressesAssumption, FS_CardinalityType
<1>2. \A n \in 0 .. N : upTo[n] = IF n = 0 THEN roots
                                  ELSE upTo[n - 1] \union UNION {Onward(w) : w \in upTo[n - 1]}
  <2>1. upTo = [n \in 0 .. N |->
                  IF n = 0 THEN roots ELSE upTo[n - 1] \union UNION {Onward(w) : w \in upTo[n - 1]}]
    BY <1>1, ReachedUpToIs
  <2> HIDE DEF upTo, N
  <2> QED
    BY <2>1
<1> HIDE DEF upTo, N
<1>3. 0 \notin T
  <2>1. 0 \in 0 .. N
    BY <1>1
  <2>2. upTo[0] \subseteq Good(kindOf, heap)
    BY <1>2, <2>1
  <2> HIDE DEF Good
  <2> QED
    BY <2>2
<1>4. ASSUME NEW n \in Nat, n + 1 \in T PROVE n \in T
  <2>1. n + 1 \in 0 .. N /\ n + 1 # 0 /\ (n + 1) - 1 = n /\ n <= N
        /\ ~(upTo[n + 1] \subseteq Good(kindOf, heap))
    BY <1>1, <1>4
  <2>2. upTo[n + 1] = upTo[n] \union UNION {Onward(w) : w \in upTo[n]}
    BY <1>2, <2>1
  <2>3. upTo[n] \subseteq Good(kindOf, heap) => upTo[n + 1] \subseteq Good(kindOf, heap)
    BY <2>2, OnwardIsGood
  <2> QED
    BY <2>1, <2>3
<1>5. T = {}
  <2>1. T \subseteq Nat
    OBVIOUS
  <2> HIDE DEF T
  <2> QED
    BY <1>3, <1>4, <2>1, NoException
<1>6. upTo[N] \subseteq Good(kindOf, heap)
  BY <1>1, <1>5
<1> QED
  BY <1>6 DEF Reached, upTo, N

LEMMA GoodIsFaithful ==
  ASSUME NEW kindOf, Resting(kindOf), NEW words \in SUBSET Good(kindOf, heap)
  PROVE  Faithful(words)
<1>1. ASSUME NEW w \in words, w.id # 0
      PROVE  /\ Follows(w) /\ Live(heap, w.a)
             /\ w.a \in Addresses /\ heap[w.a].id = w.id
  <2>1. /\ w.a \in Addresses /\ Live(heap, w.a) /\ At(w) \in Objs /\ At(w).id = w.id
        /\ At(w).kind = kindOf[w.id]
    BY <1>1, Followed
  <2>2. w.tag = TagOf(kindOf[w.id])
    BY <1>1 DEF Good, Meant
  <2>3. At(w).kind \in Kinds \ (Forwarders \union {"free"})
    BY <2>1 DEF Live, At, Objs
  <2> QED
    BY <2>1, <2>2, <2>3 DEF Follows, At
<1>2. \A a, b \in Addresses : Live(heap, a) /\ Live(heap, b) /\ heap[a].id = heap[b].id => a = b
  BY DEF Resting, Objects
<1> QED
  BY <1>1, <1>2 DEF Faithful

\* Whenever the mutator runs, every word it can reach from m_stack and the C stack
\* leads to the object it was made for, for every heap, source, path and number of
\* collections: mpsScan, mpsFwd, FIXOOP and both roots (MPS.cc) lose and split nothing.
THEOREM ReferencesAlwaysFollow == Spec => []ReferencesFollow
<1>1. IInv => ReferencesFollow
  <2> SUFFICES ASSUME IInv, gc = "off", confused = {} PROVE Faithful(Reached(Rooted))
    BY DEF ReferencesFollow
  <2>1. PICK kindOf \in [Nat -> Kinds] : Sane(kindOf)
    BY DEF IInv
  <2>2. Resting(kindOf)
    BY <2>1 DEF Resting, Sane, IInv
  <2>3. Rooted \subseteq Good(kindOf, heap)
    <3>1. cstack \in [Variables -> Good(kindOf, heap)] /\ stack \in Seq(Good(kindOf, heap))
      BY <2>1 DEF Sane, Roots
    <3> HIDE DEF Good, Variables
    <3> QED
      BY <3>1 DEF Rooted, ToSet
  <2> QED
    BY <2>2, <2>3, ReachedIsGood, GoodIsFaithful
<1> QED
  BY <1>1, Invariance, PTL

(***************************************************************************)
(* The casts.                                                              *)
(***************************************************************************)
LEMMA RefIsA ==
  ASSUME NEW kindOf, Resting(kindOf), NEW w \in Good(kindOf, heap), NEW kind, IsRef(kindOf, w, kind)
  PROVE  /\ IsA(w, kind) /\ Shape(kindOf, At(w)) /\ At(w).kind = kind
         /\ At(w).word \in Good(kindOf, heap) /\ At(w).rest \in Seq(Good(kindOf, heap))
BY Followed DEF IsRef, IsA

LEMMA RefIsClosure ==
  ASSUME NEW kindOf, Resting(kindOf), NEW w \in Good(kindOf, heap), IsRef(kindOf, w, "Closure")
  PROVE  IsClosure(w)
<1> DEFINE func == At(w).word
<1>1. IsA(w, "Closure") /\ Shape(kindOf, At(w)) /\ At(w).kind = "Closure" /\ func \in Good(kindOf, heap)
  BY RefIsA
<1>2. IsRef(kindOf, func, "Function")
  BY <1>1 DEF Shape
<1> HIDE DEF func
<1>3. /\ IsA(func, "Function") /\ Shape(kindOf, At(func)) /\ At(func).kind = "Function"
      /\ At(func).word \in Good(kindOf, heap) /\ At(func).rest \in Seq(Good(kindOf, heap))
  BY <1>1, <1>2, RefIsA
<1>4. /\ IsRef(kindOf, At(func).word, "EnvironmentMap")
      /\ Len(At(func).rest) = 2 /\ IsRef(kindOf, At(func).rest[2], "PlainArray")
  BY <1>3 DEF Shape
<1>5. At(func).rest[2] \in Good(kindOf, heap)
  BY <1>3, <1>4
<1>6. IsA(At(func).word, "EnvironmentMap") /\ IsA(At(func).rest[2], "PlainArray")
  BY <1>3, <1>4, <1>5, RefIsA
<1> QED
  BY <1>1, <1>3, <1>6 DEF IsClosure, func

LEMMA RefIsEnvironment ==
  ASSUME NEW kindOf, Resting(kindOf), NEW w \in Good(kindOf, heap), IsRef(kindOf, w, "Environment")
  PROVE  IsEnvironment(w)
<1>1. /\ IsA(w, "Environment") /\ Shape(kindOf, At(w)) /\ At(w).kind = "Environment"
      /\ At(w).word \in Good(kindOf, heap) /\ At(w).rest \in Seq(Good(kindOf, heap))
  BY RefIsA
<1>2. /\ IsRef(kindOf, At(w).word, "EnvironmentMap") /\ Len(At(w).rest) = 3
      /\ \A i \in {2, 3} : IsRef(kindOf, At(w).rest[i], "PlainArray")
  BY <1>1 DEF Shape
<1>3. \A i \in {2, 3} : At(w).rest[i] \in Good(kindOf, heap)
  BY <1>1, <1>2
<1>4. IsA(At(w).word, "EnvironmentMap") /\ \A i \in {2, 3} : IsA(At(w).rest[i], "PlainArray")
  BY <1>1, <1>2, <1>3, RefIsA
<1> QED
  BY <1>1, <1>4 DEF IsEnvironment

\* The words that the interpreter casts without a look (Interpreter.cc:229, 285) lead to
\* a Closure and an Environment with all their parts, for every heap, source and path.
THEOREM CastsAlwaysHold == Spec => []CastsHold
<1>1. IInv => CastsHold
  <2> SUFFICES ASSUME IInv, gc = "off", confused = {}, RootCreated
               PROVE  /\ IsClosure(cstack["m_closure"]) /\ IsEnvironment(cstack["m_env"])
                      /\ pc \in {"args", "locals", "env"} => IsClosure(cstack["closure"])
                      /\ pc = "restore" => IsEnvironment(stack[bp]) /\ IsClosure(stack[bp - 1])
    BY DEF CastsHold
  <2>1. PICK kindOf \in [Nat -> Kinds] : Sane(kindOf)
    BY DEF IInv
  <2>2. Resting(kindOf) /\ InVariables(kindOf) /\ Frames(kindOf)
    BY <2>1 DEF Resting, Sane, IInv
  <2>3. cstack \in [Variables -> Good(kindOf, heap)] /\ stack \in Seq(Good(kindOf, heap))
    BY <2>1 DEF Sane, Roots
  <2>4. {"m_env", "m_closure", "closure"} \subseteq Variables
    BY DEF Variables
  <2>5. IsClosure(cstack["m_closure"]) /\ IsEnvironment(cstack["m_env"])
    BY <2>2, <2>3, <2>4, RefIsClosure, RefIsEnvironment DEF InVariables
  <2>6. pc \in {"args", "locals", "env"} => IsClosure(cstack["closure"])
    BY <2>2, <2>3, <2>4, RefIsClosure DEF InVariables
  <2>7. ASSUME pc = "restore" PROVE IsEnvironment(stack[bp]) /\ IsClosure(stack[bp - 1])
    <3>1. bp = Len(stack) /\ bp # 0 /\ Len(stack) \in Nat
      BY <2>2, <2>3, <2>7 DEF InVariables
    <3>2. PICK F \in SUBSET (4 .. bp) :
            bp \in F /\ IsRef(kindOf, stack[bp], "Environment") /\ IsRef(kindOf, stack[bp - 1], "Closure")
      BY <2>2, <3>1 DEF Frames
    <3>3. bp \in 1 .. Len(stack) /\ bp - 1 \in 1 .. Len(stack)
      BY <3>1, <3>2
    <3>4. stack[bp] \in Good(kindOf, heap) /\ stack[bp - 1] \in Good(kindOf, heap)
      BY <2>3, <3>3
    <3> QED
      BY <2>2, <3>2, <3>4, RefIsClosure, RefIsEnvironment
  <2> QED
    BY <2>5, <2>6, <2>7
<1> QED
  BY <1>1, Invariance, PTL
=============================================================================
