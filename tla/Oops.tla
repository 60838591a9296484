-------------------------------- MODULE Oops --------------------------------
(***************************************************************************)
(* The representation of values (Object.h): a word is a small integer or a *)
(* pointer, told apart by its lowest bit, and the low four bits of a       *)
(* pointer are its type.  What Oop's constructors put into the word, what  *)
(* type(), asI32() and addrT() read out of it, and the conversions of      *)
(* Object.inl.hh, compared with the value the word was made for.           *)
(*                                                                         *)
(* A word has two halves, m_i32a and m_i32b.  A double is NaN or a number. *)
(***************************************************************************)
EXTENDS Integers

CONSTANTS
  Half,    \* how many values an int32_t has: 2^32 in the code
  Heap     \* address -> [kind : {"Double"}, v], [kind : {"String"}, v] with v
           \* the length, or [kind : {"Object"}, v]

ASSUME HeapAssumption ==
  /\ Half \in Nat \ {0} /\ Half % 32 = 0
  /\ \A a \in DOMAIN Heap : a \in Nat /\ a % 16 = 0 /\ a > 16

VARIABLES
  oop,      \* m_full
  value,    \* history: the JavaScript value meant
  from      \* history: the constructor, "i32", "pointer" or "object"

wordVars == <<oop, value, from>>

NaN  == Half      \* as a double's value; no int32_t is it

\* enum Type.
kDouble    == 0
kSmi       == 1
kUndefined == 2
kNull      == 4
kBoolean   == 6
kBigInt    == 8
kSymbol    == 10
kString    == 12
kObject    == 14

\* The values of the language.
Number(n)  == [v |-> n, t |-> "Number"]
Str(n)     == [v |-> n, t |-> "String"]
Bool(b)    == [v |-> IF b THEN 1 ELSE 0, t |-> "Boolean"]
Undefined  == [v |-> 0, t |-> "Undefined"]
Null       == [v |-> 0, t |-> "Null"]
Object(a)  == [v |-> a, t |-> "Object"]
Wild       == [v |-> 0, t |-> "Wild"]     \* read through no heap address

(***************************************************************************)
(* Oop's constructors; the singletons are pointers to no object.           *)
(***************************************************************************)
FromI32(i)          == (i % Half) + Half
FromPointer(a, tag) == a + tag
FromObject(a)       == FromPointer(a, kObject)

undefined == FromPointer(0, kUndefined)
null      == FromPointer(0, kNull)
true      == FromPointer(16, kBoolean)     \* 0x16 | kBoolean
false     == FromPointer(0, kBoolean)

(***************************************************************************)
(* Reading a word.                                                         *)
(***************************************************************************)
\* Mutant: three bits of type.
TagOfThreeBits(w) == w % 8

isSmi(w) == w % 2 = 1
Tag(w)   == w % 16
Type(w)  == IF isSmi(w) THEN kSmi ELSE Tag(w)
addrT(w) == w - (w % 16)

asI32(w) == LET low == w % Half IN IF 2 * low >= Half THEN low - Half ELSE low

\* A double's address is the whole word.
Dbl(w) == IF w \in DOMAIN Heap /\ Heap[w].kind = "Double" THEN Number(Heap[w].v) ELSE Wild

\* The value of a word, read by its type as Oop::print reads it; of a boolean and an
\* object, print shows the type and the kind alone.
ReadOut(w) ==
  CASE Type(w) = kSmi       -> Number(asI32(w))
    [] Type(w) = kDouble    -> Dbl(w)
    [] Type(w) = kUndefined -> Undefined
    [] Type(w) = kNull      -> Null
    [] Type(w) = kBoolean   -> Bool(w = true)
    [] Type(w) = kString    -> IF addrT(w) \in DOMAIN Heap THEN Str(Heap[addrT(w)].v) ELSE Wild
    [] Type(w) = kObject    -> Object(addrT(w))
    [] OTHER                -> Wild

(***************************************************************************)
(* The conversions.                                                        *)
(***************************************************************************)
\* Mutant: NaN is like any number that is not zero.
ToBooleanOfNaN(w) ==
  \/ isSmi(w) /\ asI32(w) # 0
  \/ Type(w) = kDouble /\ Dbl(w).v # 0
  \/ Type(w) = kBoolean /\ w = true
  \/ Type(w) = kString /\ ReadOut(w).v = 0
  \/ Type(w) = kObject

JS_ToBoolean(w) ==
  \/ isSmi(w) /\ asI32(w) # 0
  \/ Type(w) = kDouble /\ Dbl(w).v \notin {NaN, 0}
  \/ Type(w) = kBoolean /\ w = true
  \/ Type(w) = kString /\ ReadOut(w).v = 0
  \/ Type(w) = kObject

\* The other types: abort().
Aborts(w) == Type(w) \notin {kSmi, kDouble, kUndefined, kNull, kBoolean, kString, kObject}

\* makeDouble gives a new PrimDesc; any address that holds the double will do.
MadeDouble(n) ==
  {FromPointer(a, kDouble) : a \in {b \in DOMAIN Heap : Heap[b].kind = "Double" /\ Heap[b].v = n}}

Converts(w) == Type(w) \in {kSmi, kDouble, kUndefined, kNull, kBoolean}

JS_ToNumber(w) ==
  CASE Type(w) \in {kSmi, kDouble} -> {w}
    [] Type(w) = kUndefined        -> MadeDouble(NaN)
    [] Type(w) = kNull             -> {FromI32(0)}
    [] Type(w) = kBoolean          -> {FromI32(IF w = true THEN 1 ELSE 0)}

-----------------------------------------------------------------------------
(***************************************************************************)
(* A word is made, and converted.                                          *)
(***************************************************************************)
Let(w, meant, constructor) == oop' = w /\ value' = meant /\ from' = constructor

LetSmi == \E i \in -(Half \div 2) .. (Half \div 2) - 1 : Let(FromI32(i), Number(i), "i32")

LetPointer ==
  \E a \in DOMAIN Heap :
    \/ Heap[a].kind = "Double" /\ Let(FromPointer(a, kDouble), Number(Heap[a].v), "pointer")
    \/ Heap[a].kind = "String" /\ Let(FromPointer(a, kString), Str(Heap[a].v), "pointer")

LetObject == \E a \in DOMAIN Heap : Heap[a].kind = "Object" /\ Let(FromObject(a), Object(a), "object")

LetSingleton ==
  \/ Let(undefined, Undefined, "pointer")
  \/ Let(null, Null, "pointer")
  \/ Let(true, Bool(TRUE), "pointer")
  \/ Let(false, Bool(FALSE), "pointer")

\* What ES2022 says of the value.
NumberOf(v) ==
  CASE v.t = "Number"    -> v
    [] v.t = "Undefined" -> Number(NaN)
    [] v.t = "Null"      -> Number(0)
    [] v.t = "Boolean"   -> Number(v.v)

BooleanOf(v) ==
  \/ v.t = "Number" /\ v.v \notin {NaN, 0}
  \/ v.t = "String" /\ v.v # 0
  \/ v.t = "Boolean" /\ v.v = 1
  \/ v.t = "Object"

ToNumber ==
  /\ Converts(oop) /\ value.t \in {"Number", "Undefined", "Null", "Boolean"}
  /\ \E w \in JS_ToNumber(oop) :
       Let(w, NumberOf(value), IF value.t \in {"Null", "Boolean"} THEN "i32" ELSE from)

WordInit == oop = undefined /\ value = Undefined /\ from = "pointer"

WordNext == LetSmi \/ LetPointer \/ LetObject \/ LetSingleton \/ ToNumber

WordSpec == WordInit /\ [][WordNext]_wordVars
-----------------------------------------------------------------------------
(***************************************************************************)
(* Properties.                                                             *)
(***************************************************************************)
\* The word is no int32_t, or one whose lowest bit makes it a small integer.
Tagged == from = "i32" => isSmi(oop)

\* Whatever a value is and however it was converted, its word is shown as that value
\* and no other: no two values share a word, and the sign of an int32_t, the type of
\* a pointer and its address are all read back.  Even integers excepted.
ReadsBack == Tagged => ReadOut(oop) = value

\* A condition is taken as the language takes the value, whatever its type, but for
\* strings and even integers.
BooleansAgree ==
  Tagged /\ value.t # "String" => ~Aborts(oop) /\ (JS_ToBoolean(oop) <=> BooleanOf(value))
=============================================================================
