------------------------------ MODULE Tensors ------------------------------
(***************************************************************************)
(* Elements, shapes and strided access maps, shared by the source programs *)
(* and by the instructions they are lowered to.                            *)
(*                                                                         *)
(* Elements are the integers -Top .. Top with the arithmetic of the prime  *)
(* field of order 2 * Top + 1.  A rewrite that is valid algebra for real   *)
(* numbers (x*s + t twice is x*(s*s') + ...) is valid there, one that is   *)
(* not shows on some element, and every intermediate value stays small.    *)
(* -Top and Top play the infinities: the identities of max and min.  A     *)
(* function with no algebra in this code (exp, tanh, sqrt, ...) is a fixed *)
(* polynomial of its own, so no law of it can be taken for granted.        *)
(*                                                                         *)
(* A tensor is a function from its row-major element numbers 0 .. n - 1.   *)
(* Axes are numbered from 1.                                               *)
(***************************************************************************)
EXTENDS Integers, Sequences, FiniteSets, TLC

CONSTANT Top

ASSUME PrimeField == \A d \in 2 .. Top : (2 * Top + 1) % d # 0

Elem == -Top .. Top

Wrap(x) == ((x + Top) % (2 * Top + 1)) - Top

Inverses == [x \in Elem |->
               IF x = 0 THEN 0 ELSE CHOOSE y \in Elem : Wrap(x * y) = 1]

Inv(x) == Inverses[x]

Larger(x, y)  == IF x > y THEN x ELSE y
Smaller(x, y) == IF x < y THEN x ELSE y

\* A function the code knows no law of: a cubic of its own per name.
Cubic(c, x) == Wrap(Wrap(Wrap((c[1] * x + c[2]) * x) + c[3]) * x + c[4])

Opaque(name, x) ==
  Cubic(CASE name = "exponential" -> <<3, 1, 5, 2>> [] name = "log"   -> <<2, 7, 1, 3>>
          [] name = "sqrt"        -> <<5, 3, 2, 7>> [] name = "tanh"  -> <<7, 2, 3, 1>>
          [] name = "floor"       -> <<4, 9, 1, 6>> [] name = "ceil"  -> <<9, 4, 6, 1>>
          [] name = "sine"        -> <<6, 5, 9, 4>> [] name = "trunc" -> <<8, 3, 7, 5>>
          [] OTHER                -> <<1, 8, 4, 9>>, x)

(* Elementwise functions *)

UnaryFn(name, x) ==
  CASE name = "negate" -> Wrap(-x)
    [] name = "abs"    -> IF x < 0 THEN -x ELSE x
    [] name = "sign"   -> IF x > 0 THEN 1 ELSE IF x < 0 THEN -1 ELSE 0
    [] name = "rsqrt"  -> Inv(Opaque("sqrt", x))
    [] name = "is_finite" -> IF x \in {-Top, Top} THEN 0 ELSE 1
    [] OTHER           -> Opaque(name, x)

BinaryFn(name, x, y) ==
  CASE name = "add"      -> Wrap(x + y)
    [] name = "subtract" -> Wrap(x - y)
    [] name = "multiply" -> Wrap(x * y)
    [] name = "divide"   -> Wrap(x * Inv(y))
    [] name = "maximum"  -> Larger(x, y)
    [] name = "minimum"  -> Smaller(x, y)
    [] name = "and"      -> IF x # 0 /\ y # 0 THEN 1 ELSE 0
    [] name = "or"       -> IF x # 0 \/ y # 0 THEN 1 ELSE 0
    [] name = "xor"      -> IF (x # 0) # (y # 0) THEN 1 ELSE 0
    [] name = "power" /\ y = Wrap(-Inv(2)) -> UnaryFn("rsqrt", x)
    [] OTHER             -> Wrap(Opaque(name, x) + 3 * y)

Holds(direction, x, y) ==
  CASE direction = "EQ" -> x = y [] direction = "NE" -> x # y
    [] direction = "LT" -> x < y [] direction = "LE" -> x <= y
    [] direction = "GT" -> x > y [] direction = "GE" -> x >= y

\* Where a reduction starts: what it leaves unchanged.
Identity(fn) ==
  CASE fn \in {"add", "or", "xor"} -> 0
    [] fn \in {"multiply", "and"}  -> 1
    [] fn = "maximum"              -> -Top
    [] fn = "minimum"              -> Top

RECURSIVE Reduce(_, _, _)
\* f folded over the sequence s of elements, from x.
Reduce(fn, x, s) ==
  IF s = <<>> THEN x ELSE Reduce(fn, BinaryFn(fn, x, Head(s)), Tail(s))

SumOf(s) == Reduce("add", 0, s)

(* Shapes *)

RECURSIVE Prod(_)
Prod(s) == IF s = <<>> THEN 1 ELSE Head(s) * Prod(Tail(s))

RECURSIVE Dot(_, _)
Dot(s, t) == IF s = <<>> THEN 0 ELSE Head(s) * Head(t) + Dot(Tail(s), Tail(t))

\* _row_major_strides
Strides(shape) ==
  [d \in DOMAIN shape |-> Prod(SubSeq(shape, d + 1, Len(shape)))]

\* The coordinates of element i, numbered from 0 on every axis.
Coord(shape, i) ==
  [d \in DOMAIN shape |-> (i \div Prod(SubSeq(shape, d + 1, Len(shape)))) % shape[d]]

Flat(shape, c) == Dot(c, Strides(shape))

Inside(shape, c) == \A d \in DOMAIN shape : c[d] \in 0 .. shape[d] - 1

Numbers(n) == [k \in 1 .. n |-> k - 1]

Range1(s) == {s[k] : k \in DOMAIN s}

Total(s) == Dot(s, [k \in DOMAIN s |-> 1])

(* Tensors *)

Tensor(shape, F(_)) == [i \in 0 .. Prod(shape) - 1 |-> F(Coord(shape, i))]

At(x, shape, c) == x[Flat(shape, c)]

(* Strided access maps: element i is read at off plus its walk *)

View(dims, strides, off) == [dims |-> dims, strides |-> strides, off |-> off]

Walk(v, i) == v.off + Dot(Coord(v.dims, i), v.strides)

Clamp(x, hi) == Smaller(Larger(x, 0), hi)

\* The position of x in the sequence s.
Position(s, x) == CHOOSE k \in DOMAIN s : s[k] = x

Without(s, T) == SelectSeq(s, LAMBDA x : x \notin T)

Axes(shape) == [d \in DOMAIN shape |-> d]
=============================================================================
