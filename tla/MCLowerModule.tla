--------------------------- MODULE MCLowerModule ---------------------------
(***************************************************************************)
(* Small programs with loops, branches, calls and the patterns the passes  *)
(* look for, with the near misses that must be left alone.                 *)
(***************************************************************************)
EXTENDS LowerModule, OpSamples

Do(name, args, r, at) == Op(name, args, <<r>>, at)
Un(name, a, r)        == Do(name, <<a>>, r, NoAttrs)
Bin(name, a, b, r)    == Do(name, <<a, b>>, r, NoAttrs)
Const(r, x)           == Do("constant", <<>>, r, [data |-> Scalar(x)])
Spread(a, r)          == Do("broadcast_in_dim", <<a>>, r, [dims |-> <<>>])

RECURSIVE Named(_)
\* The values that occur in the operations ops.
Named(ops) ==
  LET In(r) == Range1(r.args) \cup Named(r.ops)
      Inner(op) == CASE op.name = "while" -> In(op.at.cond) \cup In(op.at.body)
                  [] op.name = "call"  -> In(op.at.callee)
                  [] op.name \in {"if", "case"} -> UNION {In(op.at.branches[k]) : k \in DOMAIN op.at.branches}
                  [] OTHER -> {}
  IN UNION {Range1(ops[k].args) \cup Range1(ops[k].res) \cup Inner(ops[k]) : k \in DOMAIN ops}

\* Arguments <<name, tensor>>; types of the values that are not vectors of
\* two floats.
Program(args, types, ops, ret) ==
  LET names == {args[k][1] : k \in DOMAIN args} \cup Named(ops)
  IN [args |-> [k \in DOMAIN args |-> args[k][1]],
      x    |-> [k \in DOMAIN args |-> args[k][2]],
      ty   |-> [v \in names |-> IF v \in DOMAIN types THEN types[v] ELSE F(<<2>>)],
      ops  |-> ops, ret |-> ret, refused |-> FALSE]

Types(names, t) == [v \in names |-> t]

Vec(v, seed) == <<v, Data(2, seed)>>

X == Vec("x", 3)
Y == Vec("y", -40)

(* Loops: a counter i and two carries a, b *)

Counter == Types({"zero", "one", "lim", "i", "ic", "ib", "inext", "iout"}, I(<<>>)) @@ ("p" :> B(<<>>))

\* Counted from 0 up to trips, or up from the argument "start" (then the trip
\* count is not known).
Loop(counted, trips, body, ret) ==
  LET cond == Region(<<"ic", "ac", "bc">>,
                     <<Const("lim", trips), Do("compare", <<"ic", "lim">>, "p", [dir |-> "LT"])>>, <<"p">>)
      step == <<Const("one", 1), Bin("add", "ib", "one", "inext")>>
  IN Op("while", <<IF counted THEN "zero" ELSE "start", "x", "y">>, <<"iout", "aout", "bout">>,
        [cond |-> cond,
         body |-> Region(<<"ib", "a", "b">>, step \o body, <<"inext">> \o ret)])

LoopProgram(counted, trips, body, ret, after, out) ==
  Program(<<X, Y, <<"start", Scalar(0)>>>>, Counter @@ ("start" :> I(<<>>)),
          <<Const("zero", 0), Loop(counted, trips, body, ret)>> \o after, out)

\* Two operations on the carries and a value from outside the loop.
Bodies1 ==
  {<<Bin(f, u, v, "s"), w>> :
     f \in {"add", "multiply"}, u \in {"a", "b"}, v \in {"a", "b", "x"},
     w \in {Un("negate", "b", "t"), Un("negate", "s", "t"), Bin("subtract", "a", "s", "t"),
            Bin("multiply", "b", "x", "t")}}

\* The carries take two new values, one of them or none: all but the ones of
\* which a carry gets another's, or both the same, old or new.
Safe == {<<"s", "t">>, <<"t", "s">>, <<"a", "t">>, <<"s", "b">>, <<"t", "b">>, <<"a", "b">>}

Carried ==
  {LoopProgram(c[1], c[2], body, ret, <<>>, <<"aout", "bout">>) :
     c \in {<<TRUE, 2>>, <<TRUE, 3>>, <<FALSE, 2>>}, body \in Bodies1, ret \in Safe}

\* Swaps, which nothing writes in place.
Swapped ==
  {LoopProgram(c, 3, <<>>, <<"b", "a">>, <<>>, <<"aout", "bout">>) : c \in BOOLEAN}

\* k times a plus 1, a chain of two affines that becomes one in the body.
Factor(r) == <<Const("k", 3), Spread("k", "kk"), Bin("multiply", "a", "kk", r)>>

Affines ==
  {[LoopProgram(c[1], c[2],
        Factor("s") \o <<Const("m", 1), Spread("m", "mm"), Bin("add", "mm", "s", "t"),
                         Bin("multiply", u, "b", "w")>>,
        ret, <<Bin("add", "aout", "bout", "r")>>, <<"r">>)
      EXCEPT !.ty = Types({"k", "m"}, F(<<>>)) @@ @] :
   c \in {<<TRUE, 2>>, <<TRUE, 3>>, <<FALSE, 2>>}, u \in {"s", "t", "b"},
   ret \in {<<"t", "b">>, <<"t", "w">>}}

\* Rows stacked into a carry ys at the counter, as a scan does; the carry may
\* also be read, before or after.
StackTypes ==
  Counter @@ Types({"ys", "ys0", "ysout", "new", "z4"}, F(<<4>>)) @@ Types({"e", "g", "start"}, F(<<>>))
    @@ Types({"row", "old", "a", "x", "s", "aout", "ac"}, F(<<1>>)) @@ ("yc" :> F(<<4>>))

Stacking(trips, extra, row, ret, out) ==
  LET cond == Region(<<"ic", "ac", "yc">>,
                     <<Const("lim", trips), Do("compare", <<"ic", "lim">>, "p", [dir |-> "LT"])>>, <<"p">>)
      body == Region(<<"ib", "a", "ys">>,
                     <<Const("one", 1), Bin("add", "ib", "one", "inext")>> \o extra \o
                     <<Bin("add", "a", "a", "s"),
                       Do("dynamic_update_slice", <<"ys", row, "ib">>, "new", NoAttrs)>>, ret)
  IN Program(<<<<"x", Data(1, 3)>>, <<"ys0", Data(4, 9)>>>>, StackTypes,
             <<Const("zero", 0), Op("while", <<"zero", "x", "ys0">>, <<"iout", "aout", "ysout">>,
                                    [cond |-> cond, body |-> body])>>, out)

Stacked ==
  {Stacking(n, <<>>, row, <<"inext", a, "new">>, <<"ysout", "aout">>) :
     n \in {1, 3, 4}, row \in {"a", "s"}, a \in {"a", "s"}} \cup
  {Stacking(3, <<Do("dynamic_slice", <<"ys", "ib">>, "old", NoAttrs)>>, row,
            <<"inext", "old", "new">>, <<"ysout", "aout">>) : row \in {"a", "old", "s"}}

(* Branches *)

Arm(ops, r) == Region(<<>>, ops, <<r>>)

CaseOf(n) ==
  Op("case", <<"j">>, <<"r">>,
     [branches |-> SubSeq(<<Arm(<<Bin("multiply", "x", "q", "u1")>>, "u1"),
                            Arm(<<>>, "y"),
                            Arm(<<Un("negate", "q", "u2"), Bin("add", "u2", "y", "u3")>>, "u3")>>, 1, n)])

Cases ==
  {Program(<<X, Y, <<"j", Scalar(j)>>>>, "j" :> I(<<>>),
           <<Bin("add", "x", "y", "q"), CaseOf(n), Bin("subtract", "r", "q", "t")>>, <<"t", "r">>) :
     n \in 1 .. 3, j \in {-1, 0, 1, 2, 7}}

\* An if, its predicate a comparison; the branches may hold ifs in turn.
IfOn(pred, then, other, r) ==
  Op("if", <<pred>>, <<r>>, [branches |-> <<other, then>>])

Ifs ==
  {Program(<<X, Y, <<"j", Scalar(j[1])>>, <<"l", Scalar(j[2])>>>>,
           Types({"j", "l"}, F(<<>>)) @@ Types({"p", "pp"}, B(<<>>)),
           <<Bin("add", "x", "y", "q"), Do("compare", <<"j", "l">>, "p", [dir |-> "LT"]),
             IfOn("p", Arm(<<Bin("multiply", "q", "x", "u1")>>, "u1"),
                  IF nested
                  THEN Arm(<<Bin("multiply", "q", "y", "u2"), Do("compare", <<"j", "l">>, "pp", [dir |-> "EQ"]),
                             IfOn("pp", Arm(<<Un("negate", "u2", "u3")>>, "u3"), Arm(<<>>, "q"), "u4")>>, "u4")
                  ELSE Arm(<<>>, "y"), "r")>>, <<"r">>) :
   j \in {<<1, 2>>, <<2, 2>>, <<2, 1>>}, nested \in BOOLEAN}

\* A branch in the body of a loop that stays a loop, and a loop in a branch.
Mixed ==
  {[LoopProgram(c[1], c[2], <<Do("compare", <<"ib", "one">>, "pb", [dir |-> d]),
                      IfOn("pb", Arm(<<Bin("add", "a", "x", "u1")>>, "u1"),
                           Arm(<<Bin("multiply", "a", "b", "u2")>>, "u2"), "s"),
                      Un("negate", "b", "t")>>, ret, <<>>, <<"aout", "bout">>)
      EXCEPT !.ty = ("pb" :> B(<<>>)) @@ @] :
   c \in {<<TRUE, 3>>, <<FALSE, 2>>}, d \in {"LT", "EQ"}, ret \in {<<"s", "t">>, <<"s", "b">>}} \cup
  {Program(<<X, Y, <<"start", Scalar(0)>>, <<"j", Scalar(j)>>>>,
           Counter @@ ("start" :> I(<<>>)) @@ ("j" :> B(<<>>)),
           <<Const("zero", 0),
             IfOn("j", Arm(<<Loop(counted, 3, <<Bin("add", "a", "b", "s"), Un("negate", "b", "t")>>,
                                  <<"s", "b">>)>>, "aout"), Arm(<<>>, "y"), "r")>>, <<"r">>) :
   j \in {0, 1}, counted \in BOOLEAN}

\* Of two nested loops the inner runs on the outer's carries.
Nested ==
  LET inner(n) ==
        Op("while", <<"one", "a", "b">>, <<"jout", "ain", "bin">>,
           [cond |-> Region(<<"jc", "ad", "bd">>,
                            <<Const("jlim", n), Do("compare", <<"jc", "jlim">>, "q", [dir |-> "LT"])>>, <<"q">>),
            body |-> Region(<<"j", "e", "f">>,
                            <<Const("jone", 1), Bin("add", "j", "jone", "jnext"), Bin("multiply", "e", "x", "g"),
                              Bin("add", "e", "f", "h")>>, <<"jnext", "g", "h">>)])
  IN {[LoopProgram(c[1], c[2], <<inner(nr[1]), Bin("subtract", "ain", "bin", "s")>>, nr[2], <<>>,
                   <<"aout", "bout">>)
         EXCEPT !.ty = Types({"jout", "jc", "jlim", "j", "jone", "jnext"}, I(<<>>)) @@ ("q" :> B(<<>>)) @@ @] :
      c \in {<<TRUE, 2>>, <<FALSE, 2>>, <<TRUE, 3>>},
      \* an inner loop of no trips hands the outer's carry on
      nr \in ({1, 2, 3} \X {<<"s", "b">>, <<"a", "bin">>, <<"s", "ain">>}) \ {<<1, <<"s", "ain">>>>}}

(* Calls *)

\* f(c) = -(c * x) or its argument; the second call takes the first's result.
Calls ==
  LET f(r) == Region(<<"c">>, <<Bin("multiply", "c", "c", "cc"), Un("negate", "cc", "d")>>, <<r>>)
      Call(a, r, w) == Op("call", <<a>>, <<w>>, [callee |-> f(r)])
  IN {Program(<<X, Y>>, <<>>,
              <<Call("x", r, "u"), Call(v, r, "w"), Bin("add", "u", "w", "t")>>, <<"t", "u">>) :
        r \in {"d", "cc", "c"}, v \in {"u", "y"}} \cup
     {LoopProgram(counted, 3, <<Call("a", "d", "s"), Call("b", "d", "t")>>, <<"s", "t">>, <<>>,
                  <<"aout", "bout">>) : counted \in BOOLEAN}

(* Views *)

Swap(a, r)  == Do("transpose", <<a>>, r, [perm |-> <<2, 1>>])
Rows(a, r)  == Do("broadcast_in_dim", <<a>>, r, [dims |-> <<2>>])
Sum(a, r)   == Do("reduce", <<a, "nil">>, r, [dims |-> {2}, body |-> <<"add">>])
Nil         == Const("nil", 0)
MatMul(a, b, r) == Do("dot_general", <<a, b>>, r, [lb |-> <<>>, rb |-> <<>>, lc |-> 2, rc |-> 1])

\* Square matrices but for the values named; vec: vectors.
Matrices(args, vec, ops, ret) ==
  LET v == Types(vec, F(<<2>>)) @@ ("nil" :> F(<<>>))
      p == Program(args, v, ops, ret)
  IN [p EXCEPT !.ty = [n \in DOMAIN @ |-> IF n \in DOMAIN v \/ @[n].shape = <<>> THEN @[n] ELSE F(<<2, 2>>)]]

MX == <<"x", Data(4, 3)>>
MY == <<"y", Data(4, -40)>>
MZ == <<"z", Data(4, 71)>>

\* A moved operand with readers that can look through the move and readers
\* that cannot, and a move of a move; the move may be a result itself.
Moved ==
  LET readers ==
        {Bin("subtract", "t", "y", "r"), Bin("divide", "y", "t", "r"), Bin("multiply", "t", "t", "r"),
         Un("exponential", "t", "r"), Swap("t", "r"), Sum("t", "r"), MatMul("t", "y", "r"),
         MatMul("y", "t", "r"), MatMul("t", "t", "r")}
  IN {Matrices(<<MX, MY>>, {"v"} \cup (IF f.name = "reduce" THEN {"r"} ELSE {}),
               <<Nil, move, f, g>>, IF g.res[1] = "v" THEN <<"r", "v">> ELSE <<"r", "w">> \o out) :
        move \in {Swap("x", "t"), Do("reverse", <<"x">>, "t", [dims |-> {1}])}, f \in readers,
        g \in {Un("sqrt", "t", "w"), Sum("t", "v"), Bin("maximum", "x", "t", "w"), MatMul("x", "t", "w")},
        out \in {<<>>, <<"t">>}}

\* A vector spread over the rows, and an updated operand, which is written
\* twice and so is no move.
Spreads ==
  {Matrices(<<MX, Vec("b", 9)>>, {"b"}, <<Rows("b", "t"), Bin(f, "x", "t", "u"), Bin("add", "t", "u", "r")>>,
            <<"r">>) : f \in {"add", "divide"}} \cup
  {Program(<<<<"x", Data(4, 3)>>, Vec("u", 9), <<"j", Scalar(j)>>>>,
           Types({"x", "t", "r"}, F(<<4>>)) @@ ("j" :> I(<<>>)),
           <<Do("dynamic_update_slice", <<"x", "u", "j">>, "t", NoAttrs), Bin("subtract", "t", "x", "r")>>,
           <<"r">> \o out) : j \in {1, 5}, out \in {<<>>, <<"t">>}}

\* Moves of a carry in a loop that writes it.
MovedCarry ==
  {LoopProgram(c[1], c[2], <<Do("reverse", <<"a">>, "t", [dims |-> {1}]), Bin("subtract", "t", "b", "s"),
                             Un("negate", u, "w")>>, ret, <<>>, <<"aout", "bout">>) :
     c \in {<<TRUE, 2>>, <<TRUE, 3>>, <<FALSE, 2>>}, u \in {"t", "b", "s"},
     ret \in {<<"s", "w">>, <<"w", "b">>, <<"t", "w">>}}

(* What follows a matmul *)

\* A scale, a residual and a bias behind a product; the residual may come
\* too late, the product may be a result or used twice.
Epilogues ==
  {LET p == Matrices(<<MX, MY, MZ>>, {},
                     <<Const("k", 3), Spread("k", "kk"), MatMul("x", "y", "d"), Bin("multiply", "d", "kk", "m"),
                       Un("exponential", "z", "late"), Bin(f, "m", res, "e"), Bin("add", "kk", "e", "r")>>,
                     <<"r">> \o out)
   IN [p EXCEPT !.ty.k = F(<<>>)] :
   f \in {"add", "subtract"}, res \in {"z", "late", "d", "m"}, out \in {<<>>, <<"d">>, <<"m">>}}

(* Patterns *)

\* exp(x - max x) / sum exp(x - max x) over rows, and near misses: another
\* operand u of the difference, w of the exponential, q of the quotient.
Softmax(u, w, q) ==
  LET p == Matrices(<<MX, MY>>, {"top", "tot"},
        <<Const("low", -Top), Nil, Do("reduce", <<"x", "low">>, "top", [dims |-> {2}, body |-> <<"maximum">>]),
          Do("broadcast_in_dim", <<"top">>, "tops", [dims |-> <<1>>]), Bin("subtract", u, "tops", "d"),
          Un("exponential", w, "e"), Sum("e", "tot"),
          Do("broadcast_in_dim", <<"tot">>, "tots", [dims |-> <<1>>]), Bin("divide", "e", q, "r")>>, <<"r">>)
  IN [p EXCEPT !.ty.low = F(<<>>)]

Softmaxes ==
  {Softmax(u, w, q) : u \in {"x", "y"}, w \in {"d", "x"}, q \in {"tots", "tops"}} \cup
  {[Softmax("x", "d", "tots") EXCEPT !.ret = <<"r", v>>] : v \in {"e", "d", "tot"}}

\* (x - mean) * (var + eps) ^ -1/2 over rows; near misses in the squared
\* value u, the divisor k of the variance and the exponent w.
LayerNorm(u, k, w) ==
  LET p == Matrices(<<MX, MY>>, {"sum", "sum2", "mean", "var", "vare", "std", "n", "k", "eps", "w"},
        <<Nil, Do("constant", <<>>, "n", [data |-> [i \in 0 .. 1 |-> 2]]),
          Do("constant", <<>>, "k", [data |-> [i \in 0 .. 1 |-> k]]),
          Do("constant", <<>>, "w", [data |-> [i \in 0 .. 1 |-> w]]),
          Const("ep", 7), Spread("ep", "eps"), Sum("x", "sum"), Bin("divide", "sum", "n", "mean"),
          Do("broadcast_in_dim", <<"mean">>, "means", [dims |-> <<1>>]), Bin("subtract", "x", "means", "c"),
          Bin("multiply", u, u, "sq"), Sum("sq", "sum2"), Bin("divide", "sum2", "k", "var"),
          Bin("add", "var", "eps", "vare"), Bin("power", "vare", "w", "std"),
          Do("broadcast_in_dim", <<"std">>, "stds", [dims |-> <<1>>]), Bin("multiply", "c", "stds", "r")>>, <<"r">>)
  IN [p EXCEPT !.ty.ep = F(<<>>)]

LayerNorms ==
  {LayerNorm("c", 2, Wrap(-Half)), LayerNorm("x", 2, Wrap(-Half)), LayerNorm("c", 3, Wrap(-Half)),
   LayerNorm("c", 2, Half)} \cup
  {[LayerNorm("c", 2, Wrap(-Half)) EXCEPT !.ret = <<"r", v>>] : v \in {"c", "var", "mean"}}

\* x/2 * (1 + tanh(GeluScale * (x + GeluCube * x^3))), the half on either
\* factor; near misses in the cube and in the half.
GeluProgram(u, half, onX) ==
  Program(<<<<"x", Data(3, 3)>>, <<"y", Data(3, -40)>>>>,
          Types({"k", "m", "h", "o"}, F(<<>>)) @@
          Types({"x", "y", "q", "c", "kk", "mm", "hh", "oo", "f", "s", "i", "t", "p", "g", "r"}, F(<<3>>)),
          <<Const("k", GeluCube), Spread("k", "kk"), Const("m", GeluScale), Spread("m", "mm"),
            Const("h", half), Spread("h", "hh"), Const("o", 1), Spread("o", "oo"),
            Bin("multiply", "x", "x", "q"), Bin("multiply", "q", u, "c"), Bin("multiply", "c", "kk", "f"),
            Bin("add", "x", "f", "s"), Bin("multiply", "s", "mm", "i"), Un("tanh", "i", "t"),
            Bin("add", "oo", "t", "p"), Bin("multiply", IF onX THEN "x" ELSE "p", "hh", "g"),
            Bin("multiply", "g", IF onX THEN "p" ELSE "x", "r")>>, <<"r">>)

Gelus ==
  {GeluProgram(u, half, onX) : u \in {"x", "y"}, half \in {Half, 2}, onX \in BOOLEAN} \cup
  {[GeluProgram("x", Half, TRUE) EXCEPT !.ret = <<"r", v>>] : v \in {"t", "c"}}

(* Runs of elementwise operations *)

\* Two chains that share a value, of one or two results, in the root or in a
\* loop; longer than the slots hold.
Chains ==
  {[LoopProgram(c[1], c[2],
       <<Bin("add", "a", "x", "s1"), Un("sqrt", "s1", "s2"), Bin("multiply", "s1", "b", "s3"),
         Bin("subtract", "s2", u, "s4"), Bin("maximum", "s3", "s4", "s5"), Bin("add", "s5", v, "s6"),
         Un("tanh", "s6", "s7")>>, ret, <<Bin("add", "aout", "bout", "r1"), Un("exponential", "r1", "r2"),
         Bin("multiply", "r2", "aout", "r3")>>, <<"r3", "bout">>)
      EXCEPT !.ty = [n \in DOMAIN @ |-> IF @[n] = F(<<2>>) THEN F(<<3>>) ELSE @[n]],
             !.x  = <<Data(3, 3), Data(3, -40), @[3]>>] :
   c \in {<<TRUE, 2>>, <<TRUE, 3>>, <<FALSE, 2>>}, u \in {"s3", "x"}, v \in {"s2", "y"},
   ret \in {<<"s7", "b">>, <<"s7", "s4">>, <<"s3", "s7">>}}

MCPrograms ==
  OpPrograms \cup Carried \cup Swapped \cup Affines \cup Stacked \cup Cases \cup Ifs \cup Mixed
    \cup Nested \cup Calls \cup Moved \cup Spreads \cup MovedCarry \cup Epilogues \cup Softmaxes
    \cup LayerNorms \cup Gelus \cup Chains

(* Programs whose meaning is lost: the first four kinds in runs of their own, *)
(* the last two for Programs to be set to                                    *)

\* A branch of a loop that is unrolled reads a carry; a callee with a branch
\* on its argument is called twice.
CaptureLost ==
  LET branch == IfOn("pb", Arm(<<Bin("add", "a", "x", "u1")>>, "u1"), Arm(<<>>, "b"), "s")
      f == Region(<<"c">>, <<IfOn("pb", Arm(<<Un("negate", "c", "u1")>>, "u1"), Arm(<<>>, "c"), "d")>>, <<"d">>)
      Call(a, w) == Op("call", <<a>>, <<w>>, [callee |-> f])
  IN {[LoopProgram(TRUE, 2, <<Do("compare", <<"ib", "one">>, "pb", [dir |-> "LE"]), branch>>,
                   <<"s", "b">>, <<>>, <<"aout", "bout">>) EXCEPT !.ty = ("pb" :> B(<<>>)) @@ @],
      Program(<<X, Y, <<"pb", Scalar(1)>>>>, "pb" :> B(<<>>),
              <<Call("x", "u"), Call("y", "w"), Bin("subtract", "u", "w", "t")>>, <<"t">>)}

\* A carry takes another's old value, or two carries the same new one.
CommitLost ==
  {LoopProgram(TRUE, 3, <<Bin("add", "a", "b", "s")>>, ret, <<>>, <<"aout", "bout">>) :
     ret \in {<<"b", "s">>, <<"s", "s">>}}

\* A product with an updated operand.
UpdateLost ==
  LET p == Matrices(<<MX, MY, <<"u", Data(2, 9)>>, <<"j", Scalar(1)>>, <<"l", Scalar(0)>>>>, {},
             <<Do("dynamic_update_slice", <<"x", "u", "j", "l">>, "t", NoAttrs), MatMul("y", "t", "r")>>,
             <<"r">>)
  IN {[p EXCEPT !.ty = Types({"j", "l"}, I(<<>>)) @@ ("u" :> F(<<1, 2>>)) @@ @]}

\* An update outside the operand.
ScatterLost ==
  {Straightline(<<Arg("x", F(<<3>>)), <<"i", I(<<2>>), List(<<s, 1>>)>>, Arg("y", F(<<2>>))>>,
          <<Step("scatter", <<"x", "i", "y">>, "r",
               [window |-> {}, dropped |-> {1}, map |-> <<1>>, ivd |-> 2, body |-> body], F(<<3>>))>>) :
     s \in {-1, 3}, body \in {<<>>, <<"add">>}}

\* A softmax or layer norm over rows whose row sums are spread over the columns.
NormLost ==
  LET Turned(p, v) == [p EXCEPT !.ops = [k \in DOMAIN @ |->
                         IF @[k].res = <<v>> THEN [@[k] EXCEPT !.at.dims = <<2>>] ELSE @[k]]]
  IN {Turned(Softmax("x", "d", "tots"), v) : v \in {"tops", "tots"}} \cup
     {Turned(LayerNorm("c", 2, Wrap(-Half)), v) : v \in {"means", "stds"}}

\* A gelu of a matrix whose tanh is taken of the transposed argument.
GeluLost ==
  LET p == GeluProgram("x", Half, TRUE)
      Square(t) == IF t.shape = <<3>> THEN F(<<2, 2>>) ELSE t
      turn == [k \in DOMAIN p.ops |-> IF p.ops[k].name = "tanh" THEN Un("tanh", "it", "t") ELSE p.ops[k]]
      at   == CHOOSE k \in DOMAIN turn : turn[k].name = "tanh"
  IN {[p EXCEPT !.ty  = [v \in DOMAIN p.ty \cup {"it"} |-> IF v = "it" THEN F(<<2, 2>>) ELSE Square(p.ty[v])],
                !.x   = <<Data(4, 3), Data(4, -40)>>,
                !.ops = SubSeq(turn, 1, at - 1) \o <<Swap("i", "it")>> \o SubSeq(turn, at, Len(turn))]}
=============================================================================
