------------------------------ MODULE OpSamples ------------------------------
(***************************************************************************)
(* One small program for every operation and for each route its handler    *)
(* may take, with inputs that differ element by element.                   *)
(***************************************************************************)
EXTENDS SourceProgram

\* n elements, no two alike for small n.
Data(n, seed) == [i \in 0 .. n - 1 |-> Wrap(seed + 11 * i + i * i)]
Truths(n)     == [i \in 0 .. n - 1 |-> IF i % 3 = 1 THEN 0 ELSE 1]
Scalar(x)     == [i \in {0} |-> x]
List(s)       == [i \in 0 .. Len(s) - 1 |-> s[i + 1]]

F(shape) == Type("f32", shape)
I(shape) == Type("i32", shape)
B(shape) == Type("bool", shape)
C(shape) == Type("c64", shape)

\* Arguments <<name, type, tensor>> and steps <<operation, result type>>.
Steps(args, steps, ret) ==
  LET decls == [k \in DOMAIN args |-> <<args[k][1], args[k][2]>>] \o
               [k \in DOMAIN steps |-> <<steps[k][1].res[1], steps[k][2]>>]
  IN [args |-> [k \in DOMAIN args |-> args[k][1]],
      x    |-> [k \in DOMAIN args |-> args[k][3]],
      ty   |-> [v \in {decls[k][1] : k \in DOMAIN decls} |->
                  (CHOOSE d \in Range1(decls) : d[1] = v)[2]],
      ops  |-> [k \in DOMAIN steps |-> steps[k][1]],
      ret  |-> ret,
      refused |-> FALSE]

\* The result is r; a complex one is returned as its two parts.
Straightline(args, steps) == Steps(args, steps, <<"r">>)

Refused(c) == [c EXCEPT !.refused = TRUE]

Arg(v, type) ==
  <<v, type, IF type.dt = "bool" THEN Truths(Prod(type.shape))
             ELSE Data(Prod(type.shape), IF v = "x" THEN 3 ELSE IF v = "y" THEN -40 ELSE 71)>>

Step(name, args, r, at, type) == <<Op(name, args, <<r>>, at), type>>
ConstStep(r, type, x) == Step("constant", <<>>, r, [data |-> x], type)

\* One operation on the arguments x, y, z of these types.
Names == <<"x", "y", "z">>
Single(name, types, at, type) ==
  Straightline([k \in DOMAIN types |-> Arg(Names[k], types[k])],
         <<Step(name, SubSeq(Names, 1, Len(types)), "r", at, type)>>)

Making == {
  Single("iota", <<>>, [dim |-> 2], I(<<2, 3>>)),
  Single("convert", <<F(<<3>>)>>, NoAttrs, I(<<3>>)),
  Single("convert", <<B(<<3>>)>>, NoAttrs, F(<<3>>)),
  Single("bitcast_convert", <<F(<<3>>)>>, NoAttrs, I(<<3>>)),
  Single("bitcast_convert", <<I(<<3>>)>>, NoAttrs, Type("u32", <<3>>)),
  Straightline(<<>>, <<ConstStep("r", F(<<3>>), Data(3, 5))>>)}

Elementwise1 ==
  {Single(u, <<F(<<3>>)>>, NoAttrs, F(<<3>>)) : u \in Unary \ {"is_finite"}} \cup
  {Single(b, <<F(<<3>>), F(<<3>>)>>, NoAttrs, F(<<3>>)) : b \in Binary \ {"and", "or", "xor"}} \cup
  {Single(b, <<B(<<3>>), B(<<3>>)>>, NoAttrs, B(<<3>>)) : b \in {"and", "or", "xor"}} \cup
  {Single("compare", <<F(<<3>>), F(<<3>>)>>, [dir |-> d], B(<<3>>)) : d \in {"EQ", "LT", "GE"}} \cup
  {Single("not", <<B(<<3>>)>>, NoAttrs, B(<<3>>)),
   Single("not", <<I(<<3>>)>>, NoAttrs, I(<<3>>)),
   Single("select", <<B(<<3>>), F(<<3>>), F(<<3>>)>>, NoAttrs, F(<<3>>)),
   Single("clamp", <<F(<<3>>), F(<<3>>), F(<<3>>)>>, NoAttrs, F(<<3>>)),
   Straightline(<<<<"x", F(<<3>>), List(<<-Top, 7, Top>>)>>>>,
          <<Step("is_finite", <<"x">>, "r", NoAttrs, B(<<3>>))>>),
   \* scalar bounds are legal StableHLO, the handler wants equal types
   Refused(Single("clamp", <<F(<<>>), F(<<3>>), F(<<>>)>>, NoAttrs, F(<<3>>)))}

\* A broadcast constant on either side, on both, and of integers.
Folding ==
  {LET side == IF left THEN <<"c", "x">> ELSE <<"x", "c">>
   IN Straightline(<<Arg("x", Type(dt, <<3>>))>>,
             <<ConstStep("k", Type(dt, <<>>), Scalar(4)),
               Step("broadcast_in_dim", <<"k">>, "c", [dims |-> <<>>], Type(dt, <<3>>)),
               Step(name, side, "s", NoAttrs, Type(dt, <<3>>)),
               Step("multiply", <<"s", "c">>, "r", NoAttrs, Type(dt, <<3>>))>>) :
   name \in {"add", "subtract", "multiply"}, left \in BOOLEAN, dt \in {"f32", "i32"}} \cup
  {Straightline(<<>>, <<ConstStep("k", F(<<>>), Scalar(4)),
                  Step("broadcast_in_dim", <<"k">>, "c", [dims |-> <<>>], F(<<3>>)),
                  Step("add", <<"c", "c">>, "r", NoAttrs, F(<<3>>))>>)}

Moves ==
  {Single("broadcast_in_dim", <<F(<<2>>)>>, [dims |-> <<2>>], F(<<3, 2>>)),
   Single("broadcast_in_dim", <<F(<<3, 1>>)>>, [dims |-> <<1, 2>>], F(<<3, 2>>)),
   Single("broadcast_in_dim", <<F(<<2, 3>>)>>, [dims |-> <<3, 1>>], F(<<3, 2, 2>>)),
   Single("broadcast_in_dim", <<F(<<2>>)>>, [dims |-> <<2>>], F(<<1, 2>>)),
   Single("reshape", <<F(<<2, 3>>)>>, NoAttrs, F(<<3, 2>>)),
   Single("optimization_barrier", <<F(<<2>>)>>, NoAttrs, F(<<2>>)),
   Single("sharding_constraint", <<F(<<2>>)>>, NoAttrs, F(<<2>>)),
   Single("slice", <<F(<<3, 4>>)>>, [start |-> <<1, 0>>, stride |-> <<1, 3>>], F(<<2, 2>>)),
   Single("slice", <<F(<<4>>)>>, [start |-> <<0>>, stride |-> <<1>>], F(<<3>>)),
   Single("reverse", <<F(<<2, 3>>)>>, [dims |-> {2}], F(<<2, 3>>)),
   Single("reverse", <<F(<<2, 1>>)>>, [dims |-> {2}], F(<<2, 1>>)),
   Single("transpose", <<F(<<2, 1, 3>>)>>, [perm |-> <<3, 1, 2>>], F(<<3, 2, 1>>)),
   Single("transpose", <<F(<<1, 3>>)>>, [perm |-> <<2, 1>>], F(<<3, 1>>)),
   Single("pad", <<F(<<2, 2>>), F(<<>>)>>,
          [low |-> <<1, 0>>, high |-> <<0, 1>>, interior |-> <<0, 1>>], F(<<3, 4>>)),
   Refused(Single("pad", <<F(<<3>>), F(<<>>)>>,
                  [low |-> <<-1>>, high |-> <<0>>, interior |-> <<0>>], F(<<2>>))),
   Single("concatenate", <<F(<<2, 1>>), F(<<2, 2>>)>>, [dim |-> 2], F(<<2, 3>>)),
   Single("concatenate", <<F(<<1, 2>>), F(<<2, 2>>)>>, [dim |-> 1], F(<<3, 2>>))}

Cut(r, start, stride, n) ==
  Step("slice", <<"x">>, r, [start |-> <<start>>, stride |-> <<stride>>], F(<<n>>))

\* Slices of one value put together: short enough for one gather, twice with
\* the same indices, and too long for one.
Rolls ==
  {Straightline(<<Arg("x", F(<<5>>))>>,
          <<Cut("h", 1, 1, 3), Cut("t", 0, 2, 2),
            Step("concatenate", <<"h", "t">>, "s", [dim |-> 1], F(<<5>>)),
            Step("concatenate", <<"h", "t">>, "u", [dim |-> 1], F(<<5>>)),
            Step("divide", <<"s", "u">>, "r", NoAttrs, F(<<5>>))>>),
   Straightline(<<Arg("x", F(<<5>>))>>,
          <<Cut("h", 2, 1, 3), Cut("t", 0, 1, 4),
            Step("concatenate", <<"h", "t">>, "r", [dim |-> 1], F(<<7>>))>>)}

\* Run-time starts below, in and above the legal range.
DynamicMoves ==
  {Straightline(<<Arg("x", F(<<2, 4>>)), <<"i", I(<<>>), Scalar(s[1])>>, <<"j", I(<<>>), Scalar(s[2])>>>>,
          <<Step("dynamic_slice", <<"x", "i", "j">>, "r", NoAttrs, F(<<1, 3>>))>>) :
     s \in {<<-3, 1>>, <<0, 9>>, <<1, 0>>}} \cup
  {Straightline(<<Arg("x", F(<<5>>)), Arg("y", F(<<2>>)), <<"i", I(<<>>), Scalar(s)>>>>,
          <<Step("dynamic_update_slice", <<"x", "y", "i">>, "r", NoAttrs, F(<<5>>))>>) :
     s \in {-1, 2, 8}} \cup
  \* rows of a table, the vector axis implicit, and windows of two columns
  {Straightline(<<Arg("x", F(<<3, 2>>)), <<"i", I(<<2>>), List(<<s, 2>>)>>>>,
          <<Step("gather", <<"x", "i">>, "r",
               [window |-> {2}, dropped |-> {1}, map |-> <<1>>, ivd |-> 2, sizes |-> <<1, 2>>],
               F(<<2, 2>>))>>) : s \in {-1, 1, 7}} \cup
  {Straightline(<<Arg("x", F(<<2, 4>>)), <<"i", I(<<2, 2>>), List(<<s, 1, 0, 2>>)>>>>,
          <<Step("gather", <<"x", "i">>, "r",
               [window |-> {1, 2}, dropped |-> {}, map |-> <<2, 1>>, ivd |-> 1, sizes |-> <<1, 2>>],
               F(<<1, 2, 2>>))>>) : s \in {0, 9}} \cup
  \* distinct rows are set; rows named twice are combined
  {Straightline(<<Arg("x", F(<<3, 2>>)), <<"i", I(<<2, 1>>), List(<<2, 0>>)>>, Arg("y", F(<<2, 2>>))>>,
          <<Step("scatter", <<"x", "i", "y">>, "r",
               [window |-> {2}, dropped |-> {1}, map |-> <<1>>, ivd |-> 2, body |-> <<>>],
               F(<<3, 2>>))>>)} \cup
  {Straightline(<<Arg("x", F(<<3>>)), <<"i", I(<<4>>), List(<<1, 0, 1, 2>>)>>, Arg("y", F(<<4>>))>>,
          <<Step("scatter", <<"x", "i", "y">>, "r",
               [window |-> {}, dropped |-> {1}, map |-> <<1>>, ivd |-> 2, body |-> <<b>>],
               F(<<3>>))>>) : b \in {"add", "maximum", "minimum"}} \cup
  \* an index out of range, where the elements it is clamped to are not looked at
  {Straightline(<<Arg("x", F(<<3>>)), <<"i", I(<<2>>), List(<<s, 1>>)>>, Arg("y", F(<<2>>))>>,
          <<Step("scatter", <<"x", "i", "y">>, "u",
               [window |-> {}, dropped |-> {1}, map |-> <<1>>, ivd |-> 2, body |-> body], F(<<3>>)),
            Step("slice", <<"u">>, "r", [start |-> <<IF s < 0 THEN 1 ELSE 0>>, stride |-> <<1>>], F(<<2>>))>>) :
     s \in {-4, -1, 3, 9}, body \in {<<>>, <<"add">>, <<"maximum">>}} \cup
  {Straightline(<<Arg("x", F(<<4>>)), <<"i", I(<<1, 1>>), List(<<s>>)>>, Arg("y", F(<<1, 2>>))>>,
          <<Step("scatter", <<"x", "i", "y">>, "u",
               [window |-> {2}, dropped |-> {}, map |-> <<1>>, ivd |-> 2, body |-> <<>>], F(<<4>>)),
            Step("slice", <<"u">>, "r", [start |-> <<IF s < 0 THEN 2 ELSE 0>>, stride |-> <<1>>], F(<<2>>))>>) :
     s \in {-2, 4, 9}} \cup
  {Refused(Straightline(<<Arg("x", F(<<3>>)), <<"i", I(<<2>>), List(<<1, 0>>)>>, Arg("y", F(<<2>>))>>,
          <<Step("scatter", <<"x", "i", "y">>, "r",
               [window |-> {}, dropped |-> {1}, map |-> <<1>>, ivd |-> 2, body |-> <<"multiply">>],
               F(<<3>>))>>))}

Fold(type, init, dims, body, out) ==
  Straightline(<<Arg("x", type)>>,
         <<ConstStep("z", Type(type.dt, <<>>), Scalar(init)),
           Step("reduce", <<"x", "z">>, "r", [dims |-> dims, body |-> body], Type(type.dt, out))>>)

Folds1 ==
  {Fold(F(<<n>>), 0, {1}, <<"add">>, <<>>) : n \in {1, 4, 7, 8}} \cup
  {Fold(F(<<2, 3>>), Identity(fn), {2}, <<fn>>, <<2>>) : fn \in {"add", "maximum", "minimum", "multiply"}} \cup
  {Fold(F(<<2, 3, 2>>), 0, {1}, <<"add">>, <<3, 2>>), Fold(F(<<2, 3, 2>>), 0, {2}, <<"add">>, <<2, 2>>),
   Fold(F(<<2, 2, 2>>), 0, {2, 3}, <<"add">>, <<2>>), Fold(I(<<3, 2>>), -Top, {1}, <<"maximum">>, <<2>>),
   Fold(F(<<2, 2>>), Top, {1, 2}, <<"minimum">>, <<>>),
   Fold(B(<<5>>), 1, {1}, <<"and">>, <<>>), Fold(B(<<2, 2>>), 0, {2}, <<"or">>, <<2>>),
   Refused(Fold(F(<<2, 2, 2>>), 0, {1, 3}, <<"add">>, <<2>>)),
   Refused(Fold(F(<<3>>), 5, {1}, <<"add">>, <<>>)),
   Refused(Fold(F(<<3>>), 0, {1}, <<"add", "multiply">>, <<>>)),
   Refused(Single("reduce", <<F(<<3>>), F(<<>>)>>, [dims |-> {1}, body |-> <<"add">>], F(<<>>)))}

Pool(type, init, win, stride, low, high, dil, fn, out) ==
  LET ones == [d \in DOMAIN win |-> 1]
  IN Straightline(<<Arg("x", type)>>,
            <<ConstStep("z", Type(type.dt, <<>>), Scalar(init)),
              Step("reshape", <<"z">>, "w", NoAttrs, Type(type.dt, <<>>)),
              Step("reduce_window", <<"x", "w">>, "r",
                 [win |-> win, stride |-> stride, dilation |-> [d \in DOMAIN win |-> dil],
                  base |-> ones, low |-> low, high |-> high, body |-> <<fn>>],
                 Type(type.dt, out))>>)

Windows ==
  {Pool(F(<<4>>), 0, <<4>>, <<1>>, <<3>>, <<0>>, 1, "add", <<4>>),
   Pool(F(<<4, 3>>), -Top, <<2, 2>>, <<2, 1>>, <<0, 0>>, <<0, 1>>, 1, "maximum", <<2, 3>>),
   Refused(Pool(F(<<4>>), 0, <<2>>, <<1>>, <<0>>, <<0>>, 2, "add", <<2>>)),
   Refused(Pool(F(<<4>>), 6, <<2>>, <<1>>, <<0>>, <<0>>, 1, "add", <<3>>))}

DotAt(lb, rb, lc, rc) == [lb |-> lb, rb |-> rb, lc |-> lc, rc |-> rc]

Dots ==
  {Single("dot_general", <<F(<<3, 2>>), F(<<2, 3>>)>>, DotAt(<<>>, <<>>, 2, 1), F(<<3, 3>>)),
   Single("dot_general", <<F(<<2, 3>>), F(<<3, 2>>)>>, DotAt(<<>>, <<>>, 1, 2), F(<<3, 3>>)),
   Single("dot_general", <<F(<<3, 2>>), F(<<2>>)>>, DotAt(<<>>, <<>>, 2, 1), F(<<3>>)),
   Single("dot_general", <<F(<<2>>), F(<<2>>)>>, DotAt(<<>>, <<>>, 1, 1), F(<<>>)),
   Single("dot_general", <<F(<<2, 2, 2>>), F(<<2, 2, 2>>)>>, DotAt(<<1>>, <<1>>, 3, 2), F(<<2, 2, 2>>)),
   Single("dot_general", <<F(<<1, 2, 2>>), F(<<2, 2, 3>>)>>, DotAt(<<2>>, <<1>>, 3, 2), F(<<2, 1, 3>>))}

Conv(in, ker, stride, low, high, dil, groups, out) ==
  Single("convolution", <<F(in), F(ker)>>,
         [stride |-> stride, low |-> low, high |-> high, dilation |-> dil,
          base |-> [d \in DOMAIN stride |-> 1], canonical |-> TRUE, groups |-> groups], F(out))

Convs ==
  {Conv(<<1, 4, 2>>, <<2, 2, 1>>, <<1>>, <<1>>, <<0>>, <<2>>, 1, <<1, 3, 1>>),
   Conv(<<2, 3, 1>>, <<2, 1, 2>>, <<2>>, <<0>>, <<1>>, <<1>>, 1, <<2, 2, 2>>),
   Conv(<<1, 2, 3, 1>>, <<2, 2, 1, 1>>, <<1, 1>>, <<0, 1>>, <<0, 0>>, <<1, 1>>, 1, <<1, 1, 3, 1>>),
   Refused(Conv(<<1, 2, 2>>, <<1, 1, 2>>, <<1>>, <<0>>, <<0>>, <<1>>, 2, <<1, 2, 2>>))}

\* z made of two arguments, then more; Parts returns both parts of w.
Of(shape, more) ==
  Straightline(<<Arg("x", F(shape)), Arg("y", F(shape))>>,
            <<Step("complex", <<"x", "y">>, "z", NoAttrs, C(shape))>> \o more)

Parts(shape, more) ==
  LET p == Of(shape, more \o <<Step("real", <<"w">>, "r", NoAttrs, F(shape)),
                               Step("imag", <<"w">>, "s", NoAttrs, F(shape))>>)
  IN [p EXCEPT !.ret = <<"r", "s">>]

Complexes ==
  {Parts(<<2>>, <<Step(name, <<"z", "z">>, "w", NoAttrs, C(<<2>>))>>) :
     name \in {"add", "subtract", "multiply"}} \cup
  {Of(<<2>>, <<Step("abs", <<"z">>, "r", NoAttrs, F(<<2>>))>>),
   Parts(<<2>>, <<Step("negate", <<"z">>, "v", NoAttrs, C(<<2>>)),
                  Step("multiply", <<"z", "v">>, "w", NoAttrs, C(<<2>>))>>),
   Parts(<<2, 2>>, <<Step("fft", <<"z">>, "w", [kind |-> "FFT", len |-> 2], C(<<2, 2>>))>>),
   Refused(Parts(<<2, 2>>, <<Step("fft", <<"z">>, "w", [kind |-> "IFFT", len |-> 2], C(<<2, 2>>))>>)),
   Refused(Of(<<2>>, <<Step("reshape", <<"z">>, "r", NoAttrs, C(<<2, 1>>))>>)),
   Of(<<2>>, <<Step("convert", <<"z">>, "w", NoAttrs, C(<<2>>)), Step("convert", <<"w">>, "r", NoAttrs, F(<<2>>))>>),
   Straightline(<<Arg("x", F(<<2>>))>>,
          <<Step("convert", <<"x">>, "z", NoAttrs, C(<<2>>)), Step("imag", <<"z">>, "r", NoAttrs, F(<<2>>))>>),
   Single("real", <<F(<<2>>)>>, NoAttrs, F(<<2>>)),
   Single("imag", <<F(<<2>>)>>, NoAttrs, F(<<2>>))}

OpPrograms ==
  Making \cup Elementwise1 \cup Folding \cup Moves \cup Rolls \cup DynamicMoves \cup Folds1
    \cup Windows \cup Dots \cup Convs \cup Complexes
=============================================================================
