------------------------------ MODULE LaneWalk ------------------------------
(***************************************************************************)
(* A walk through a lane's stream, as both engines make one: a stack of    *)
(* frames, one for the root and one for each loop and branch it is in.     *)
(***************************************************************************)
EXTENDS Interpreter

CONSTANTS
  MaxDepth     \* MAX_DEPTH: frames of a walk

ASSUME MaxDepthNat == MaxDepth \in Nat

VARIABLES
  job,         \* the program being run, with its streams
  frames,      \* frames[l]: the frames of lane l's walk, the innermost last
  arena        \* the arena, by address

RootIdx == 0       \* WIDX_ROOT

Frame(pc, end, widx, phase) == [pc |-> pc, end |-> end, widx |-> widx, phase |-> phase]

RootWalk(rootLen) == <<Frame(1, rootLen + 1, RootIdx, 0)>>

AtEnd(stack)  == Last(stack).pc >= Last(stack).end
AtRoot(stack) == Last(stack).widx = RootIdx

WithTop(stack, f) == Append(Front(stack), f)
Step(stack)       == WithTop(stack, [Last(stack) EXCEPT !.pc = @ + 1])
Popped(stack)     == Step(Front(stack))
Rewound(stack, r, phase) ==
  WithTop(stack, [Last(stack) EXCEPT !.pc = r.start, !.end = r.start + r.len, !.phase = phase])
Pushed(stack, r, phase) ==
  Append(stack, Frame(r.start, r.start + r.len, Last(stack).pc, phase))

\* The entry lane l is at, and the control entry whose range it is in.
Entry(l) == job.streams[l][Last(frames[l]).pc]
Owner(l) == job.streams[l][Last(frames[l]).widx]

\* Lists within one another are of growing depth d, and where a branch is there
\* is a frame left for it.
NestsTo(prog, mainLen, d) ==
  /\ d[RootList] >= 1
  /\ \A g \in AllLists(prog) : \A i \in Regions(prog) \cap Listed(prog, mainLen, g) :
       /\ d[<<i, "x">>] > d[g] /\ d[<<i, "y">>] > d[g]
       /\ prog[i].op = "if" => d[g] < MaxDepth

BranchesFit(prog, mainLen) == \E d \in [AllLists(prog) -> Nat] : NestsTo(prog, mainLen, d)
=============================================================================
