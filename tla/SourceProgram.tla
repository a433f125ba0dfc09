---------------------------- MODULE SourceProgram ----------------------------
(***************************************************************************)
(* What a StableHLO program with regions means.  A program has arguments   *)
(* args, operations ops and returned values ret, like every block in it;   *)
(* ty types all its values, whose names are unique.  A region operation    *)
(* keeps its blocks in at: cond and body of a loop, the branches of a      *)
(* case (of an if: else first), the callee of a call.                      *)
(***************************************************************************)
EXTENDS StableHLO

Region(args, ops, ret) == [args |-> args, ops |-> ops, ret |-> ret]

RegionOps == {"while", "case", "if", "call"}

\* vals assigned to the names in the environment env.
Assign(env, names, vals) ==
  [v \in {names[k] : k \in DOMAIN names} |-> vals[Position(names, v)]] @@ env

Values(env, names) == [k \in DOMAIN names |-> env[names[k]]]

\* An index outside the branches selects the last one.
Branch(op, i) ==
  LET n == Len(op.at.branches)
  IN op.at.branches[IF op.name = "if" THEN IF i = 0 THEN 1 ELSE 2
                    ELSE IF i \in 0 .. n - 1 THEN i + 1 ELSE n]

RECURSIVE RunOps(_, _, _), RunRegion(_, _, _, _), RunLoop(_, _, _, _)

\* The environment after the operations ops.
RunOps(ty, ops, env) ==
  IF ops = <<>> THEN env
  ELSE LET op   == Head(ops)
           args == Values(env, op.args)
           results ==
             CASE op.name = "while" -> RunLoop(ty, op, env, args)
               [] op.name = "call"  -> RunRegion(ty, op.at.callee, env, args)
               [] op.name \in {"if", "case"} ->
                    RunRegion(ty, Branch(op, args[1][0]), env, <<>>)
               [] op.name \notin RegionOps ->
                    <<Meaning(op, [k \in DOMAIN op.args |-> ty[op.args[k]]], args, ty[op.res[1]])>>
       IN RunOps(ty, Tail(ops), Assign(env, op.res, results))

\* A block sees the values around it; its arguments are vals.
RunRegion(ty, block, env, vals) ==
  Values(RunOps(ty, block.ops, Assign(env, block.args, vals)), block.ret)

RunLoop(ty, op, env, vals) ==
  IF RunRegion(ty, op.at.cond, env, vals)[1][0] = 0 THEN vals
  ELSE RunLoop(ty, op, env, RunRegion(ty, op.at.body, env, vals))

\* The results of the program on the tensors x.
ProgramMeaning(p) == RunRegion(p.ty, p, <<>>, p.x)

(* The operation each value is the result of *)

RECURSIVE OpsWithin(_)
OpsWithin(ops) ==
  UNION {{ops[k]} \cup
         (CASE ops[k].name = "while" -> OpsWithin(ops[k].at.cond.ops) \cup OpsWithin(ops[k].at.body.ops)
            [] ops[k].name = "call"  -> OpsWithin(ops[k].at.callee.ops)
            [] ops[k].name \in {"if", "case"} ->
                 UNION {OpsWithin(ops[k].at.branches[b].ops) : b \in DOMAIN ops[k].at.branches}
            [] OTHER -> {}) : k \in DOMAIN ops}

\* Block arguments have none.
Definitions(p) ==
  LET all == OpsWithin(p.ops)
      Defining(v) == {op \in all : \E k \in DOMAIN op.res : op.res[k] = v}
  IN [v \in DOMAIN p.ty |->
        IF Defining(v) = {} THEN Op("argument", <<>>, <<v>>, NoAttrs)
        ELSE CHOOSE op \in Defining(v) : TRUE]
=============================================================================
