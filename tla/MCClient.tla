------------------------------ MODULE MCClient ------------------------------
(***************************************************************************)
(* A client that is created (EngineSelect, with the probe of Discovery),   *)
(* and that several threads call at the same time, to compile              *)
(* (LowerProcess) or to transfer and execute (Execution).  The sorts of    *)
(* call have no state in common that these modules keep, so that a run     *)
(* needs only to mix calls of one sort.                                    *)
(***************************************************************************)
EXTENDS Execution, LowerProcess, EngineSelect

VARIABLES
  calling      \* "create", "compile" or "execute"

Ins(dst, a, b, k) == [dst |-> dst, a |-> a, b |-> b, k |-> k]

Program(ins, outs, consts, code) ==
  [ins |-> ins, outs |-> outs, consts |-> consts, code |-> code]

\* x + y: with two ports both inputs have one and the output is copied.
Add == Program(<<1, 2>>, <<3>>, <<>>, <<Ins(3, 1, 2, 0)>>)

\* (x + c + x, x): an argument comes back, so it goes through the arena.
Keep == Program(<<1>>, <<2, 1>>, [id \in {3} |-> 1], <<Ins(2, 1, 3, 0), Ins(2, 2, 1, 0)>>)

\* A result returned twice; a result and a constant.
Twice    == Program(<<1>>, <<2, 2>>, <<>>, <<Ins(2, 1, 1, 1)>>)
Constant == Program(<<1>>, <<2, 3>>, [id \in {3} |-> 1], <<Ins(2, 1, 3, 0)>>)

Distinct == {Add, Keep}
Aliased  == {Twice, Constant}

\* The theorem about BuffersHold covers the first sort and has to leave out the second.
ASSUME RegularOnes == (\A p \in Distinct : Regular(p)) /\ (\A p \in Aliased : ~Regular(p))

createVars == <<vars, engineVars>>
clientVars == <<calling, xvars, procVars, createVars>>

\* Which device it is matters to Create alone.
ClientInit ==
  /\ calling \in {"create", "compile", "execute"}
  /\ XInit /\ PInit /\ EInit
  /\ calling # "create" => ~device.is_gpu /\ ~device.has_device_fence

CreateStep(A)  == calling = "create" /\ A /\ UNCHANGED <<calling, xvars, procVars>>
CompileStep(A) == calling = "compile" /\ A /\ UNCHANGED <<calling, xvars, createVars>>
ExecuteStep(A) == calling = "execute" /\ A /\ UNCHANGED <<calling, procVars, createVars>>

Created == stage \in {"ready", "refused"}

\* Every thread has made its calls and got its answers.
Quiet ==
  \/ calling = "create" /\ Created
  \/ calling = "compile" /\ AllAnswered
  \/ calling = "execute" /\ AllReturned

ClientNext ==
  \/ CreateStep(ENext)
  \/ CompileStep(PNext)
  \/ ExecuteStep(XNext)
  \/ Quiet /\ UNCHANGED clientVars

\* Create runs on one host thread, and the device works as in Discovery.
CreateFairness ==
  /\ WF_clientVars(CreateStep(SelectEngine \/ ReadCount \/ SizeLanes))
  /\ \A g \in Groups : WF_clientVars(CreateStep(ProbeStep(g)))
  /\ WF_clientVars(CreateStep(\E g \in Groups : ProbeAdmit(g)))

\* Threads and processes are scheduled; poll's minute passes when nothing comes.
CompileFairness ==
  \A c \in Callers : /\ WF_clientVars(CompileStep(CallerStep(c)))
                     /\ WF_clientVars(CompileStep(ServiceStep(c)))

ClientSpec ==
  ClientInit /\ [][ClientNext]_clientVars /\ CreateFairness /\ CompileFairness
------------------------------------------------------------------------------
(* Properties: those of the three modules, and *)

\* Creating a client ends, with a runtime or with a refusal, although groups
\* of the probe that are not resident are promised nothing.
CreateEnds == calling = "create" ~> Created

\* Every compile returns, whichever pipes the children hold for one another: what
\* they wait for, or the timeout, comes (RunLoweringSubprocess).
CompileEnds == \A c \in Callers : calling = "compile" ~> at[c] = "done"
=============================================================================
