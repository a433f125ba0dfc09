---------------------------- MODULE EngineSelect ----------------------------
(***************************************************************************)
(* OclRuntime::Create's choice of engine and of the number of lanes, with  *)
(* the residency probe (Discovery) in the middle, and the choice that      *)
(* LoadedProgram::Load makes once more for each program.                   *)
(*                                                                         *)
(* The steps are taken in the order of the code: the variables             *)
(* PJRT_OCL_ENGINE, MM_HYBRID and VM_TRACE are read first, then a GPU is   *)
(* probed, then its residency and PJRT_OCL_VM_LANES decide.                *)
(***************************************************************************)
EXTENDS Discovery, Integers

CONSTANTS
  ComputeUnits,      \* info_.compute_units
  MegaMinResidency,  \* kMegaMinResidency
  VmLanes            \* values PJRT_OCL_VM_LANES may have

ASSUME ComputeUnitsPositive == ComputeUnits \in Nat \ {0}
ASSUME VmLanesInt           == VmLanes \subseteq Int

VARIABLES
  stage,             \* how far Create is: select, probe, size, ready or refused
  device,            \* is_gpu, has_device_fence
  engine,            \* PJRT_OCL_ENGINE; "auto" stands for anything else too
  host_dispatch,     \* host_dispatch_
  hybrid_forces_hd,  \* hybrid_forces_hd_
  traced,            \* trace_path_ is not empty
  measured_res,      \* the probe's answer, 0 when there is none
  lanes_forced,      \* PJRT_OCL_VM_LANES is set
  ngroups            \* ngroups_: the lanes that programs are scheduled for

engineVars == <<stage, device, engine, host_dispatch, hybrid_forces_hd, traced,
                measured_res, lanes_forced, ngroups>>

EInit ==
  /\ Init
  /\ stage = "select"
  /\ device \in [is_gpu : BOOLEAN, has_device_fence : BOOLEAN]
  /\ engine = "auto" /\ host_dispatch = FALSE /\ hybrid_forces_hd = FALSE /\ traced = FALSE
  /\ measured_res = 0 /\ lanes_forced = FALSE /\ ngroups = 0

\* The spin barrier needs fences, and lanes that a CPU does not keep running.
NeedsHost == ~device.is_gpu \/ ~device.has_device_fence

\* The environment asks for the engine, for hybrid matmuls and for a trace.
SelectEngine ==
  /\ stage = "select"
  /\ \E e \in {"auto", "host", "mega"}, mm_hybrid, vm_trace \in BOOLEAN :
       LET asked == e = "host" \/ (e = "auto" /\ NeedsHost)
       IN /\ engine' = e
          /\ stage' = IF e = "mega" /\ ~device.has_device_fence THEN "refused"
                      ELSE IF device.is_gpu THEN "probe" ELSE "size"
          /\ hybrid_forces_hd' = (mm_hybrid /\ ~asked /\ ~NeedsHost)
          /\ host_dispatch' = (asked \/ mm_hybrid \/ vm_trace)
          /\ traced' = vm_trace
  /\ UNCHANGED <<vars, device, measured_res, lanes_forced, ngroups>>

\* The probe launch: what Discovery says of its groups.
ProbeStep(g)  == stage = "probe" /\ GroupStep(g) /\ UNCHANGED engineVars
ProbeAdmit(g) == stage = "probe" /\ Admit(g) /\ UNCHANGED engineVars

\* clFinish, then d[2] is read.
ReadCount ==
  /\ stage = "probe" /\ AllExited
  /\ measured_res' = count
  /\ stage' = "size"
  /\ UNCHANGED <<vars, device, engine, host_dispatch, hybrid_forces_hd, traced,
                 lanes_forced, ngroups>>

\* A buffer, an argument, the launch or the read fails: there is no measurement.
ProbeFails ==
  /\ stage = "probe"
  /\ (\A g \in Groups : pc[g] = "queued") \/ AllExited
  /\ stage' = "size"
  /\ UNCHANGED <<vars, device, engine, host_dispatch, hybrid_forces_hd, traced,
                 measured_res, lanes_forced, ngroups>>

Sized_NoMeasure ==
  IF ~device.is_gpu THEN ComputeUnits ELSE 2 * ComputeUnits

\* Two lanes a compute unit on a GPU, but no more than are resident together.
Sized ==
  IF ~device.is_gpu THEN ComputeUnits
  ELSE IF measured_res = 0 \/ 2 * ComputeUnits <= measured_res THEN 2 * ComputeUnits
  ELSE measured_res

AtLeastOne(n) == IF n >= 1 THEN n ELSE 1

\* A GPU that holds few lanes defaults to the host engine.
SizeLanes ==
  /\ stage = "size"
  /\ host_dispatch' = (\/ host_dispatch
                       \/ engine = "auto" /\ measured_res \in 1 .. MegaMinResidency - 1)
  /\ \/ ngroups' = Sized /\ UNCHANGED lanes_forced
     \/ \E n \in VmLanes : ngroups' = AtLeastOne(n) /\ lanes_forced' = TRUE
  /\ stage' = "ready"
  /\ UNCHANGED <<vars, device, engine, hybrid_forces_hd, traced, measured_res>>

\* LoadedProgram::Load: a program none of whose matmuls can be routed leaves
\* the host engine again if only MM_HYBRID had put it there.
RunsOnHost(routable) ==
  host_dispatch /\ ~(hybrid_forces_hd /\ ~traced /\ ~routable)

ENext ==
  \/ SelectEngine \/ ReadCount \/ ProbeFails \/ SizeLanes
  \/ \E g \in Groups : ProbeStep(g) \/ ProbeAdmit(g)

ESpec == EInit /\ [][ENext]_<<vars, engineVars>>
------------------------------------------------------------------------------
(* Properties *)

\* A program is given to the megakernel only where its barrier is sound: on a
\* device with fences, never against PJRT_OCL_ENGINE=host or under tracing,
\* and with no more lanes than the device keeps resident, whatever mixture of
\* the variables was set.  Two ways round the last are left out: a failed
\* probe, and PJRT_OCL_VM_LANES, which replaces the count by any number.
MegakernelFits ==
  stage = "ready" =>
    /\ ngroups >= 1
    /\ \A routable \in BOOLEAN : ~RunsOnHost(routable) =>
         /\ device.has_device_fence
         /\ engine # "host" /\ ~traced
         /\ (measured_res > 0 /\ ~lanes_forced) => ngroups <= Capacity
==============================================================================
