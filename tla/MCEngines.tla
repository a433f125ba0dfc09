------------------------------ MODULE MCEngines ------------------------------
(***************************************************************************)
(* The two engines a loaded program may be given to (LaunchKernel's first  *)
(* test), on the sample programs: the megakernel's interpreter (LaneVM) or *)
(* the host walking the same streams (HostDispatch).  They share the       *)
(* program, the frames of the walk and the arena.                          *)
(***************************************************************************)
EXTENDS LaneVM, HostDispatch, Reference, SamplePrograms

\* No sample has its branches too deep for the host's walk: the list of a region
\* is one deeper than the one the region is in.
ASSUME SamplesFit ==
  \A j \in Jobs :
    LET d[g \in AllLists(j.prog)] ==
          IF g = RootList THEN 1
          ELSE 1 + d[CHOOSE h \in AllLists(j.prog) : g[1] \in Listed(j.prog, j.main, h)]
    IN NestsTo(j.prog, j.main, d)

\* Only maps with a folded gather reach beyond their tile where dependency analysis
\* does not look (finding 1); LanesNeverRace is about programs without them.
ASSUME SamplesUnviewed ==
  \A j \in Jobs : \A i \in 1 .. Len(j.prog) : IsMap(j.prog[i]) => ~j.prog[i].view

VARIABLE
  engine       \* host_dispatch_: "mega" or "host"

megaVars == <<tile, mode, log, arrived, passed>>
onlyHost == <<walker, seg, ev, host, ringVars, slots, queue, done>>

LaunchInit == engine \in {"mega", "host"} /\ Init /\ VMInit

OnMegakernel == engine = "mega" /\ VMNext /\ UNCHANGED <<engine, onlyHost>>
OnHost       == engine = "host" /\ Next /\ UNCHANGED <<engine, megaVars>>

launchVars == <<engine, vars, megaVars>>

\* Every lane of a megakernel is resident and keeps running (EngineSelect,
\* SpinBarrier); a host launch needs its thread, and a device that works off
\* its queue, the groups of a segment in any order.
LaunchSpec ==
  /\ LaunchInit /\ [][OnMegakernel \/ OnHost]_launchVars
  /\ \A l \in LaneIds :
       WF_launchVars(engine = "mega" /\ LaneStep(l) /\ UNCHANGED <<engine, onlyHost>>)
  /\ WF_launchVars(engine = "host" /\ HostStep /\ UNCHANGED <<engine, megaVars>>)
  /\ WF_launchVars(engine = "host" /\ DeviceStep /\ UNCHANGED <<engine, megaVars>>)
------------------------------------------------------------------------------
(* Properties: those of the two engines, and *)

\* Whichever engine it ran on, and whatever the interleaving, a program that has
\* ended leaves in the reused arena what the sequential interpreter leaves in
\* one where nothing is shared (the lane streams and _reuse_arena against
\* execute of vmreader.py).
ResultCorrect == AllDone \/ host = "ok" => RightResult(job, arena)

\* A launch ends on either engine: no lane is left at a barrier another one
\* never reaches, and the host never waits for what nobody runs.
Ends == <>(AllDone \/ Returned)
=============================================================================
