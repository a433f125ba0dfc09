------------------------------ MODULE Execution ------------------------------
(***************************************************************************)
(* PJRT buffers and executions (plugin.cc) over the runtime's device       *)
(* memory (runtime.cc: Load's I/O ports, ExecuteDevice, WriteToDevice and  *)
(* the buffer pool).                                                       *)
(*                                                                         *)
(* Threads call at the same time.  Commands go to one in-order queue under *)
(* the runtime's mutex; the pool has a mutex of its own, so that memory    *)
(* changes hands while another thread's commands are in the queue.  A      *)
(* program's arena and its ports belong to the program, not to a call.     *)
(* All buffers have one size, the case in which the pool reuses most.      *)
(***************************************************************************)
EXTENDS Integers, SequencesExt

CONSTANTS
  Threads,
  Mems,        \* cl_mems: as many as the device has room for
  Programs,    \* loaded programs, [ins, outs, consts, code] over buffer ids
  NPorts,      \* kNIoPorts
  PoolCap,     \* kPoolPerSize
  Data,        \* what the host uploads
  Mod,         \* contents are 0 .. Mod - 1, or
  Junk,        \* what nobody has written
  None,        \* no thread, no cl_mem
  MaxCalls     \* bound on the calls

ASSUME PortsNat    == NPorts \in Nat
ASSUME PoolCapNat  == PoolCap \in Nat
ASSUME MaxCallsNat == MaxCalls \in Nat
ASSUME DataInRange == Mod \in Nat \ {0} /\ Data \subseteq 0 .. Mod - 1
ASSUME JunkApart   == Junk \notin 0 .. Mod - 1 /\ None \notin Mems \cup Threads

VARIABLES
  mu,          \* the thread that holds mu_
  queue,       \* commands the device has not run, oldest first
  created,     \* cl_mems that have not been released
  contents,    \* what each cl_mem holds
  arena,       \* arena[p][id]: the program's arena, by buffer
  io_bufs,     \* io_bufs[p][id]: the cl_mem bound to id's port
  pool,        \* buf_pool_ for the one size
  bufs,        \* PJRT buffers: their state, cl_mem and the value they stand for
  call,        \* call[t]: the call thread t is in
  calls        \* how many calls have begun

deviceVars == <<queue, contents, arena>>
memVars    == <<created, pool>>
xvars == <<mu, deviceVars, memVars, io_bufs, bufs, call, calls>>
------------------------------------------------------------------------------
(* Programs *)

Ids(p) == ToSet(p.ins) \cup ToSet(p.outs) \cup DOMAIN p.consts \cup {i.dst : i \in ToSet(p.code)}

ASSUME ProgramShape ==
  \A p \in Programs :
    /\ p.ins \in Seq(Nat) /\ p.outs \in Seq(Nat)
    /\ DOMAIN p.consts \subseteq Nat /\ p.consts \in [DOMAIN p.consts -> 0 .. Mod - 1]
    /\ p.code \in Seq([dst : Nat, a : Nat, b : Nat, k : Nat])

\* An instruction adds two buffers and a number.
Sum2(x, y, k) == IF x = Junk \/ y = Junk THEN Junk ELSE (x + y + k) % Mod

\* Before the first instruction: constants, inputs, and buffers nobody has written.
Start(p, given) ==
  [id \in Ids(p) |-> IF id \in DOMAIN p.consts THEN p.consts[id]
                     ELSE IF id \in ToSet(p.ins)
                          THEN given[CHOOSE i \in DOMAIN p.ins : p.ins[i] = id] ELSE Junk]

Computed(env, i) == [env EXCEPT ![i.dst] = Sum2(env[i.a], env[i.b], i.k)]

\* What the program means: its outputs' values, given its inputs'.
Meaning(p, given) ==
  LET env[n \in 0 .. Len(p.code)] ==
        IF n = 0 THEN Start(p, given) ELSE Computed(env[n - 1], p.code[n])
  IN [o \in DOMAIN p.outs |-> env[Len(p.code)][p.outs[o]]]

\* What makes Meaning the meaning whatever ran before: no argument and no result
\* comes twice, constants are neither, code writes neither arguments nor constants,
\* and whatever is read or returned has been written.
Written(p, n) == {p.code[j].dst : j \in 1 .. n}

Regular(p) ==
  /\ IsInjective(p.ins) /\ IsInjective(p.outs)
  /\ DOMAIN p.consts \cap (ToSet(p.ins) \cup ToSet(p.outs)) = {}
  /\ \A n \in DOMAIN p.code :
       /\ p.code[n].dst \notin DOMAIN p.consts \cup ToSet(p.ins)
       /\ {p.code[n].a, p.code[n].b} \subseteq DOMAIN p.consts \cup ToSet(p.ins) \cup Written(p, n - 1)
  /\ ToSet(p.outs) \subseteq ToSet(p.ins) \cup Written(p, Len(p.code))

\* assign_port: the first NPorts buffers, inputs before outputs, that are only the
\* one or only the other.  A port is named by its buffer.
Candidates(p) == (ToSet(p.ins) \ ToSet(p.outs)) \cup (ToSet(p.outs) \ ToSet(p.ins))

Place(p, id) == LET all == p.ins \o p.outs
                IN CHOOSE i \in DOMAIN all : all[i] = id /\ \A j \in 1 .. i - 1 : all[j] # id

Ported(p) ==
  {id \in Candidates(p) :
     Cardinality({d \in Candidates(p) : Place(p, d) < Place(p, id)}) < NPorts}

HasPort(p, id) == id \in Ported(p)

NoPorts(p) == [id \in Ported(p) |-> None]

\* Where an instruction finds a buffer when the ports are bound to the given cl_mems.
Get(p, ports, s, id) == IF HasPort(p, id) THEN s.mem[ports[id]] ELSE s.arena[p][id]

Put(p, ports, s, id, v) == IF HasPort(p, id) THEN [s EXCEPT !.mem[ports[id]] = v]
                           ELSE [s EXCEPT !.arena[p][id] = v]

Instruction(p, ports, s, i) ==
  Put(p, ports, s, i.dst, Sum2(Get(p, ports, s, i.a), Get(p, ports, s, i.b), i.k))

\* A launch, on either engine.
LaunchResult(p, ports, s) ==
  LET run[n \in 0 .. Len(p.code)] ==
        IF n = 0 THEN s ELSE Instruction(p, ports, run[n - 1], p.code[n])
  IN run[Len(p.code)]

\* Buffers are named by the call that returned them.
BufNames == (1 .. MaxCalls) \X ({1} \cup UNION {DOMAIN p.outs : p \in Programs})
Gone     == [state |-> "gone", mem |-> None, value |-> Junk]
Idle     == [at |-> "idle"]

\* Load has uploaded the constants.
XInit ==
  /\ mu = None /\ queue = <<>> /\ created = {} /\ pool = <<>>
  /\ contents = [m \in Mems |-> Junk]
  /\ arena = [p \in Programs |->
                [id \in Ids(p) |-> IF id \in DOMAIN p.consts THEN p.consts[id] ELSE Junk]]
  /\ io_bufs = [p \in Programs |-> NoPorts(p)]
  /\ bufs = [b \in BufNames |-> Gone]
  /\ call = [t \in Threads |-> Idle]
  /\ calls = 0
------------------------------------------------------------------------------
(* Device memory *)

Pending == UNION {c.mems : c \in ToSet(queue)}

\* A released cl_mem lives on until no command in the queue uses it.
Free == Mems \ (created \cup Pending)

\* PoolAlloc: m is the one freed last, or else a new one.
PoolAlloc(m) ==
  IF pool # <<>>
  THEN /\ m = Last(pool) /\ pool' = Front(pool)
       /\ UNCHANGED <<created, contents>>
  ELSE /\ Free # {} /\ m = CHOOSE n \in Free : TRUE
       /\ created' = created \cup {m} /\ contents' = [contents EXCEPT ![m] = Junk]
       /\ UNCHANGED pool

PoolFree(m) ==
  IF Len(pool) < PoolCap THEN pool' = Append(pool, m) /\ UNCHANGED created
                         ELSE created' = created \ {m} /\ UNCHANGED pool

\* The commands, each with the cl_mems it holds on to.
CopyIn(from, p, id) == [cmd |-> "in", mems |-> {from}, mem |-> from, prog |-> p, id |-> id]
CopyOut(p, id, to)  == [cmd |-> "out", mems |-> {to}, mem |-> to, prog |-> p, id |-> id]
Write(to, v)        == [cmd |-> "write", mems |-> {to}, mem |-> to, value |-> v]
Launch(p)           == [cmd |-> "launch", mems |-> {io_bufs[p][id] : id \in Ported(p)} \ {None},
                        prog |-> p, ports |-> io_bufs[p]]

\* What a command leaves of a state of the device's memory.
Ran(c, s) ==
  CASE c.cmd = "in"     -> [s EXCEPT !.arena[c.prog][c.id] = s.mem[c.mem]]
    [] c.cmd = "out"    -> [s EXCEPT !.mem[c.mem] = s.arena[c.prog][c.id]]
    [] c.cmd = "write"  -> [s EXCEPT !.mem[c.mem] = c.value]
    [] c.cmd = "launch" -> LaunchResult(c.prog, c.ports, s)

Memory == [mem |-> contents, arena |-> arena]

\* The device runs the oldest command.
DeviceStep ==
  /\ queue # <<>> /\ queue' = Tail(queue)
  /\ contents' = Ran(Head(queue), Memory).mem /\ arena' = Ran(Head(queue), Memory).arena
  /\ UNCHANGED <<mu, memVars, io_bufs, bufs, call, calls>>
------------------------------------------------------------------------------
(* Calls *)

Begins(t, c) ==
  /\ call[t] = Idle /\ calls < MaxCalls
  /\ calls' = calls + 1
  /\ call' = [call EXCEPT ![t] = c]

Goes(t, from, to) == call[t].at = from /\ call' = [call EXCEPT ![t].at = to]

Locks(t)   == mu = None /\ mu' = t
Unlocks(t) == mu = t /\ mu' = None
Holds(t)   == mu = t /\ UNCHANGED mu

Returns(t) == call' = [call EXCEPT ![t] = Idle]

Live(b)   == bufs[b].state = "live"
InUse     == UNION {ToSet(call[t].args) : t \in {u \in Threads : call[u] # Idle}}

\* PJRT_Client_BufferFromHostBuffer: AllocDevice ...
PutAlloc(t) ==
  \E v \in Data, m \in Mems :
    /\ PoolAlloc(m)
    /\ Begins(t, [at |-> "put", n |-> calls + 1, args |-> <<>>, mem |-> m, value |-> v])
    /\ UNCHANGED <<mu, queue, arena, io_bufs, bufs>>

\* ... and WriteToDevice, which blocks until the write is done.
PutWrite(t) ==
  /\ Goes(t, "put", "written") /\ Locks(t)
  /\ queue' = Append(queue, Write(call[t].mem, call[t].value))
  /\ UNCHANGED <<contents, arena, memVars, io_bufs, bufs, calls>>

Owned(m, v) == [state |-> "live", mem |-> m, value |-> v]

PutDone(t) ==
  /\ call[t].at = "written" /\ queue = <<>>
  /\ Unlocks(t) /\ Returns(t)
  /\ bufs' = [bufs EXCEPT ![<<call[t].n, 1>>] = Owned(call[t].mem, call[t].value)]
  /\ UNCHANGED <<deviceVars, memVars, io_bufs, calls>>

Delete_KeepsMem(t, b) ==
  /\ Live(b) /\ b \notin InUse
  /\ PoolFree(bufs[b].mem)
  /\ Begins(t, Idle)
  /\ UNCHANGED <<mu, deviceVars, io_bufs, bufs>>

\* PJRT_Buffer_Delete, of a buffer that no call in progress was given.
Delete(t, b) ==
  /\ Live(b) /\ b \notin InUse
  /\ PoolFree(bufs[b].mem)
  /\ bufs' = [bufs EXCEPT ![b].state = "deleted", ![b].mem = None]
  /\ Begins(t, Idle)
  /\ UNCHANGED <<mu, deviceVars, io_bufs>>

\* PJRT_Buffer_Destroy: a deleted buffer has nothing to give back.
Destroy(t, b) ==
  /\ bufs[b].state # "gone" /\ b \notin InUse
  /\ IF bufs[b].mem = None THEN UNCHANGED memVars ELSE PoolFree(bufs[b].mem)
  /\ bufs' = [bufs EXCEPT ![b] = Gone]
  /\ Begins(t, Idle)
  /\ UNCHANGED <<mu, deviceVars, io_bufs>>

\* PJRT_LoadedExecutable_Execute takes the arguments' cl_mems ...
ExecStart(t) ==
  \E p \in Programs : \E args \in [DOMAIN p.ins -> {b \in BufNames : Live(b)}] :
    /\ Begins(t, [at |-> "bind", n |-> calls + 1, args |-> args, prog |-> p,
                  ins |-> [i \in DOMAIN args |-> bufs[args[i]].mem],
                  wanted |-> Meaning(p, [i \in DOMAIN args |-> bufs[args[i]].value]),
                  outs |-> <<>>, done |-> 0])
    /\ UNCHANGED <<mu, deviceVars, memVars, io_bufs, bufs>>

\* A failure releases the outputs there are, and with them the mutex.  What has
\* been enqueued stays in the queue.
Fails(t) ==
  /\ Unlocks(t) /\ Returns(t)
  /\ created' = created \ ToSet(call[t].outs)
  /\ UNCHANGED <<contents, arena, pool, bufs, calls>>

\* ... ExecuteDevice unbinds all ports ...
ExecBind(t) ==
  /\ Goes(t, "bind", "input") /\ Locks(t)
  /\ io_bufs' = [io_bufs EXCEPT ![call[t].prog] = NoPorts(call[t].prog)]
  /\ UNCHANGED <<deviceVars, memVars, bufs, calls>>

\* One argument more or one result more has been seen to.
Counts(t) == call' = [call EXCEPT ![t].done = @ + 1]

\* ... binds each input to its port or copies it to the arena ...
ExecInput(t) ==
  /\ call[t].at = "input" /\ call[t].done < Len(call[t].ins)
  /\ LET p == call[t].prog  i == call[t].done + 1
     IN IF HasPort(p, p.ins[i])
        THEN io_bufs' = [io_bufs EXCEPT ![p][p.ins[i]] = call[t].ins[i]] /\ UNCHANGED queue
        ELSE queue' = Append(queue, CopyIn(call[t].ins[i], p, p.ins[i])) /\ UNCHANGED io_bufs
  /\ Counts(t) /\ Holds(t)
  /\ UNCHANGED <<contents, arena, memVars, bufs, calls>>

ExecInputFails(t) ==
  /\ call[t].at = "input" /\ call[t].done < Len(call[t].ins)
  /\ ~HasPort(call[t].prog, call[t].prog.ins[call[t].done + 1])
  /\ Fails(t) /\ UNCHANGED <<queue, io_bufs>>

InputsDone(t) == call[t].at = "input" /\ call[t].done = Len(call[t].ins)

\* ... makes a cl_mem for every output, and binds those that have a port ...
ExecAlloc(t) ==
  /\ InputsDone(t) /\ Len(call[t].outs) < Len(call[t].prog.outs)
  /\ LET p == call[t].prog  id == p.outs[Len(call[t].outs) + 1]
     IN \E m \in Mems :
          /\ PoolAlloc(m)
          /\ call' = [call EXCEPT ![t].outs = Append(@, m)]
          /\ io_bufs' = IF HasPort(p, id) THEN [io_bufs EXCEPT ![p][id] = m] ELSE io_bufs
  /\ Holds(t)
  /\ UNCHANGED <<queue, arena, bufs, calls>>

ExecAllocFails(t) ==
  /\ InputsDone(t) /\ Len(call[t].outs) < Len(call[t].prog.outs)
  /\ pool = <<>>
  /\ Fails(t) /\ UNCHANGED <<queue, io_bufs>>

OutputsMade(t) == InputsDone(t) /\ Len(call[t].outs) = Len(call[t].prog.outs)

\* ... launches (an empty program is no launch) ...
ExecLaunch(t) ==
  /\ OutputsMade(t)
  /\ queue' = IF call[t].prog.code = <<>> THEN queue ELSE Append(queue, Launch(call[t].prog))
  /\ call' = [call EXCEPT ![t].at = "copy", ![t].done = 0]
  /\ Holds(t)
  /\ UNCHANGED <<contents, arena, memVars, io_bufs, bufs, calls>>

ExecLaunchFails(t) ==
  /\ OutputsMade(t) /\ call[t].prog.code # <<>>
  /\ Fails(t) /\ UNCHANGED <<queue, io_bufs>>

\* ... copies each output that has no port out of the arena ...
ExecCopy(t) ==
  /\ call[t].at = "copy" /\ call[t].done < Len(call[t].outs)
  /\ LET p == call[t].prog  o == call[t].done + 1
     IN queue' = IF HasPort(p, p.outs[o]) THEN queue
                 ELSE Append(queue, CopyOut(p, p.outs[o], call[t].outs[o]))
  /\ Counts(t) /\ Holds(t)
  /\ UNCHANGED <<contents, arena, memVars, io_bufs, bufs, calls>>

ExecCopyFails(t) ==
  /\ call[t].at = "copy" /\ call[t].done < Len(call[t].outs)
  /\ ~HasPort(call[t].prog, call[t].prog.outs[call[t].done + 1])
  /\ Fails(t) /\ UNCHANGED <<queue, io_bufs>>

CopiesDone(t) == call[t].at = "copy" /\ call[t].done = Len(call[t].outs)

ExecFinish_NoWait(t) ==
  /\ CopiesDone(t)
  /\ Unlocks(t) /\ Returns(t)
  /\ bufs' = [b \in BufNames |->
       IF b[1] = call[t].n /\ b[2] \in DOMAIN call[t].outs
       THEN Owned(call[t].outs[b[2]], call[t].wanted[b[2]]) ELSE bufs[b]]
  /\ UNCHANGED <<deviceVars, memVars, io_bufs, calls>>

\* ... and waits for the queue: clFinish.  Each output becomes a buffer.
ExecFinish(t) ==
  /\ CopiesDone(t) /\ queue = <<>>
  /\ Unlocks(t) /\ Returns(t)
  /\ bufs' = [b \in BufNames |->
       IF b[1] = call[t].n /\ b[2] \in DOMAIN call[t].outs
       THEN Owned(call[t].outs[b[2]], call[t].wanted[b[2]]) ELSE bufs[b]]
  /\ UNCHANGED <<deviceVars, memVars, io_bufs, calls>>

ThreadStep(t) ==
  \/ PutAlloc(t) \/ PutWrite(t) \/ PutDone(t)
  \/ (\E b \in BufNames : Delete(t, b) \/ Destroy(t, b))
  \/ ExecStart(t) \/ ExecBind(t) \/ ExecInput(t) \/ ExecInputFails(t)
  \/ ExecAlloc(t) \/ ExecAllocFails(t) \/ ExecLaunch(t) \/ ExecLaunchFails(t)
  \/ ExecCopy(t) \/ ExecCopyFails(t) \/ ExecFinish(t)

XNext == DeviceStep \/ \E t \in Threads : ThreadStep(t)

AllReturned == calls = MaxCalls /\ queue = <<>> /\ \A t \in Threads : call[t] = Idle

XSpec == XInit /\ [][XNext]_xvars
------------------------------------------------------------------------------
(* Properties *)

\* Every event is born ready (plugin.cc): from the moment a call returns it, a
\* buffer's memory holds the value it stands for, and keeps it whatever other
\* threads upload, execute, delete and let fail, until it is deleted itself.
BuffersHold == \A b \in BufNames : Live(b) => contents[bufs[b].mem] = bufs[b].value

\* A cl_mem has one owner: the pool, a buffer, or a call that has not returned;
\* and none is lost, on the failing paths too.
OwnedOnce ==
  LET Owners(m) ==
        {<<"pool", k>> : k \in {j \in DOMAIN pool : pool[j] = m}}
        \cup {<<"buffer", b>> : b \in {c \in BufNames : bufs[c].mem = m}}
        \cup {<<"put", t>> : t \in {u \in Threads : call[u].at \in {"put", "written"}
                                                  /\ call[u].mem = m}}
        \cup {<<"out", t>> : t \in {u \in Threads : call[u].at \in {"bind", "input", "copy"}
                                                  /\ m \in ToSet(call[u].outs)}}
  IN \A m \in Mems : Cardinality(Owners(m)) = IF m \in created THEN 1 ELSE 0
=============================================================================
