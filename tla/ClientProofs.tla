---------------------------- MODULE ClientProofs ----------------------------
(***************************************************************************)
(* Theorems about the two sorts of call of a client.                       *)
(*                                                                         *)
(* Compiling (LowerProcess), for any number of threads, programs and       *)
(* answers of any size, pipes of any capacity, and whatever ends of other  *)
(* threads' pipes the children have inherited.                             *)
(*                                                                         *)
(* Transfers and execution (Execution): who owns which cl_mem, and what    *)
(* the memories of live buffers hold, for any number of threads, cl_mems   *)
(* and programs, any capacity of the pool and any number of ports.         *)
(***************************************************************************)
EXTENDS Execution, LowerProcess, Recursion, FiniteSetTheorems, TLAPS
------------------------------------------------------------------------------
(* Compiling *)

PTypeOK ==
  /\ at \in [Callers -> {"start", "fork", "forked", "poll", "kill", "wait", "done"}]
  /\ held \in [Callers -> [Pipes -> Nat]]
  /\ written \in [Callers -> Nat]
  /\ got \in [Callers -> Nat]
  /\ child \in [Callers -> {"none", "reading", "writing", "ended"}]
  /\ left \in [Callers -> [{"out", "err"} -> Nat]]
  /\ status \in [Callers -> {-1, 0, 1, 2, 3, 127, 137}]
  /\ late \in [Callers -> BOOLEAN]
  /\ answer \in [Callers -> {"none", "program", "unimplemented", "internal"}]

\* What one compile relies on.  None of it is about an end that another thread's
\* child holds, which is why those cannot spoil an answer.

\* Before the fork there is nothing but the six ends.
BeforeFork(c) ==
  /\ at[c] \in {"start", "fork"} =>
       child[c] = "none" /\ status[c] = -1 /\ got[c] = 0 /\ held[c]["out"] = 0 /\ ~late[c]
  /\ at[c] = "fork" => \A p \in Pipes, e \in Ends : <<Host, c, p, e>> \in fds
  /\ at[c] = "forked" => \A p \in Pipes : HostFd(c, p) \in fds

\* A service that runs holds its own three ends, and one that was never started
\* or has been waited for does nothing.
ServiceHolds(c) ==
  /\ child[c] \in {"reading", "writing"} => \A p \in Pipes : <<c, c, p, ServiceEnd(p)>> \in fds
  /\ child[c] = "reading" => got[c] = 0 /\ held[c]["out"] = 0
  /\ at[c] = "done" => child[c] = "none"
  /\ late[c] => child[c] \in {"ended", "none"}

\* The program has an end only behind its last chunk.
InputWhole(c) ==
  /\ child[c] = "reading" /\ HostFd(c, "in") \notin fds => written[c] = InSize
  /\ status[c] \in {0, 2, 3} => written[c] = InSize

\* No chunk of the answer is lost, and the host's end stays until all are read.
AnswerWhole(c) ==
  /\ status[c] = 0 => got[c] + held[c]["out"] + left[c]["out"] = OutSize
  /\ status[c] = 0 /\ child[c] # "writing" => left[c]["out"] = 0
  /\ at[c] # "start" /\ ~late[c] /\ HostFd(c, "out") \notin fds =>
       held[c]["out"] = 0 /\ child[c] \notin {"reading", "writing"}
  /\ at[c] = "wait" /\ ~late[c] => HostFd(c, "out") \notin fds

Answered(c) ==
  at[c] = "done" =>
    /\ answer[c] = "program" => status[c] = 0 /\ got[c] = OutSize
    /\ status[c] = 0 /\ ~late[c] => answer[c] = "program"

CallInv(c) ==
  BeforeFork(c) /\ ServiceHolds(c) /\ InputWhole(c) /\ AnswerWhole(c) /\ Answered(c)

PInv == PTypeOK /\ \A c \in Callers : CallInv(c)
------------------------------------------------------------------------------
\* What the step of another thread, or of its child, leaves alone.
Untouched(d) ==
  /\ at'[d] = at[d] /\ held'[d] = held[d] /\ written'[d] = written[d]
  /\ got'[d] = got[d] /\ child'[d] = child[d] /\ left'[d] = left[d]
  /\ status'[d] = status[d] /\ late'[d] = late[d] /\ answer'[d] = answer[d]
  /\ \A q \in {Host, d}, p \in Pipes, e \in Ends : <<q, d, p, e>> \in fds' <=> <<q, d, p, e>> \in fds

LEMMA Frame == ASSUME NEW d \in Callers, CallInv(d), Untouched(d) PROVE CallInv(d)'
  BY DEF CallInv, BeforeFork, ServiceHolds, InputWhole, AnswerWhole, Answered, Untouched,
         HostFd, HostEnd, ServiceEnd, Pipes, Ends

Step(c) == CallerStep(c) \/ ServiceStep(c) \/ ExecFails(c)

LEMMA TypeStep == ASSUME PTypeOK, NEW c \in Callers, Step(c) PROVE PTypeOK'
  <1> USE DEF PTypeOK, Move, Pipes
  <1>1. CASE OpenPipes(c)  BY <1>1 DEF OpenPipes
  <1>2. CASE Fork(c)  BY <1>2 DEF Fork
  <1>3. CASE ForkFails(c)  BY <1>3 DEF ForkFails
  <1>4. CASE CloseServiceEnds(c)  BY <1>4 DEF CloseServiceEnds
  <1>5. CASE PollIn(c)  BY <1>5 DEF PollIn
  <1>6. ASSUME NEW p \in {"out", "err"}, PollRead(c, p) PROVE PTypeOK'  BY <1>6 DEF PollRead
  <1>7. CASE AllRead(c)  BY <1>7 DEF AllRead
  <1>8. CASE TimeOut(c)  BY <1>8 DEF TimeOut
  <1>9. CASE Kill(c)  BY <1>9 DEF Kill
  <1>10. CASE Wait(c)  BY <1>10 DEF Wait
  <1>11. CASE ReadInput(c)  BY <1>11 DEF ReadInput
  <1>12. CASE Lower(c)  BY <1>12, SizesNat DEF Lower
  <1>13. ASSUME NEW p \in {"out", "err"}, WriteAnswer(c, p) PROVE PTypeOK'
    BY <1>13 DEF WriteAnswer
  <1>14. CASE ExitService(c)  BY <1>14 DEF ExitService, Ended
  <1>15. CASE BrokenPipe(c)  BY <1>15 DEF BrokenPipe, Ended
  <1>16. CASE ExecFails(c)  BY <1>16 DEF ExecFails, Ended
  <1> QED
    BY <1>1, <1>2, <1>3, <1>4, <1>5, <1>6, <1>7, <1>8, <1>9, <1>10, <1>11, <1>12, <1>13, <1>14,
       <1>15, <1>16 DEF Step, CallerStep, ServiceStep

LEMMA OthersUntouched ==
  ASSUME PTypeOK, NEW c \in Callers, NEW d \in Callers \ {c}, Step(c) PROVE Untouched(d)
  <1> USE HostIsNoChild DEF PTypeOK, Move, Pipes, Ends, Untouched, HostFd, HostEnd, ServiceEnd,
                            OfProcess
  <1>1. CASE OpenPipes(c)  BY <1>1 DEF OpenPipes
  <1>2. CASE Fork(c)  BY <1>2 DEF Fork
  <1>3. CASE ForkFails(c)  BY <1>3 DEF ForkFails
  <1>4. CASE CloseServiceEnds(c)  BY <1>4 DEF CloseServiceEnds
  <1>5. CASE PollIn(c)  BY <1>5 DEF PollIn
  <1>6. ASSUME NEW p \in {"out", "err"}, PollRead(c, p) PROVE Untouched(d)  BY <1>6 DEF PollRead
  <1>7. CASE AllRead(c)  BY <1>7 DEF AllRead
  <1>8. CASE TimeOut(c)  BY <1>8 DEF TimeOut
  <1>9. CASE Kill(c)  BY <1>9 DEF Kill
  <1>10. CASE Wait(c)  BY <1>10 DEF Wait
  <1>11. CASE ReadInput(c)  BY <1>11 DEF ReadInput
  <1>12. CASE Lower(c)  BY <1>12 DEF Lower
  <1>13. ASSUME NEW p \in {"out", "err"}, WriteAnswer(c, p) PROVE Untouched(d)
    BY <1>13 DEF WriteAnswer
  <1>14. CASE ExitService(c)  BY <1>14 DEF ExitService, Ended
  <1>15. CASE BrokenPipe(c)  BY <1>15 DEF BrokenPipe, Ended
  <1>16. CASE ExecFails(c)  BY <1>16 DEF ExecFails, Ended
  <1> QED
    BY <1>1, <1>2, <1>3, <1>4, <1>5, <1>6, <1>7, <1>8, <1>9, <1>10, <1>11, <1>12, <1>13, <1>14,
       <1>15, <1>16 DEF Step, CallerStep, ServiceStep

LEMMA CallStep == ASSUME PTypeOK, NEW c \in Callers, CallInv(c), Step(c) PROVE CallInv(c)'
  <1> USE HostIsNoChild DEF PTypeOK, CallInv, BeforeFork, ServiceHolds, InputWhole, AnswerWhole,
            Answered, Move, Pipes, Ends, HostFd, HostEnd, ServiceEnd, OfProcess
  <1>1. CASE OpenPipes(c)  BY <1>1 DEF OpenPipes, Opened, AtEnd, Unread, Ready
  <1>2. CASE Fork(c)
    <2>1. BeforeFork(c)'  BY <1>2 DEF Fork
    <2>2. ServiceHolds(c)'
      <3>1. ASSUME NEW p \in Pipes PROVE <<c, c, p, ServiceEnd(p)>> \in fds'
        <4> HIDE DEF PTypeOK, Move
        <4> DEFINE fd == <<Host, c, p, ServiceEnd(p)>>
                   kept == {x \in OfProcess(Host) : x[2] = c => x[4] = ServiceEnd(x[3])}
        <4>1. fd \in fds /\ fd \in kept
          <5>1. at[c] = "fork"  BY <1>2 DEF Fork, Move
          <5>2. fd \in fds  BY <5>1
          <5>3. fd[1] = Host /\ fd[3] = p /\ fd[4] = ServiceEnd(p)  OBVIOUS
          <5> QED  BY <5>2, <5>3
        <4>2. fds' = fds \cup {<<c, x[2], x[3], x[4]>> : x \in kept}  BY <1>2 DEF Fork
        <4>3. <<c, fd[2], fd[3], fd[4]>> \in fds'  BY ONLY <4>1, <4>2
        <4>4. fd[2] = c /\ fd[3] = p /\ fd[4] = ServiceEnd(p)  OBVIOUS
        <4> QED  BY ONLY <4>3, <4>4
      <3>2. at[c] = "fork" /\ at'[c] = "forked" /\ late' = late /\ got' = got /\ held' = held
        BY <1>2 DEF Fork
      <3> QED  BY <3>1, <3>2
    <2>3. InputWhole(c)'  BY <1>2 DEF Fork
    <2>4. AnswerWhole(c)'  BY <1>2 DEF Fork
    <2>5. Answered(c)'  BY <1>2 DEF Fork
    <2> QED  BY <2>1, <2>2, <2>3, <2>4, <2>5
  <1>3. CASE ForkFails(c)  BY <1>3 DEF ForkFails, Opened, AtEnd, Unread, Ready
  <1>4. CASE CloseServiceEnds(c)  BY <1>4 DEF CloseServiceEnds, Opened, AtEnd, Unread, Ready
  <1>5. CASE PollIn(c)
    <2>1. BeforeFork(c)'  BY <1>5 DEF PollIn, Opened, AtEnd, Unread, Ready
    <2>2. ServiceHolds(c)'  BY <1>5 DEF PollIn, Opened, AtEnd, Unread, Ready
    <2>3. InputWhole(c)'
      <3>1. CASE Unread(c, "in")
        <4>1. child[c] # "reading"  BY <3>1 DEF Unread
        <4>2. written'[c] = written[c]  BY <1>5, <3>1 DEF PollIn
        <4> QED  BY <1>5, <4>1, <4>2 DEF PollIn
      <3>2. CASE written[c] = InSize
        <4>1. written'[c] = InSize  BY <1>5, <3>2 DEF PollIn
        <4> QED  BY <1>5, <4>1 DEF PollIn
      <3>3. CASE ~Unread(c, "in") /\ written[c] # InSize
        <4>1. written'[c] = written[c] + 1 /\ status'[c] = status[c] /\ child'[c] = child[c]
          BY <1>5, <3>3 DEF PollIn
        <4>2. fds' = IF written[c] + 1 = InSize THEN fds \ {HostFd(c, "in")} ELSE fds
          BY <1>5, <3>3 DEF PollIn
        <4> QED  BY <3>3, <4>1, <4>2
      <3> QED  BY <3>1, <3>2, <3>3
    <2>4. AnswerWhole(c)'  BY <1>5 DEF PollIn, Opened, AtEnd, Unread, Ready
    <2>5. Answered(c)'  BY <1>5 DEF PollIn, Opened, AtEnd, Unread, Ready
    <2> QED  BY <2>1, <2>2, <2>3, <2>4, <2>5
  <1>6. ASSUME NEW p \in {"out", "err"}, PollRead(c, p) PROVE CallInv(c)'
    <2>1. BeforeFork(c)'  BY <1>6 DEF PollRead, Opened, AtEnd, Unread, Ready
    <2>2. ServiceHolds(c)'
      <3>1. \A q \in Pipes : <<c, c, q, ServiceEnd(q)>> \in fds => <<c, c, q, ServiceEnd(q)>> \in fds'
        BY <1>6 DEF PollRead
      <3>2. child' = child /\ at' = at /\ late' = late  BY <1>6 DEF PollRead
      <3>3. held[c]["out"] = 0 /\ got[c] = 0 => held'[c]["out"] = 0 /\ got'[c] = 0
        BY <1>6 DEF PollRead
      <3> QED  BY <3>1, <3>2, <3>3
    <2>3. InputWhole(c)'  BY <1>6 DEF PollRead, Opened, AtEnd, Unread, Ready
    <2>4. AnswerWhole(c)'
      <3>1. /\ at[c] = "poll" /\ at' = at /\ child' = child /\ late' = late
            /\ left' = left /\ status' = status
        BY <1>6 DEF PollRead
      <3>2. CASE p = "err"
        <4>1. got'[c] = got[c] /\ held'[c]["out"] = held[c]["out"]  BY <1>6, <3>2 DEF PollRead
        <4>2. HostFd(c, "out") \in fds' <=> HostFd(c, "out") \in fds  BY <1>6, <3>2 DEF PollRead
        <4> QED  BY <3>1, <4>1, <4>2
      <3>3. CASE p = "out"
        <4>1. got'[c] = got[c] + held[c]["out"] /\ held'[c]["out"] = 0  BY <1>6, <3>3 DEF PollRead
        <4>2. ASSUME HostFd(c, "out") \notin fds' PROVE <<c, c, "out", "write">> \notin fds
          <5>1. HostFd(c, "out") \in fds  BY <1>6, <3>3 DEF PollRead, Ready, Opened
          <5>2. held[c]["out"] = 0  BY <1>6, <3>3, <4>2, <5>1 DEF PollRead
          <5>3. AtEnd(c, "out")  BY <1>6, <3>3, <5>2 DEF PollRead, Ready
          <5> QED  BY <5>3 DEF AtEnd
        <4>3. HostFd(c, "out") \notin fds' => child[c] \notin {"reading", "writing"}  BY <4>2
        <4>4. got'[c] + held'[c]["out"] + left'[c]["out"] = got[c] + held[c]["out"] + left[c]["out"]
          BY <3>1, <4>1
        <4> QED  BY <3>1, <4>1, <4>3, <4>4
      <3> QED  BY <3>2, <3>3
    <2>5. Answered(c)'  BY <1>6 DEF PollRead, Opened, AtEnd, Unread, Ready
    <2> QED  BY <2>1, <2>2, <2>3, <2>4, <2>5
  <1>7. CASE AllRead(c)  BY <1>7 DEF AllRead, Opened, AtEnd, Unread, Ready
  <1>8. CASE TimeOut(c)  BY <1>8 DEF TimeOut, Opened, AtEnd, Unread, Ready
  <1>9. CASE Kill(c)  BY <1>9 DEF Kill, Opened, AtEnd, Unread, Ready
  <1>10. CASE Wait(c)  BY <1>10 DEF Wait, Parses, Opened, AtEnd, Unread, Ready
  <1>11. CASE ReadInput(c)  BY <1>11 DEF ReadInput, Opened, AtEnd, Unread, Ready
  <1>12. CASE Lower(c)
    <2>1. BeforeFork(c)'  BY <1>12 DEF Lower, AtEnd
    <2>2. ServiceHolds(c)'  BY <1>12 DEF Lower, AtEnd
    <2>3. InputWhole(c)'  BY <1>12 DEF Lower, AtEnd
    <2>4. AnswerWhole(c)'
      <3>1. PICK result \in {0, 2, 3} :
              /\ status' = [status EXCEPT ![c] = result]
              /\ left' = [left EXCEPT ![c]["out"] = IF result = 0 THEN OutSize ELSE 0,
                                      ![c]["err"] = IF result = 0 THEN 0 ELSE 1]
        <4>1. \E result \in {0, 2, 3} :
                /\ written[c] < InSize => result # 0
                /\ status' = [status EXCEPT ![c] = result]
                /\ left' = [left EXCEPT ![c]["out"] = IF result = 0 THEN OutSize ELSE 0,
                                        ![c]["err"] = IF result = 0 THEN 0 ELSE 1]
          BY <1>12, Zenon DEF Lower
        <4> QED  BY <4>1, Zenon
      <3>2. status'[c] = result /\ (result = 0 => left'[c]["out"] = OutSize)  BY <3>1
      <3>3. /\ child[c] = "reading" /\ child'[c] = "writing"
            /\ at' = at /\ fds' = fds /\ held' = held /\ got' = got /\ late' = late
        BY <1>12 DEF Lower
      <3> QED  BY <3>2, <3>3, SizesNat
    <2>5. Answered(c)'  BY <1>12 DEF Lower, AtEnd
    <2> QED  BY <2>1, <2>2, <2>3, <2>4, <2>5
  <1>13. ASSUME NEW p \in {"out", "err"}, WriteAnswer(c, p) PROVE CallInv(c)'  BY <1>13 DEF WriteAnswer, Ready, Opened, AtEnd, Unread
  <1>14. CASE ExitService(c)  BY <1>14 DEF ExitService, Opened, AtEnd, Unread, Ready, Ended
  <1>15. CASE BrokenPipe(c)  BY <1>15 DEF BrokenPipe, Opened, AtEnd, Unread, Ready, Ended
  <1>16. CASE ExecFails(c)  BY <1>16 DEF ExecFails, Opened, AtEnd, Unread, Ready, Ended
  <1> QED
    BY <1>1, <1>2, <1>3, <1>4, <1>5, <1>6, <1>7, <1>8, <1>9, <1>10, <1>11, <1>12, <1>13, <1>14,
       <1>15, <1>16 DEF Step, CallerStep, ServiceStep
------------------------------------------------------------------------------
LEMMA InitInv == ASSUME PInit PROVE PInv
  BY HostIsNoChild DEF PInit, PInv, PTypeOK, CallInv, BeforeFork, ServiceHolds, InputWhole, AnswerWhole,
     Answered, Pipes

LEMMA StepInv == ASSUME PInv, [PNext]_procVars PROVE PInv'
  <1>1. CASE PNext
    <2>1. PICK c \in Callers : Step(c)  BY <1>1 DEF PNext, Step
    <2>2. PTypeOK'  BY <2>1, TypeStep DEF PInv
    <2>3. CallInv(c)'  BY <2>1, CallStep DEF PInv
    <2>4. ASSUME NEW d \in Callers \ {c} PROVE CallInv(d)'
      <3>1. Untouched(d)  BY <2>1, OthersUntouched DEF PInv
      <3> QED  BY <3>1, Frame DEF PInv
    <2> QED  BY <2>2, <2>3, <2>4 DEF PInv
  <1>2. CASE UNCHANGED procVars
    BY <1>2 DEF PInv, PTypeOK, CallInv, BeforeFork, ServiceHolds, InputWhole, AnswerWhole, Answered,
       procVars, HostFd, HostEnd, ServiceEnd
  <1> QED  BY <1>1, <1>2

\* The state of every compile stays well typed and the parts of its invariant hold
\* (RunLoweringSubprocess and lower_service.py's main).
THEOREM Inductive == PSpec => []PInv
  BY InitInv, StepInv, PTL DEF PSpec

\* A compile answers with what its own service made of the whole program, for any
\* number of threads and any sizes; an answer that came too late, or was cut off by
\* the timeout, is not taken for a program.
THEOREM OwnAnswer == PSpec => []AnswersOwnProgram
  <1>1. PInv => AnswersOwnProgram
    BY DEF PInv, CallInv, InputWhole, Answered, AnswersOwnProgram
  <1> QED  BY <1>1, Inductive, PTL
------------------------------------------------------------------------------
(* Transfers and execution *)

BufferStates == {"gone", "live", "deleted"}

BufShape(b) ==
  /\ bufs[b] = [state |-> bufs[b].state, mem |-> bufs[b].mem, value |-> bufs[b].value]
  /\ bufs[b].state \in BufferStates /\ bufs[b].mem \in Mems \cup {None}
  /\ bufs[b].state = "live" <=> bufs[b].mem # None

PutShape(c) ==
  /\ c.at \in {"put", "written"}
  /\ c = [at |-> c.at, n |-> c.n, args |-> <<>>, mem |-> c.mem, value |-> c.value]
  /\ c.n \in 1 .. MaxCalls /\ c.mem \in Mems /\ c.value \in Data

ExecShape(c) ==
  /\ c.at \in {"bind", "input", "copy"}
  /\ c = [at |-> c.at, n |-> c.n, args |-> c.args, prog |-> c.prog, ins |-> c.ins,
          wanted |-> c.wanted, outs |-> c.outs, done |-> c.done]
  /\ c.n \in 1 .. MaxCalls /\ c.prog \in Programs
  /\ c.args \in [DOMAIN c.prog.ins -> BufNames] /\ c.ins \in [DOMAIN c.prog.ins -> Mems]
  /\ c.outs \in Seq(Mems) /\ Len(c.outs) <= Len(c.prog.outs)
  /\ c.done \in Nat
  /\ c.at = "copy" => Len(c.outs) = Len(c.prog.outs)

CallShape(c) == c = Idle \/ PutShape(c) \/ ExecShape(c)

XTypeOK ==
  /\ created \subseteq Mems /\ pool \in Seq(Mems) /\ calls \in Nat
  /\ bufs = [b \in BufNames |-> bufs[b]] /\ \A b \in BufNames : BufShape(b)
  /\ call = [t \in Threads |-> call[t]] /\ \A t \in Threads : CallShape(call[t])

\* Calls have numbers of their own, which name the buffers they have yet to return.
Numbered ==
  /\ \A t, u \in Threads : call[t] # Idle /\ call[u] # Idle /\ call[t].n = call[u].n => t = u
  /\ \A t \in Threads : call[t] # Idle =>
       call[t].n <= calls /\ \A b \in BufNames : b[1] = call[t].n => bufs[b] = Gone
  /\ \A b \in BufNames : b[1] > calls => bufs[b] = Gone
------------------------------------------------------------------------------
(* Owners *)

PoolOK == IsInjective(pool) /\ ToSet(pool) \subseteq created

\* What the pool has given out.
InHand == created \ ToSet(pool)

Handles == ({"buffer"} \X BufNames) \cup ({"put"} \X Threads) \cup ({"out"} \X (Threads \X Nat))

PutMem(t)    == IF call[t].at \in {"put", "written"} THEN call[t].mem ELSE None
OutMem(t, i) == IF call[t].at \in {"bind", "input", "copy"} /\ i \in DOMAIN call[t].outs
                THEN call[t].outs[i] ELSE None

\* The cl_mem that is a buffer's, an upload's, or the i-th result's of an execution.
MemOf(h) == IF h[1] = "buffer" THEN bufs[h[2]].mem
            ELSE IF h[1] = "put" THEN PutMem(h[2]) ELSE OutMem(h[2][1], h[2][2])

Owned1 ==
  /\ \A h \in Handles : MemOf(h) # None => MemOf(h) \in InHand
  /\ \A g, h \in Handles : MemOf(g) = MemOf(h) /\ MemOf(g) # None => g = h
  /\ \A m \in InHand : \E h \in Handles : MemOf(h) = m

OwnInv == XTypeOK /\ Numbered /\ PoolOK /\ Owned1
------------------------------------------------------------------------------
PoolTypeOK == created \subseteq Mems /\ pool \in Seq(Mems)

\* PoolAlloc gives out a cl_mem that is in nobody's hands.
LEMMA AllocEffect ==
  ASSUME PoolTypeOK, PoolOK, NEW m, PoolAlloc(m)
  PROVE  m \in Mems /\ m \notin InHand /\ InHand' = InHand \cup {m} /\ PoolTypeOK' /\ PoolOK'
  <1> USE DEF PoolTypeOK, PoolOK, InHand, ToSet, IsInjective
  <1>1. CASE pool # <<>>
    <2> DEFINE n == Len(pool)
    <2>1. n \in Nat \ {0} /\ DOMAIN pool = 1 .. n /\ m = pool[n] /\ created' = created
      BY <1>1 DEF PoolAlloc, Last
    <2>2. pool' = SubSeq(pool, 1, n - 1)  BY <1>1 DEF PoolAlloc, Front
    <2>3. pool' \in Seq(Mems) /\ DOMAIN pool' = 1 .. n - 1 /\ \A k \in 1 .. n - 1 : pool'[k] = pool[k]
      BY <2>1, <2>2
    <2>4. ToSet(pool') = ToSet(pool) \ {m}  BY <2>1, <2>3
    <2> QED  BY <2>1, <2>3, <2>4
  <1>2. CASE pool = <<>>
    <2>1. m \in Free /\ created' = created \cup {m} /\ pool' = pool  BY <1>2 DEF PoolAlloc
    <2>2. ToSet(pool) = {}  BY <1>2
    <2> QED  BY <2>1, <2>2 DEF Free
  <1> QED  BY <1>1, <1>2

LEMMA FreeEffect ==
  ASSUME PoolTypeOK, PoolOK, NEW m \in InHand, PoolFree(m)
  PROVE  InHand' = InHand \ {m} /\ PoolTypeOK' /\ PoolOK'
  <1> USE DEF PoolTypeOK, PoolOK, InHand, ToSet, IsInjective
  <1>1. CASE Len(pool) < PoolCap
    <2>1. pool' = Append(pool, m) /\ created' = created  BY <1>1 DEF PoolFree
    <2>2. /\ DOMAIN pool = 1 .. Len(pool) /\ DOMAIN pool' = 1 .. Len(pool) + 1
          /\ pool'[Len(pool) + 1] = m /\ \A k \in 1 .. Len(pool) : pool'[k] = pool[k]
          /\ pool' \in Seq(Mems)
      BY <2>1
    <2>3. ToSet(pool') = ToSet(pool) \cup {m}  BY <2>2
    <2> QED  BY <2>1, <2>2, <2>3
  <1>2. CASE ~(Len(pool) < PoolCap)
    BY <1>2 DEF PoolFree
  <1> QED  BY <1>1, <1>2
------------------------------------------------------------------------------
(* Types *)

\* The thread t moves to x, and nobody else moves.
To(t, x) ==
  /\ call' = [u \in Threads |-> call'[u]] /\ call'[t] = x
  /\ \A u \in Threads \ {t} : call'[u] = call[u]

LEMMA Moves ==
  ASSUME call = [u \in Threads |-> call[u]], NEW t \in Threads, NEW x, call' = [call EXCEPT ![t] = x]
  PROVE  To(t, x)
  BY DEF To

LEMMA MovesAt ==
  ASSUME call = [u \in Threads |-> call[u]], NEW t \in Threads, NEW x,
         call' = [call EXCEPT ![t].at = x]
  PROVE  To(t, [call[t] EXCEPT !.at = x])
  BY DEF To

LEMMA MovesOuts ==
  ASSUME call = [u \in Threads |-> call[u]], NEW t \in Threads, NEW m,
         call' = [call EXCEPT ![t].outs = Append(@, m)]
  PROVE  To(t, [call[t] EXCEPT !.outs = Append(call[t].outs, m)])
  BY DEF To

LEMMA MovesDone ==
  ASSUME call = [u \in Threads |-> call[u]], NEW t \in Threads, Counts(t)
  PROVE  To(t, [call[t] EXCEPT !.done = call[t].done + 1])
  BY DEF To, Counts

\* Where the thread t may be after a step of its own.
LEMMA PutShapes ==
  ASSUME NEW t \in Threads, XTypeOK
  PROVE  /\ call[t].at \in {"put", "written"} <=> PutShape(call[t])
         /\ call[t].at \in {"bind", "input", "copy"} <=> ExecShape(call[t])
         /\ call[t].at = "idle" <=> call[t] = Idle
  BY DEF XTypeOK, CallShape, PutShape, ExecShape, Idle

CallsOK == call = [t \in Threads |-> call[t]] /\ \A t \in Threads : CallShape(call[t])
BufsOK  == bufs = [b \in BufNames |-> bufs[b]] /\ \A b \in BufNames : BufShape(b)

LEMMA CallsOKMoves ==
  ASSUME CallsOK, NEW t \in Threads, NEW x, CallShape(x), To(t, x) PROVE CallsOK'
  BY DEF CallsOK, To

\* A call's record with some of its fields changed.
LEMMA ExecChanged ==
  ASSUME NEW c, ExecShape(c), NEW stage \in {"bind", "input", "copy"}, NEW outs \in Seq(Mems),
         NEW done \in Nat, Len(outs) <= Len(c.prog.outs),
         stage = "copy" => Len(outs) = Len(c.prog.outs),
         NEW d, d = [c EXCEPT !.at = stage, !.outs = outs, !.done = done]
  PROVE  ExecShape(d)
  <1>1. d = [at |-> stage, n |-> c.n, args |-> c.args, prog |-> c.prog, ins |-> c.ins,
             wanted |-> c.wanted, outs |-> outs, done |-> done]
    BY DEF ExecShape
  <1>2. d.at = stage /\ d.n = c.n /\ d.args = c.args /\ d.prog = c.prog /\ d.ins = c.ins
        /\ d.wanted = c.wanted /\ d.outs = outs /\ d.done = done
    BY <1>1
  <1> QED  BY <1>1, <1>2 DEF ExecShape

LEMMA CallsStep ==
  ASSUME XTypeOK, PoolOK, NEW t \in Threads, ThreadStep(t) PROVE CallsOK' /\ calls' \in Nat
  <1>0. CallsOK /\ CallShape(call[t]) /\ calls \in Nat  BY DEF XTypeOK, CallsOK
  <1>m. call = [u \in Threads |-> call[u]]  BY <1>0 DEF CallsOK
  <1>s. /\ call[t].at \in {"put", "written"} <=> PutShape(call[t])
        /\ call[t].at \in {"bind", "input", "copy"} <=> ExecShape(call[t])
    BY PutShapes
  <1>i. CallShape(Idle)  BY DEF CallShape
  <1>r. ASSUME Returns(t) PROVE CallsOK'
    <2>1. To(t, Idle)  BY <1>m, <1>r, Moves DEF Returns
    <2> QED  BY <1>0, <1>i, <2>1, CallsOKMoves
  <1>f. ASSUME Fails(t) PROVE CallsOK' /\ calls' \in Nat  BY <1>0, <1>f, <1>r DEF Fails
  <1>1. CASE PutAlloc(t)
    <2>1. PICK v \in Data, m \in Mems :
            Begins(t, [at |-> "put", n |-> calls + 1, args |-> <<>>, mem |-> m, value |-> v])
      BY <1>1 DEF PutAlloc
    <2> DEFINE x == [at |-> "put", n |-> calls + 1, args |-> <<>>, mem |-> m, value |-> v]
    <2>2. calls + 1 \in 1 .. MaxCalls /\ calls' = calls + 1  BY <1>0, <2>1, MaxCallsNat DEF Begins
    <2>3. CallShape(x)  BY <2>2 DEF CallShape, PutShape
    <2>4. To(t, x)  BY <1>m, <2>1, Moves DEF Begins
    <2> QED  BY <1>0, <2>2, <2>3, <2>4, CallsOKMoves
  <1>2. CASE PutWrite(t)
    <2>1. call[t].at = "put" /\ call' = [call EXCEPT ![t].at = "written"] /\ calls' = calls
      BY <1>2 DEF PutWrite, Goes
    <2>2. To(t, [call[t] EXCEPT !.at = "written"])  BY <1>m, <2>1, MovesAt
    <2>3. CallShape([call[t] EXCEPT !.at = "written"])  BY <1>s, <2>1 DEF CallShape, PutShape
    <2> QED  BY <1>0, <2>1, <2>2, <2>3, CallsOKMoves
  <1>3. CASE PutDone(t)  BY <1>0, <1>3, <1>r DEF PutDone
  <1>4. ASSUME NEW b \in BufNames, Delete(t, b) \/ Destroy(t, b) PROVE CallsOK' /\ calls' \in Nat
    <2>1. Begins(t, Idle)  BY <1>4 DEF Delete, Destroy
    <2>2. To(t, Idle) /\ calls' = calls + 1  BY <1>m, <2>1, Moves DEF Begins
    <2> QED  BY <1>0, <1>i, <2>2, CallsOKMoves
  <1>5. CASE ExecStart(t)
    <2>0. PICK p \in Programs : \E args \in [DOMAIN p.ins -> {b \in BufNames : Live(b)}] :
            Begins(t, [at |-> "bind", n |-> calls + 1, args |-> args, prog |-> p,
                       ins |-> [i \in DOMAIN args |-> bufs[args[i]].mem],
                       wanted |-> Meaning(p, [i \in DOMAIN args |-> bufs[args[i]].value]),
                       outs |-> <<>>, done |-> 0])
      BY <1>5 DEF ExecStart
    <2>1. PICK args \in [DOMAIN p.ins -> {b \in BufNames : Live(b)}] :
            Begins(t, [at |-> "bind", n |-> calls + 1, args |-> args, prog |-> p,
                       ins |-> [i \in DOMAIN args |-> bufs[args[i]].mem],
                       wanted |-> Meaning(p, [i \in DOMAIN args |-> bufs[args[i]].value]),
                       outs |-> <<>>, done |-> 0])
      BY <2>0
    <2> DEFINE ins == [i \in DOMAIN args |-> bufs[args[i]].mem]
               w   == Meaning(p, [i \in DOMAIN args |-> bufs[args[i]].value])
               x   == [at |-> "bind", n |-> calls + 1, args |-> args, prog |-> p, ins |-> ins,
                       wanted |-> w, outs |-> <<>>, done |-> 0]
    <2>2. calls + 1 \in 1 .. MaxCalls /\ calls' = calls + 1  BY <1>0, <2>1, MaxCallsNat DEF Begins
    <2>3. \A b \in BufNames : Live(b) => bufs[b].mem \in Mems  BY DEF XTypeOK, BufShape, Live
    <2>4. ins \in [DOMAIN p.ins -> Mems] /\ args \in [DOMAIN p.ins -> BufNames]  BY <2>3
    <2>5. Len(p.outs) \in Nat  BY ProgramShape
    <2> HIDE DEF ins, w
    <2>6. CallShape(x)  BY <2>2, <2>4, <2>5 DEF CallShape, ExecShape
    <2> USE DEF ins, w
    <2>7. To(t, x)  BY <1>m, <2>1, Moves DEF Begins
    <2> QED  BY <1>0, <2>2, <2>6, <2>7, CallsOKMoves
  <1>6. CASE ExecBind(t)
    <2>1. call[t].at = "bind" /\ call' = [call EXCEPT ![t].at = "input"] /\ calls' = calls
      BY <1>6 DEF ExecBind, Goes
    <2>2. To(t, [call[t] EXCEPT !.at = "input"])  BY <1>m, <2>1, MovesAt
    <2>3. CallShape([call[t] EXCEPT !.at = "input"])  BY <1>s, <2>1 DEF CallShape, ExecShape
    <2> QED  BY <1>0, <2>1, <2>2, <2>3, CallsOKMoves
  <1>7. CASE ExecInput(t) \/ ExecCopy(t)
    <2>1. call[t].at \in {"input", "copy"} /\ Counts(t) /\ calls' = calls
      BY <1>7 DEF ExecInput, ExecCopy
    <2>2. To(t, [call[t] EXCEPT !.done = call[t].done + 1])  BY <1>m, <2>1, MovesDone
    <2>3. CallShape([call[t] EXCEPT !.done = call[t].done + 1])
      BY <1>s, <2>1 DEF CallShape, ExecShape
    <2> QED  BY <1>0, <2>1, <2>2, <2>3, CallsOKMoves
  <1>8. CASE ExecAlloc(t)
    <2>1. /\ call[t].at = "input" /\ Len(call[t].outs) < Len(call[t].prog.outs) /\ calls' = calls
          /\ \E m \in Mems : call' = [call EXCEPT ![t].outs = Append(@, m)]
      BY <1>8 DEF ExecAlloc, InputsDone
    <2>2. PICK m \in Mems : call' = [call EXCEPT ![t].outs = Append(@, m)]  BY <2>1
    <2>3. To(t, [call[t] EXCEPT !.outs = Append(call[t].outs, m)])  BY <1>m, <2>2, MovesOuts
    <2>4. ExecShape(call[t])  BY <1>s, <2>1
    <2>5. Len(call[t].prog.outs) \in Nat  BY <2>4, ProgramShape DEF ExecShape
    <2>6. /\ Append(call[t].outs, m) \in Seq(Mems)
          /\ Len(Append(call[t].outs, m)) <= Len(call[t].prog.outs)
      BY <2>1, <2>4, <2>5 DEF ExecShape
    <2>7. CallShape([call[t] EXCEPT !.outs = Append(call[t].outs, m)])
      <3> DEFINE d == [call[t] EXCEPT !.outs = Append(call[t].outs, m)]
      <3>1. d = [call[t] EXCEPT !.at = "input", !.outs = Append(call[t].outs, m),
                                !.done = call[t].done]
        BY <2>1, <2>4 DEF ExecShape
      <3>2. call[t].done \in Nat  BY <2>4 DEF ExecShape
      <3> HIDE DEF d
      <3>3. ExecShape(d)  BY <2>4, <2>6, <3>1, <3>2, ExecChanged
      <3> QED  BY <3>3 DEF CallShape, d
    <2> QED  BY <1>0, <2>1, <2>3, <2>7, CallsOKMoves
  <1>9. CASE ExecLaunch(t)
    <2>1. /\ call[t].at = "input" /\ Len(call[t].outs) = Len(call[t].prog.outs) /\ calls' = calls
          /\ call' = [call EXCEPT ![t].at = "copy", ![t].done = 0]
      BY <1>9 DEF ExecLaunch, InputsDone, OutputsMade
    <2>2. To(t, [call[t] EXCEPT !.at = "copy", !.done = 0])  BY <1>m, <2>1 DEF To
    <2>3. CallShape([call[t] EXCEPT !.at = "copy", !.done = 0])
      <3> DEFINE d == [call[t] EXCEPT !.at = "copy", !.done = 0]
      <3>1. ExecShape(call[t])  BY <1>s, <2>1
      <3>2. d = [call[t] EXCEPT !.at = "copy", !.outs = call[t].outs, !.done = 0]
        BY <3>1 DEF ExecShape
      <3>3. call[t].outs \in Seq(Mems)  BY <3>1 DEF ExecShape
      <3>4. Len(call[t].outs) <= Len(call[t].prog.outs)  BY <3>1 DEF ExecShape
      <3> HIDE DEF d
      <3>5. ExecShape(d)  BY <2>1, <3>1, <3>2, <3>3, <3>4, ExecChanged
      <3> QED  BY <3>5 DEF CallShape, d
    <2> QED  BY <1>0, <2>1, <2>2, <2>3, CallsOKMoves
  <1>10. CASE ExecFinish(t)  BY <1>0, <1>10, <1>r DEF ExecFinish
  <1>11. CASE ExecInputFails(t) \/ ExecAllocFails(t) \/ ExecLaunchFails(t) \/ ExecCopyFails(t)
    BY <1>11, <1>f DEF ExecInputFails, ExecAllocFails, ExecLaunchFails, ExecCopyFails
  <1> QED
    BY <1>1, <1>2, <1>3, <1>4, <1>5, <1>6, <1>7, <1>8, <1>9, <1>10, <1>11 DEF ThreadStep

LEMMA BufsStep ==
  ASSUME XTypeOK, NEW t \in Threads, ThreadStep(t) PROVE BufsOK'
  <1>0. BufsOK  BY DEF XTypeOK, BufsOK
  <1>s. /\ call[t].at \in {"put", "written"} <=> PutShape(call[t])
        /\ call[t].at \in {"bind", "input", "copy"} <=> ExecShape(call[t])
    BY PutShapes
  <1>1. CASE PutDone(t)
    <2>1. call[t].mem \in Mems  BY <1>1, <1>s DEF PutDone, PutShape
    <2>2. bufs' = [bufs EXCEPT ![<<call[t].n, 1>>] = Owned(call[t].mem, call[t].value)]
      BY <1>1 DEF PutDone
    <2>3. /\ bufs' = [b \in BufNames |-> bufs'[b]]
          /\ \A b \in BufNames : bufs'[b] = bufs[b] \/ bufs'[b] = Owned(call[t].mem, call[t].value)
      BY <1>0, <2>2 DEF BufsOK
    <2> QED  BY <1>0, <2>1, <2>3, JunkApart DEF BufsOK, BufShape, Owned, BufferStates
  <1>2. ASSUME NEW b \in BufNames, Delete(t, b) PROVE BufsOK'
    <2>1. bufs' = [bufs EXCEPT ![b].state = "deleted", ![b].mem = None]  BY <1>2 DEF Delete
    <2>2. bufs'[b] = [state |-> "deleted", mem |-> None, value |-> bufs[b].value]
      <3>1. bufs'[b] = [bufs[b] EXCEPT !.state = "deleted", !.mem = None]  BY <1>0, <2>1 DEF BufsOK
      <3>2. bufs[b] = [state |-> bufs[b].state, mem |-> bufs[b].mem, value |-> bufs[b].value]
        BY <1>0 DEF BufsOK, BufShape
      <3> QED  BY <3>1, <3>2
    <2>3. /\ bufs' = [c \in BufNames |-> bufs'[c]]
          /\ \A c \in BufNames \ {b} : bufs'[c] = bufs[c]
      BY <1>0, <2>1 DEF BufsOK
    <2> QED  BY <1>0, <2>2, <2>3 DEF BufsOK, BufShape, BufferStates
  <1>3. ASSUME NEW b \in BufNames, Destroy(t, b) PROVE BufsOK'
    <2>1. bufs' = [bufs EXCEPT ![b] = Gone]  BY <1>3 DEF Destroy
    <2> QED  BY <1>0, <2>1 DEF BufsOK, BufShape, BufferStates, Gone
  <1>4. CASE ExecFinish(t)
    <2>1. call[t].outs \in Seq(Mems)  BY <1>4, <1>s DEF ExecFinish, CopiesDone, ExecShape
    <2>2. bufs' = [b \in BufNames |->
                     IF b[1] = call[t].n /\ b[2] \in DOMAIN call[t].outs
                     THEN Owned(call[t].outs[b[2]], call[t].wanted[b[2]]) ELSE bufs[b]]
      BY <1>4 DEF ExecFinish
    <2>3. bufs' = [b \in BufNames |-> bufs'[b]]  BY <2>2
    <2>4. ASSUME NEW b \in BufNames PROVE BufShape(b)'
      <3>1. CASE b[1] = call[t].n /\ b[2] \in DOMAIN call[t].outs
        <4> DEFINE m == call[t].outs[b[2]]
                   v == call[t].wanted[b[2]]
        <4>1. m \in Mems  BY <2>1, <3>1
        <4>2. bufs'[b] = [state |-> "live", mem |-> m, value |-> v]  BY <2>2, <3>1 DEF Owned
        <4> HIDE DEF m, v
        <4> QED  BY <4>1, <4>2, JunkApart DEF BufShape, BufferStates
      <3>2. CASE ~(b[1] = call[t].n /\ b[2] \in DOMAIN call[t].outs)
        <4>1. bufs'[b] = bufs[b]  BY <2>2, <3>2
        <4> QED  BY <1>0, <4>1 DEF BufsOK, BufShape
      <3> QED  BY <3>1, <3>2
    <2> QED  BY <2>3, <2>4 DEF BufsOK
  <1>5. CASE UNCHANGED bufs  BY <1>0, <1>5 DEF BufsOK, BufShape
  <1> QED
    BY <1>1, <1>2, <1>3, <1>4, <1>5
    DEF ThreadStep, PutAlloc, PutWrite, ExecStart, ExecBind, ExecInput, ExecInputFails, ExecAlloc,
        ExecAllocFails, ExecLaunch, ExecLaunchFails, ExecCopy, ExecCopyFails, Fails
------------------------------------------------------------------------------
(* How a cl_mem changes hands *)

LEMMA Taken ==
  ASSUME Owned1, PoolTypeOK, NEW g \in Handles, NEW m \in Mems, m \notin InHand, InHand' = InHand \cup {m},
         MemOf(g)' = m, MemOf(g) = None, \A h \in Handles \ {g} : MemOf(h)' = MemOf(h)
  PROVE  Owned1'
  <1>1. Handles' = Handles  BY DEF Handles, BufNames
  <1> QED  BY <1>1, JunkApart DEF Owned1, InHand, PoolTypeOK

LEMMA Dropped ==
  ASSUME Owned1, PoolTypeOK, NEW H \in SUBSET Handles, \A h \in Handles : MemOf(h)' = IF h \in H THEN None ELSE MemOf(h),
         InHand' = InHand \ {MemOf(h) : h \in H}
  PROVE  Owned1'
  <1>1. Handles' = Handles  BY DEF Handles, BufNames
  <1> QED  BY <1>1, JunkApart DEF Owned1, InHand, PoolTypeOK

LEMMA Passed ==
  ASSUME Owned1, PoolTypeOK, NEW H \in SUBSET Handles, NEW to \in [H -> Handles], IsInjective(to),
         InHand' = InHand,
         \A h \in H : MemOf(h)' = None /\ MemOf(to[h])' = MemOf(h) /\ MemOf(to[h]) = None,
         \A h \in Handles : h \notin H /\ (\A g \in H : to[g] # h) => MemOf(h)' = MemOf(h)
  PROVE  Owned1'
  <1>1. Handles' = Handles  BY DEF Handles, BufNames
  <1> QED  BY <1>1, JunkApart DEF Owned1, IsInjective, InHand, PoolTypeOK

\* A step that leaves every handle alone and neither makes nor takes back a cl_mem.
LEMMA Left ==
  ASSUME Owned1, InHand' = InHand, \A h \in Handles : MemOf(h)' = MemOf(h) PROVE Owned1'
  <1>1. Handles' = Handles  BY DEF Handles, BufNames
  <1> QED  BY <1>1 DEF Owned1

LEMMA OtherThreads ==
  ASSUME NEW t \in Threads, NEW x, To(t, x), NEW u \in Threads \ {t}, NEW i
  PROVE  PutMem(u)' = PutMem(u) /\ OutMem(u, i)' = OutMem(u, i)
  BY DEF To, PutMem, OutMem

\* What the handles of the thread t amount to when it moves to x.
LEMMA OwnThread ==
  ASSUME NEW t \in Threads, NEW x, To(t, x), NEW i
  PROVE  /\ PutMem(t)' = IF x.at \in {"put", "written"} THEN x.mem ELSE None
         /\ OutMem(t, i)' = IF x.at \in {"bind", "input", "copy"} /\ i \in DOMAIN x.outs
                            THEN x.outs[i] ELSE None
  BY DEF To, PutMem, OutMem

LEMMA MemOfEach ==
  /\ \A b \in BufNames : <<"buffer", b>> \in Handles /\ MemOf(<<"buffer", b>>) = bufs[b].mem
  /\ \A t \in Threads : <<"put", t>> \in Handles /\ MemOf(<<"put", t>>) = PutMem(t)
  /\ \A t \in Threads, i \in Nat :
       <<"out", <<t, i>>>> \in Handles /\ MemOf(<<"out", <<t, i>>>>) = OutMem(t, i)
  /\ \A h \in Handles : \/ \E b \in BufNames : h = <<"buffer", b>>
                        \/ \E t \in Threads : h = <<"put", t>>
                        \/ \E t \in Threads, i \in Nat : h = <<"out", <<t, i>>>>
  BY DEF Handles, MemOf

LEMMA MemOfNext ==
  /\ \A b \in BufNames : MemOf(<<"buffer", b>>)' = bufs'[b].mem
  /\ \A t \in Threads : MemOf(<<"put", t>>)' = PutMem(t)'
  /\ \A t \in Threads, i \in Nat : MemOf(<<"out", <<t, i>>>>)' = OutMem(t, i)'
  BY DEF MemOf

\* What is not the moving thread's, nor a buffer that changes, stays.
LEMMA OthersLeft ==
  ASSUME NEW t \in Threads, NEW x, To(t, x), NEW h \in Handles,
         h[1] = "buffer" => bufs'[h[2]].mem = bufs[h[2]].mem,
         h[1] = "put" /\ h[2] = t => PutMem(t)' = PutMem(t),
         h[1] = "out" /\ h[2][1] = t => OutMem(t, h[2][2])' = OutMem(t, h[2][2])
  PROVE  MemOf(h)' = MemOf(h)
  <1>1. CASE h[1] = "buffer"  BY <1>1 DEF MemOf
  <1>2. CASE h[1] = "put"
    <2>1. h[2] \in Threads  BY <1>2 DEF Handles
    <2>2. PutMem(h[2])' = PutMem(h[2])
      <3>1. CASE h[2] = t  BY <1>2, <3>1
      <3>2. CASE h[2] # t  BY <2>1, <3>2, OtherThreads
      <3> QED  BY <3>1, <3>2
    <2> QED  BY <1>2, <2>2 DEF MemOf
  <1>3. CASE h[1] = "out"
    <2>1. h[2][1] \in Threads  BY <1>3 DEF Handles
    <2>2. OutMem(h[2][1], h[2][2])' = OutMem(h[2][1], h[2][2])
      <3>1. CASE h[2][1] = t  BY <1>3, <3>1
      <3>2. CASE h[2][1] # t  BY <2>1, <3>2, OtherThreads
      <3> QED  BY <3>1, <3>2
    <2> QED  BY <1>3, <2>2 DEF MemOf
  <1> QED  BY <1>1, <1>2, <1>3 DEF Handles

\* A thread whose handles stay what they were.
LEMMA ThreadLeft ==
  ASSUME Owned1, InHand' = InHand, bufs' = bufs, NEW t \in Threads, NEW x, To(t, x),
         PutMem(t)' = PutMem(t), \A i \in Nat : OutMem(t, i)' = OutMem(t, i)
  PROVE  Owned1'
  <1>1. ASSUME NEW h \in Handles PROVE MemOf(h)' = MemOf(h)
    <2>1. h[1] = "out" => h[2][2] \in Nat  BY DEF Handles
    <2> QED  BY <2>1, OthersLeft
  <1> QED  BY <1>1, Left

PoolStepOK == PoolTypeOK' /\ PoolOK' /\ Owned1'

LEMMA OwnPut ==
  ASSUME OwnInv, NEW t \in Threads, PutAlloc(t) \/ PutWrite(t) \/ PutDone(t) PROVE PoolStepOK
  <1>0. /\ PoolTypeOK /\ PoolOK /\ Owned1
        /\ call = [u \in Threads |-> call[u]]
        /\ call[t].at \in {"put", "written"} => PutShape(call[t])
    BY PutShapes DEF OwnInv, XTypeOK, PoolTypeOK
  <1> USE DEF PoolStepOK
  <1>1. CASE PutAlloc(t)
    <2>1. PICK v \in Data, m \in Mems :
            /\ PoolAlloc(m)
            /\ Begins(t, [at |-> "put", n |-> calls + 1, args |-> <<>>, mem |-> m, value |-> v])
            /\ UNCHANGED <<mu, queue, arena, io_bufs, bufs>>
      BY <1>1 DEF PutAlloc
    <2> DEFINE x == [at |-> "put", n |-> calls + 1, args |-> <<>>, mem |-> m, value |-> v]
               g == <<"put", t>>
    <2>2. To(t, x) /\ call[t].at = "idle"  BY <1>0, <2>1, Moves DEF Begins, Idle
    <2>3. m \notin InHand /\ InHand' = InHand \cup {m} /\ PoolTypeOK' /\ PoolOK'
      BY <1>0, <2>1, AllocEffect
    <2>4. g \in Handles /\ MemOf(g) = None /\ MemOf(g)' = m
      BY <2>2, OwnThread DEF Handles, MemOf, PutMem
    <2>5. ASSUME NEW h \in Handles \ {g} PROVE MemOf(h)' = MemOf(h)
      <3>1. ~(h[1] = "put" /\ h[2] = t)  BY <2>5 DEF Handles
      <3>2. \A i : OutMem(t, i)' = OutMem(t, i)  BY <2>2 DEF OutMem, To
      <3> QED  BY <2>1, <2>2, <3>1, <3>2, OthersLeft
    <2> HIDE DEF g
    <2> QED  BY <1>0, <2>3, <2>4, <2>5, Taken
  <1>2. CASE PutWrite(t)
    <2>1. call' = [call EXCEPT ![t].at = "written"]  BY <1>2 DEF PutWrite, Goes
    <2>2. To(t, [call[t] EXCEPT !.at = "written"]) /\ PutShape(call[t])
      BY <1>0, <1>2, <2>1, MovesAt DEF PutWrite, Goes
    <2>3. call'[t].at = "written" /\ call'[t].mem = call[t].mem  BY <2>2 DEF To, PutShape
    <2>4. call[t].at = "put"  BY <1>2 DEF PutWrite, Goes
    <2>5. PutMem(t)' = PutMem(t) /\ \A i \in Nat : OutMem(t, i)' = OutMem(t, i)
      BY <2>3, <2>4 DEF PutMem, OutMem
    <2>6. InHand' = InHand /\ bufs' = bufs /\ PoolTypeOK' /\ PoolOK'
      BY <1>0, <1>2 DEF PutWrite, memVars, InHand, PoolTypeOK, PoolOK
    <2> QED  BY <1>0, <2>2, <2>5, <2>6, ThreadLeft
  <1>3. CASE PutDone(t)
    <2>b. PICK b : b = <<call[t].n, 1>>  OBVIOUS
    <2> DEFINE o == <<"put", t>>
               g == <<"buffer", b>>
               to == [h \in {o} |-> g]
    <2>1. To(t, Idle) /\ call[t].at = "written" /\ PutShape(call[t])
      BY <1>0, <1>3, Moves DEF PutDone, Returns
    <2>2. bufs' = [bufs EXCEPT ![b] = Owned(call[t].mem, call[t].value)]  BY <1>3, <2>b DEF PutDone
    <2>3. b \in BufNames /\ bufs[b] = Gone /\ call[t] # Idle
      BY <2>1, <2>b DEF BufNames, OwnInv, Numbered, PutShape, Idle
    <2>4. bufs = [c \in BufNames |-> bufs[c]]  BY DEF OwnInv, XTypeOK
    <2>5. bufs'[b].mem = call[t].mem /\ \A c \in BufNames \ {b} : bufs'[c] = bufs[c]
      BY <2>2, <2>3, <2>4 DEF Owned
    <2>6. InHand' = InHand /\ PoolTypeOK' /\ PoolOK'
      BY <1>0, <1>3 DEF PutDone, memVars, InHand, PoolTypeOK, PoolOK
    <2>7. o \in Handles /\ MemOf(o) = call[t].mem /\ MemOf(o)' = None
      BY <2>1, OwnThread DEF Handles, MemOf, PutMem, Idle
    <2>8. g \in Handles /\ MemOf(g) = None /\ MemOf(g)' = call[t].mem
      <3> QED  BY <2>3, <2>5, MemOfEach, MemOfNext DEF Gone
    <2>9. ASSUME NEW h \in Handles, h # o, h # g PROVE MemOf(h)' = MemOf(h)
      <3>1. ~(h[1] = "put" /\ h[2] = t)  BY <2>9 DEF Handles
      <3>2. \A i : OutMem(t, i)' = OutMem(t, i)  BY <2>1 DEF OutMem, To, Idle
      <3>3. h[1] = "buffer" => h[2] \in BufNames \ {b}  BY <2>9 DEF Handles
      <3> QED  BY <2>1, <2>5, <3>1, <3>2, <3>3, OthersLeft
    <2> HIDE DEF o, g
    <2> DEFINE H == {o}
    <2>10. to \in [H -> Handles] /\ IsInjective(to) /\ \A h \in H : to[h] = g
      BY <2>8 DEF IsInjective
    <2> HIDE DEF to
    <2>11. \A h \in H : MemOf(h)' = None /\ MemOf(to[h])' = MemOf(h) /\ MemOf(to[h]) = None
      BY <2>7, <2>8, <2>10
    <2>12. \A h \in Handles : h \notin H /\ (\A f \in H : to[f] # h) => MemOf(h)' = MemOf(h)
      BY <2>9, <2>10
    <2>13. H \in SUBSET Handles  BY <2>7
    <2> HIDE DEF H
    <2> QED  BY <1>0, <2>6, <2>10, <2>11, <2>12, <2>13, Passed
  <1> QED  BY <1>1, <1>2, <1>3

LEMMA OwnBuffer ==
  ASSUME OwnInv, NEW t \in Threads, NEW b \in BufNames, Delete(t, b) \/ Destroy(t, b)
  PROVE  PoolStepOK
  <1>0. /\ PoolTypeOK /\ PoolOK /\ Owned1 /\ BufsOK
        /\ call = [u \in Threads |-> call[u]]
    BY DEF OwnInv, XTypeOK, PoolTypeOK, BufsOK
  <1> DEFINE g == <<"buffer", b>>
  <1>1. To(t, Idle) /\ call[t] = Idle  BY <1>0, Moves DEF Delete, Destroy, Begins
  <1>2. bufs'[b].mem = None /\ \A c \in BufNames \ {b} : bufs'[c] = bufs[c]
    <2>1. CASE Delete(t, b)
      <3>1. bufs' = [bufs EXCEPT ![b].state = "deleted", ![b].mem = None]  BY <2>1 DEF Delete
      <3>2. bufs'[b] = [bufs[b] EXCEPT !.state = "deleted", !.mem = None]  BY <1>0, <3>1 DEF BufsOK
      <3>3. bufs[b] = [state |-> bufs[b].state, mem |-> bufs[b].mem, value |-> bufs[b].value]
        BY <1>0 DEF BufsOK, BufShape
      <3> QED  BY <1>0, <3>1, <3>2, <3>3 DEF BufsOK
    <2>2. CASE Destroy(t, b)
      <3>1. bufs' = [bufs EXCEPT ![b] = Gone]  BY <2>2 DEF Destroy
      <3> QED  BY <1>0, <3>1 DEF BufsOK, Gone
    <2> QED  BY <2>1, <2>2
  <1>3. g \in Handles /\ MemOf(g) = bufs[b].mem /\ MemOf(g)' = None
    BY <1>2, MemOfEach, MemOfNext
  <1>4. ASSUME NEW h \in Handles, h # g PROVE MemOf(h)' = MemOf(h)
    <2>1. PutMem(t)' = PutMem(t) /\ \A i : OutMem(t, i)' = OutMem(t, i)
      BY <1>1 DEF OutMem, PutMem, To, Idle
    <2>2. h[1] = "buffer" => h[2] \in BufNames \ {b}  BY <1>4 DEF Handles
    <2> QED  BY <1>1, <1>2, <2>1, <2>2, OthersLeft
  <1> HIDE DEF g
  <1>5. CASE bufs[b].mem = None
    <2>1. Destroy(t, b)  BY <1>0, <1>5 DEF Delete, Live, BufsOK, BufShape
    <2>2. UNCHANGED memVars  BY <1>5, <2>1 DEF Destroy
    <2>3. PoolTypeOK' /\ PoolOK' /\ InHand' = InHand
      BY <1>0, <2>2 DEF memVars, PoolTypeOK, PoolOK, InHand
    <2>4. \A h \in Handles : MemOf(h)' = MemOf(h)  BY <1>3, <1>4, <1>5
    <2> QED  BY <1>0, <2>3, <2>4, Left DEF PoolStepOK
  <1>6. CASE bufs[b].mem # None
    <2>1. PICK m : m = bufs[b].mem  OBVIOUS
    <2>2. PoolFree(m)  BY <1>6, <2>1 DEF Delete, Destroy
    <2>3. m \in InHand  BY <1>0, <1>3, <1>6, <2>1 DEF Owned1
    <2>4. InHand' = InHand \ {m} /\ PoolTypeOK' /\ PoolOK'  BY <1>0, <2>2, <2>3, FreeEffect
    <2> DEFINE H == {g}
    <2>5. H \in SUBSET Handles  BY <1>3
    <2>6. \A h \in Handles : MemOf(h)' = IF h \in H THEN None ELSE MemOf(h)  BY <1>3, <1>4
    <2>7. InHand' = InHand \ {MemOf(h) : h \in H}  BY <1>3, <2>1, <2>4
    <2> HIDE DEF H
    <2> QED  BY <1>0, <2>4, <2>5, <2>6, <2>7, Dropped DEF PoolStepOK
  <1> QED  BY <1>5, <1>6

LEMMA OwnFails ==
  ASSUME OwnInv, NEW t \in Threads, ExecShape(call[t]), Fails(t) PROVE PoolStepOK
  <1>0. /\ PoolTypeOK /\ PoolOK /\ Owned1
        /\ call = [u \in Threads |-> call[u]]
    BY DEF OwnInv, XTypeOK, PoolTypeOK
  <1>1. To(t, Idle) /\ bufs' = bufs /\ pool' = pool /\ created' = created \ ToSet(call[t].outs)
    BY <1>0, Moves DEF Fails, Returns
  <1>2. PICK outs : outs = call[t].outs  OBVIOUS
  <1>3. outs \in Seq(Mems) /\ call[t].at \in {"bind", "input", "copy"}  BY <1>2 DEF ExecShape
  <1> DEFINE H == {<<"out", <<t, i>>>> : i \in DOMAIN outs}
  <1>4. \A i \in DOMAIN outs : /\ <<"out", <<t, i>>>> \in Handles
                               /\ MemOf(<<"out", <<t, i>>>>) = outs[i]
    <2>1. DOMAIN outs \subseteq Nat  BY <1>3
    <2>2. \A i \in DOMAIN outs : OutMem(t, i) = outs[i]  BY <1>2, <1>3 DEF OutMem
    <2> QED  BY <2>1, <2>2, MemOfEach
  <1>5. H \in SUBSET Handles /\ {MemOf(h) : h \in H} = ToSet(outs)  BY <1>4 DEF ToSet
  <1>6. ToSet(outs) \subseteq InHand
    <2>1. ASSUME NEW i \in DOMAIN outs PROVE outs[i] \in InHand
      <3>1. PICK h \in Handles : MemOf(h) = outs[i]  BY <1>4
      <3>2. outs[i] # None  BY <1>3, JunkApart
      <3> QED  BY <1>0, <3>1, <3>2 DEF Owned1
    <2> QED  BY <2>1 DEF ToSet
  <1>7. InHand' = InHand \ {MemOf(h) : h \in H} /\ PoolTypeOK' /\ PoolOK'
    BY <1>0, <1>1, <1>2, <1>5, <1>6 DEF InHand, PoolTypeOK, PoolOK
  <1>8. ASSUME NEW h \in Handles PROVE MemOf(h)' = IF h \in H THEN None ELSE MemOf(h)
    <2>1. CASE h \in H
      <3>1. PICK i \in DOMAIN outs : h = <<"out", <<t, i>>>>  BY <2>1
      <3>2. i \in Nat  BY <1>3
      <3>3. OutMem(t, i)' = None  BY <1>1, OwnThread DEF Idle
      <3> QED  BY <2>1, <3>1, <3>2, <3>3, MemOfNext
    <2>2. CASE h \notin H
      <3>1. PutMem(t)' = PutMem(t)  BY <1>1, <1>3 DEF PutMem, To, Idle
      <3>2. h[1] = "out" /\ h[2][1] = t => h[2][2] \notin DOMAIN outs  BY <2>2 DEF Handles
      <3>3. \A i : i \notin DOMAIN outs => OutMem(t, i)' = OutMem(t, i)
        BY <1>1, <1>2 DEF OutMem, To, Idle
      <3>4. MemOf(h)' = MemOf(h)  BY <1>1, <3>1, <3>2, <3>3, OthersLeft
      <3> QED  BY <2>2, <3>4
    <2> QED  BY <2>1, <2>2
  <1> HIDE DEF H
  <1> QED  BY <1>0, <1>5, <1>7, <1>8, Dropped DEF PoolStepOK

LEMMA OwnExec ==
  ASSUME OwnInv, NEW t \in Threads,
         \/ ExecStart(t) \/ ExecBind(t) \/ ExecInput(t) \/ ExecLaunch(t) \/ ExecCopy(t)
  PROVE  PoolStepOK
  <1>0. /\ PoolTypeOK /\ PoolOK /\ Owned1
        /\ call = [u \in Threads |-> call[u]]
        /\ call[t].at \in {"bind", "input", "copy"} => ExecShape(call[t])
    BY PutShapes DEF OwnInv, XTypeOK, PoolTypeOK
  <1>1. UNCHANGED memVars /\ bufs' = bufs
    BY DEF ExecStart, ExecBind, ExecInput, ExecLaunch, ExecCopy
  <1>2. InHand' = InHand /\ PoolTypeOK' /\ PoolOK'
    BY <1>0, <1>1 DEF memVars, InHand, PoolTypeOK, PoolOK
  <1> USE DEF PoolStepOK
  <1>3. CASE ExecStart(t)
    <2>1. PICK x : Begins(t, x) /\ x.at = "bind" /\ x.outs = <<>>
      <3>1. PICK p \in Programs : \E args \in [DOMAIN p.ins -> {b \in BufNames : Live(b)}] :
              Begins(t, [at |-> "bind", n |-> calls + 1, args |-> args, prog |-> p,
                         ins |-> [i \in DOMAIN args |-> bufs[args[i]].mem],
                         wanted |-> Meaning(p, [i \in DOMAIN args |-> bufs[args[i]].value]),
                         outs |-> <<>>, done |-> 0])
        BY <1>3 DEF ExecStart
      <3>2. PICK args \in [DOMAIN p.ins -> {b \in BufNames : Live(b)}] :
              Begins(t, [at |-> "bind", n |-> calls + 1, args |-> args, prog |-> p,
                         ins |-> [i \in DOMAIN args |-> bufs[args[i]].mem],
                         wanted |-> Meaning(p, [i \in DOMAIN args |-> bufs[args[i]].value]),
                         outs |-> <<>>, done |-> 0])
        BY <3>1
      <3> QED  BY <3>2
    <2>2. To(t, x) /\ call[t] = Idle  BY <1>0, <2>1, Moves DEF Begins
    <2>3. PutMem(t)' = PutMem(t) /\ \A i \in Nat : OutMem(t, i)' = OutMem(t, i)
      BY <2>1, <2>2 DEF PutMem, OutMem, To, Idle
    <2> QED  BY <1>0, <1>1, <1>2, <2>2, <2>3, ThreadLeft
  <1>4. CASE ExecBind(t) \/ ExecInput(t) \/ ExecLaunch(t) \/ ExecCopy(t)
    <2>1. call[t].at \in {"bind", "input", "copy"}
      BY <1>4 DEF ExecBind, ExecInput, ExecLaunch, ExecCopy, Goes, InputsDone, OutputsMade
    <2>2. ExecShape(call[t])  BY <1>0, <2>1
    <2>d. call[t].done \in Nat /\ call[t].done + 1 \in Nat  BY <2>2 DEF ExecShape
    <2>3. PICK stage \in {"input", "copy"}, done \in Nat :
            To(t, [call[t] EXCEPT !.at = stage, !.done = done])
      <3>1. CASE ExecBind(t)
        <4>1. To(t, [call[t] EXCEPT !.at = "input"])
          BY <1>0, <3>1, MovesAt DEF ExecBind, Goes
        <4>2. [call[t] EXCEPT !.at = "input"] = [call[t] EXCEPT !.at = "input", !.done = call[t].done]
          BY <2>2 DEF ExecShape
        <4> QED  BY <2>d, <4>1, <4>2
      <3>2. CASE ExecInput(t) \/ ExecCopy(t)
        <4>1. To(t, [call[t] EXCEPT !.done = call[t].done + 1]) /\ call[t].at \in {"input", "copy"}
          BY <1>0, <3>2, MovesDone DEF ExecInput, ExecCopy
        <4>2. [call[t] EXCEPT !.done = call[t].done + 1] =
              [call[t] EXCEPT !.at = call[t].at, !.done = call[t].done + 1]
          BY <2>2 DEF ExecShape
        <4> QED  BY <2>d, <4>1, <4>2
      <3>3. CASE ExecLaunch(t)
        BY <1>0, <3>3 DEF ExecLaunch, To
      <3> QED  BY <1>4, <3>1, <3>2, <3>3
    <2>4. call'[t].at = stage /\ call'[t].outs = call[t].outs  BY <2>2, <2>3 DEF To, ExecShape
    <2>5. PutMem(t)' = PutMem(t) /\ \A i \in Nat : OutMem(t, i)' = OutMem(t, i)
      BY <2>1, <2>4 DEF PutMem, OutMem
    <2> QED  BY <1>0, <1>1, <1>2, <2>3, <2>5, ThreadLeft
  <1> QED  BY <1>3, <1>4

LEMMA OwnAlloc ==
  ASSUME OwnInv, NEW t \in Threads, ExecAlloc(t) PROVE PoolStepOK
  <1>0. /\ PoolTypeOK /\ PoolOK /\ Owned1
        /\ call = [u \in Threads |-> call[u]]
        /\ call[t].at = "input" /\ ExecShape(call[t])
    BY PutShapes DEF OwnInv, XTypeOK, PoolTypeOK, ExecAlloc, InputsDone
  <1>1. PICK m \in Mems : PoolAlloc(m) /\ call' = [call EXCEPT ![t].outs = Append(@, m)]
    BY DEF ExecAlloc
  <1>2. To(t, [call[t] EXCEPT !.outs = Append(call[t].outs, m)])  BY <1>0, <1>1, MovesOuts
  <1>3. m \notin InHand /\ InHand' = InHand \cup {m} /\ PoolTypeOK' /\ PoolOK'
    BY <1>0, <1>1, AllocEffect
  <1>4. PICK k : k = Len(call[t].outs) + 1  OBVIOUS
  <1>5. /\ call[t].outs \in Seq(Mems) /\ call'[t].at = "input"
        /\ call'[t].outs = Append(call[t].outs, m)
    BY <1>0, <1>2 DEF To, ExecShape
  <1>6. /\ k \in Nat /\ k \notin DOMAIN call[t].outs /\ DOMAIN call'[t].outs = DOMAIN call[t].outs \cup {k}
        /\ call'[t].outs[k] = m /\ \A i \in DOMAIN call[t].outs : call'[t].outs[i] = call[t].outs[i]
    <2>1. PICK s \in Seq(Mems) : s = call[t].outs  BY <1>5
    <2>2. PICK q : q = Append(s, m)  OBVIOUS
    <2>3. /\ k \in Nat /\ k \notin DOMAIN s /\ DOMAIN q = DOMAIN s \cup {k}
          /\ q[k] = m /\ \A i \in DOMAIN s : q[i] = s[i]
      BY <1>4, <2>1, <2>2
    <2> QED  BY <1>5, <2>1, <2>2, <2>3
  <1> DEFINE g == <<"out", <<t, k>>>>
  <1>7. g \in Handles /\ MemOf(g) = None /\ MemOf(g)' = m
    <2>1. OutMem(t, k) = None /\ OutMem(t, k)' = m  BY <1>5, <1>6 DEF OutMem
    <2> QED  BY <1>6, <2>1, MemOfEach, MemOfNext
  <1>8. ASSUME NEW h \in Handles \ {g} PROVE MemOf(h)' = MemOf(h)
    <2>1. bufs' = bufs  BY DEF ExecAlloc
    <2>2. PutMem(t)' = PutMem(t)  BY <1>0, <1>5 DEF PutMem
    <2>3. h[1] = "out" /\ h[2][1] = t => h[2][2] # k  BY <1>8 DEF Handles
    <2>4. \A i : i # k => OutMem(t, i)' = OutMem(t, i)  BY <1>0, <1>5, <1>6 DEF OutMem
    <2> QED  BY <1>2, <2>1, <2>2, <2>3, <2>4, OthersLeft
  <1> HIDE DEF g
  <1> QED  BY <1>0, <1>3, <1>7, <1>8, Taken DEF PoolStepOK

\* The results become the buffers that are named after the call.
LEMMA OwnFinish ==
  ASSUME OwnInv, NEW t \in Threads, ExecFinish(t) PROVE PoolStepOK
  <1>0. /\ PoolTypeOK /\ PoolOK /\ Owned1
        /\ call = [u \in Threads |-> call[u]]
        /\ call[t].at = "copy" /\ ExecShape(call[t])
    BY PutShapes DEF OwnInv, XTypeOK, PoolTypeOK, ExecFinish, CopiesDone
  <1>1. To(t, Idle)  BY <1>0, Moves DEF ExecFinish, Returns
  <1>2. InHand' = InHand /\ PoolTypeOK' /\ PoolOK'
    BY <1>0 DEF ExecFinish, memVars, InHand, PoolTypeOK, PoolOK
  <1>3. PICK n, outs : n = call[t].n /\ outs = call[t].outs  OBVIOUS
  <1>4. /\ outs \in Seq(Mems) /\ n \in 1 .. MaxCalls /\ DOMAIN outs \subseteq Nat
        /\ \A i \in DOMAIN outs : <<n, i>> \in BufNames
    <2>1. call[t].prog \in Programs /\ Len(outs) <= Len(call[t].prog.outs) /\ outs \in Seq(Mems)
      BY <1>0, <1>3 DEF ExecShape
    <2>2. DOMAIN outs \subseteq DOMAIN call[t].prog.outs  BY <2>1, ProgramShape
    <2> QED  BY <1>0, <1>3, <2>1, <2>2 DEF ExecShape, BufNames
  <1>5. \A b \in BufNames : b[1] = n => bufs[b] = Gone
    BY <1>0, <1>3 DEF OwnInv, Numbered, Idle
  <1>6. \A b \in BufNames : bufs'[b].mem = IF b[1] = n /\ b[2] \in DOMAIN outs THEN outs[b[2]]
                                          ELSE bufs[b].mem
    BY <1>3 DEF ExecFinish, Owned
  <1> DEFINE H == {<<"out", <<t, i>>>> : i \in DOMAIN outs}
             to == [h \in H |-> <<"buffer", <<n, h[2][2]>>>>]
  <1>7. ASSUME NEW i \in DOMAIN outs
        PROVE  /\ <<"out", <<t, i>>>> \in Handles /\ MemOf(<<"out", <<t, i>>>>) = outs[i]
               /\ MemOf(<<"out", <<t, i>>>>)' = None
               /\ <<"buffer", <<n, i>>>> \in Handles /\ MemOf(<<"buffer", <<n, i>>>>) = None
               /\ MemOf(<<"buffer", <<n, i>>>>)' = outs[i]
    <2>1. i \in Nat /\ <<n, i>> \in BufNames  BY <1>4
    <2>2. OutMem(t, i) = outs[i]  BY <1>0, <1>3 DEF OutMem
    <2>3. OutMem(t, i)' = None  BY <1>1, OwnThread DEF Idle
    <2>4. bufs[<<n, i>>].mem = None  BY <1>5, <2>1 DEF Gone
    <2>5. bufs'[<<n, i>>].mem = outs[i]  BY <1>6, <2>1
    <2> QED  BY <2>1, <2>2, <2>3, <2>4, <2>5, MemOfEach, MemOfNext
  <1>8. H \in SUBSET Handles  BY <1>7
  <1>9. to \in [H -> Handles] /\ IsInjective(to)
    <2>1. \A h \in H : to[h] \in Handles  BY <1>7
    <2>2. \A g, h \in H : to[g] = to[h] => g = h  OBVIOUS
    <2> QED  BY <2>1, <2>2 DEF IsInjective
  <1>10. \A h \in H : MemOf(h)' = None /\ MemOf(to[h])' = MemOf(h) /\ MemOf(to[h]) = None
    BY <1>7
  <1>11. ASSUME NEW h \in Handles, h \notin H, \A g \in H : to[g] # h PROVE MemOf(h)' = MemOf(h)
    <2>1. PutMem(t)' = PutMem(t)  BY <1>0, <1>1 DEF PutMem, To, Idle
    <2>2. h[1] = "out" /\ h[2][1] = t => h[2][2] \notin DOMAIN outs  BY <1>11 DEF Handles
    <2>3. \A i : i \notin DOMAIN outs => OutMem(t, i)' = OutMem(t, i)
      BY <1>1, <1>3 DEF OutMem, To, Idle
    <2>4. ASSUME h[1] = "buffer" PROVE bufs'[h[2]].mem = bufs[h[2]].mem
      <3>1. h[2] \in BufNames /\ h = <<"buffer", h[2]>>  BY <2>4 DEF Handles
      <3>2. ASSUME h[2][1] = n, h[2][2] \in DOMAIN outs PROVE FALSE
        <4>1. h[2] = <<n, h[2][2]>>  BY <3>1, <3>2 DEF BufNames
        <4>2. <<"out", <<t, h[2][2]>>>> \in H  BY <3>2
        <4>3. to[<<"out", <<t, h[2][2]>>>>] = <<"buffer", <<n, h[2][2]>>>>  BY <4>2
        <4> QED  BY <1>11, <3>1, <4>1, <4>2, <4>3
      <3> QED  BY <1>6, <3>1, <3>2
    <2> QED  BY <1>1, <2>1, <2>2, <2>3, <2>4, OthersLeft
  <1> HIDE DEF H, to
  <1> QED  BY <1>0, <1>2, <1>8, <1>9, <1>10, <1>11, Passed DEF PoolStepOK
------------------------------------------------------------------------------
(* Numbers *)

\* A call begins under a new number, goes on under its own, or returns; and a buffer
\* changes that exists, or that the returning call names.
LEMMA NumbersStep ==
  ASSUME Numbered, calls \in Nat, \A u \in Threads : call[u] # Idle => call[u].n \in Nat, NEW t \in Threads, NEW x, To(t, x),
         \/ x = Idle /\ calls' \in {calls, calls + 1}
         \/ call[t] = Idle /\ x.n = calls + 1 /\ calls' = calls + 1
         \/ call[t] # Idle /\ x.n = call[t].n /\ calls' = calls,
         \A b \in BufNames : \/ bufs'[b] = bufs[b]
                             \/ bufs[b] # Gone
                             \/ call[t] # Idle /\ b[1] = call[t].n /\ x = Idle
  PROVE  Numbered'
  <1>1. ASSUME NEW b \in BufNames PROVE b[1] \in Nat  BY MaxCallsNat DEF BufNames
  <1>2. \A b \in BufNames : b[1] > calls' => bufs'[b] = Gone
    BY <1>1 DEF Numbered
  <1>3. ASSUME NEW u \in Threads, call'[u] # Idle
        PROVE  call'[u].n <= calls' /\ \A b \in BufNames : b[1] = call'[u].n => bufs'[b] = Gone
    <2>1. CASE u = t  BY <1>1, <1>3, <2>1 DEF Numbered, To
    <2>2. CASE u # t  BY <1>1, <1>3, <2>2 DEF Numbered, To
    <2> QED  BY <2>1, <2>2
  <1>4. ASSUME NEW u \in Threads, NEW v \in Threads, call'[u] # Idle, call'[v] # Idle,
               call'[u].n = call'[v].n
        PROVE  u = v
    BY <1>4 DEF Numbered, To
  <1> QED  BY <1>2, <1>3, <1>4 DEF Numbered

LEMMA NumberedStep ==
  ASSUME XTypeOK, Numbered, NEW t \in Threads, ThreadStep(t) PROVE Numbered'
  <1>0. /\ calls \in Nat /\ call = [u \in Threads |-> call[u]]
        /\ \A u \in Threads : call[u] # Idle => call[u].n \in Nat
    BY MaxCallsNat DEF XTypeOK, CallShape, PutShape, ExecShape
  <1>s. /\ call[t].at \in {"put", "written"} <=> PutShape(call[t])
        /\ call[t].at \in {"bind", "input", "copy"} <=> ExecShape(call[t])
    BY PutShapes
  <1>r. ASSUME Returns(t) PROVE To(t, Idle)  BY <1>0, <1>r, Moves DEF Returns
  <1>1. CASE PutAlloc(t)
    <2>1. PICK x : Begins(t, x) /\ x.n = calls + 1 /\ bufs' = bufs  BY <1>1 DEF PutAlloc
    <2>2. To(t, x) /\ call[t] = Idle /\ calls' = calls + 1  BY <1>0, <2>1, Moves DEF Begins
    <2> QED  BY <1>0, <2>1, <2>2, NumbersStep
  <1>2. CASE ExecStart(t)
    <2>1. PICK x : Begins(t, x) /\ x.n = calls + 1 /\ bufs' = bufs
      <3>1. PICK p \in Programs : \E args \in [DOMAIN p.ins -> {b \in BufNames : Live(b)}] :
              Begins(t, [at |-> "bind", n |-> calls + 1, args |-> args, prog |-> p,
                         ins |-> [i \in DOMAIN args |-> bufs[args[i]].mem],
                         wanted |-> Meaning(p, [i \in DOMAIN args |-> bufs[args[i]].value]),
                         outs |-> <<>>, done |-> 0]) /\ bufs' = bufs
        BY <1>2 DEF ExecStart
      <3>2. PICK args \in [DOMAIN p.ins -> {b \in BufNames : Live(b)}] :
              Begins(t, [at |-> "bind", n |-> calls + 1, args |-> args, prog |-> p,
                         ins |-> [i \in DOMAIN args |-> bufs[args[i]].mem],
                         wanted |-> Meaning(p, [i \in DOMAIN args |-> bufs[args[i]].value]),
                         outs |-> <<>>, done |-> 0]) /\ bufs' = bufs
        BY <3>1
      <3> QED  BY <3>2
    <2>2. To(t, x) /\ call[t] = Idle /\ calls' = calls + 1  BY <1>0, <2>1, Moves DEF Begins
    <2> QED  BY <1>0, <2>1, <2>2, NumbersStep
  <1>3. CASE PutDone(t)
    <2>1. /\ To(t, Idle) /\ calls' = calls /\ call[t] # Idle
          /\ bufs' = [bufs EXCEPT ![<<call[t].n, 1>>] = Owned(call[t].mem, call[t].value)]
      BY <1>3, <1>r DEF PutDone, Idle
    <2>2. \A b \in BufNames : bufs'[b] = bufs[b] \/ b[1] = call[t].n  BY <2>1 DEF XTypeOK
    <2> QED  BY <1>0, <2>1, <2>2, NumbersStep
  <1>4. ASSUME NEW b \in BufNames, Delete(t, b) \/ Destroy(t, b) PROVE Numbered'
    <2>1. To(t, Idle) /\ calls' = calls + 1  BY <1>0, <1>4, Moves DEF Delete, Destroy, Begins
    <2>2. bufs[b] # Gone  BY <1>4 DEF Delete, Destroy, Live, Gone
    <2>3. \A c \in BufNames \ {b} : bufs'[c] = bufs[c]  BY <1>4 DEF Delete, Destroy, XTypeOK
    <2> QED  BY <1>0, <2>1, <2>2, <2>3, NumbersStep
  <1>5. CASE ExecFinish(t)
    <2>1. /\ To(t, Idle) /\ calls' = calls /\ call[t] # Idle
          /\ \A b \in BufNames : bufs'[b] = bufs[b] \/ b[1] = call[t].n
      BY <1>5, <1>r DEF ExecFinish, CopiesDone, Idle
    <2> QED  BY <1>0, <2>1, NumbersStep
  <1>6. CASE ExecInputFails(t) \/ ExecAllocFails(t) \/ ExecLaunchFails(t) \/ ExecCopyFails(t)
    <2>1. To(t, Idle) /\ calls' = calls /\ bufs' = bufs
      BY <1>6, <1>r DEF ExecInputFails, ExecAllocFails, ExecLaunchFails, ExecCopyFails, Fails
    <2> QED  BY <1>0, <2>1, NumbersStep
  <1>7. CASE \/ PutWrite(t) \/ ExecBind(t) \/ ExecInput(t) \/ ExecAlloc(t) \/ ExecLaunch(t)
             \/ ExecCopy(t)
    <2>1. call[t] # Idle /\ calls' = calls /\ bufs' = bufs
      <3>1. call[t].at \in {"put", "bind", "input", "copy"}
        BY <1>7 DEF PutWrite, ExecBind, ExecInput, ExecAlloc, ExecLaunch, ExecCopy, Goes,
                    InputsDone, OutputsMade
      <3>2. calls' = calls /\ bufs' = bufs
        BY <1>7 DEF PutWrite, ExecBind, ExecInput, ExecAlloc, ExecLaunch, ExecCopy
      <3> QED  BY <3>1, <3>2 DEF Idle
    <2>2. PICK x : To(t, x) /\ x.n = call[t].n
      <3>1. CASE PutWrite(t)
        <4>1. To(t, [call[t] EXCEPT !.at = "written"]) /\ PutShape(call[t])
          BY <1>0, <1>s, <3>1, MovesAt DEF PutWrite, Goes
        <4> QED  BY <4>1 DEF PutShape
      <3>2. CASE ExecBind(t)
        <4>1. To(t, [call[t] EXCEPT !.at = "input"]) /\ ExecShape(call[t])
          BY <1>0, <1>s, <3>2, MovesAt DEF ExecBind, Goes
        <4> QED  BY <4>1 DEF ExecShape
      <3>3. CASE ExecInput(t) \/ ExecCopy(t)
        <4>1. To(t, [call[t] EXCEPT !.done = call[t].done + 1]) /\ ExecShape(call[t])
          BY <1>0, <1>s, <3>3, MovesDone DEF ExecInput, ExecCopy
        <4> QED  BY <4>1 DEF ExecShape
      <3>4. CASE ExecLaunch(t)
        <4>1. To(t, [call[t] EXCEPT !.at = "copy", !.done = 0])  BY <1>0, <3>4 DEF ExecLaunch, To
        <4>2. ExecShape(call[t])  BY <1>s, <3>4 DEF ExecLaunch, OutputsMade, InputsDone
        <4>3. [call[t] EXCEPT !.at = "copy", !.done = 0].n = call[t].n  BY <4>2 DEF ExecShape
        <4> QED  BY <4>1, <4>3
      <3>5. CASE ExecAlloc(t)
        <4>1. PICK m \in Mems : call' = [call EXCEPT ![t].outs = Append(@, m)]
          BY <3>5 DEF ExecAlloc
        <4>2. To(t, [call[t] EXCEPT !.outs = Append(call[t].outs, m)]) /\ ExecShape(call[t])
          BY <1>0, <1>s, <3>5, <4>1, MovesOuts DEF ExecAlloc, InputsDone
        <4> QED  BY <4>2 DEF ExecShape
      <3> QED  BY <1>7, <3>1, <3>2, <3>3, <3>4, <3>5
    <2> QED  BY <1>0, <2>1, <2>2, NumbersStep
  <1> QED  BY <1>1, <1>2, <1>3, <1>4, <1>5, <1>6, <1>7 DEF ThreadStep
------------------------------------------------------------------------------
(* Theorems about ownership *)

LEMMA OwnInit == ASSUME XInit PROVE OwnInv
  <1> USE DEF XInit
  <1>1. XTypeOK
    BY JunkApart DEF XTypeOK, CallShape, BufShape, BufferStates, Gone, Idle
  <1>2. Numbered  BY DEF Numbered
  <1>3. PoolOK /\ InHand = {}  BY DEF PoolOK, InHand, ToSet, IsInjective
  <1>4. \A h \in Handles : MemOf(h) = None
    BY DEF Handles, MemOf, PutMem, OutMem, Idle, Gone
  <1> QED  BY <1>1, <1>2, <1>3, <1>4 DEF OwnInv, Owned1

LEMMA OwnStep == ASSUME OwnInv, [XNext]_xvars PROVE OwnInv'
  <1>1. CASE DeviceStep
    <2>1. UNCHANGED <<created, pool, bufs, call, calls>>  BY <1>1 DEF DeviceStep, memVars
    <2>2. XTypeOK' /\ Numbered' /\ PoolOK' /\ InHand' = InHand
      BY <2>1 DEF OwnInv, XTypeOK, BufShape, Numbered, PoolOK, InHand
    <2>3. \A h \in Handles : MemOf(h)' = MemOf(h)  BY <2>1 DEF MemOf, PutMem, OutMem
    <2> QED  BY <2>2, <2>3, Left DEF OwnInv
  <1>2. ASSUME NEW t \in Threads, ThreadStep(t) PROVE OwnInv'
    <2>0. XTypeOK /\ Numbered /\ PoolOK  BY DEF OwnInv
    <2>1. CallsOK' /\ calls' \in Nat  BY <1>2, <2>0, CallsStep
    <2>2. BufsOK'  BY <1>2, <2>0, BufsStep
    <2>3. Numbered'  BY <1>2, <2>0, NumberedStep
    <2>4. PoolStepOK
      <3>1. ASSUME Fails(t), call[t].at \in {"input", "copy"} PROVE PoolStepOK
        <4>1. ExecShape(call[t])  BY <2>0, <3>1, PutShapes
        <4> QED  BY <3>1, <4>1, OwnFails
      <3>2. CASE ExecInputFails(t) \/ ExecAllocFails(t) \/ ExecLaunchFails(t) \/ ExecCopyFails(t)
        BY <3>1, <3>2 DEF ExecInputFails, ExecAllocFails, ExecLaunchFails, ExecCopyFails, InputsDone,
                          OutputsMade
      <3> QED
        BY <1>2, <3>2, OwnPut, OwnBuffer, OwnExec, OwnAlloc, OwnFinish DEF ThreadStep
    <2> QED
      BY <2>1, <2>2, <2>3, <2>4 DEF OwnInv, XTypeOK, CallsOK, BufsOK, PoolStepOK, PoolTypeOK
  <1>3. CASE UNCHANGED xvars
    <2>1. UNCHANGED <<created, pool, bufs, call, calls>>  BY <1>3 DEF xvars, memVars
    <2>2. XTypeOK' /\ Numbered' /\ PoolOK' /\ InHand' = InHand
      BY <2>1 DEF OwnInv, XTypeOK, BufShape, Numbered, PoolOK, InHand
    <2>3. \A h \in Handles : MemOf(h)' = MemOf(h)  BY <2>1 DEF MemOf, PutMem, OutMem
    <2> QED  BY <2>2, <2>3, Left DEF OwnInv
  <1> QED  BY <1>1, <1>2, <1>3 DEF XNext

\* Calls, buffers and the pool keep their types, calls keep numbers of their own, and
\* a cl_mem changes hands without ever being in two or in none (plugin.cc and
\* runtime.cc, the failing paths of ExecuteDevice included).
THEOREM Hands == XSpec => []OwnInv
  BY OwnInit, OwnStep, PTL DEF XSpec

\* OwnedOnce's owners of m, a call's results taken together.
OwnersOf(m) ==
  {<<"pool", k>> : k \in {j \in DOMAIN pool : pool[j] = m}}
  \cup {<<"buffer", b>> : b \in {c \in BufNames : bufs[c].mem = m}}
  \cup {<<"put", t>> : t \in {u \in Threads : call[u].at \in {"put", "written"} /\ call[u].mem = m}}
  \cup {<<"out", t>> : t \in {u \in Threads : call[u].at \in {"bind", "input", "copy"}
                                            /\ m \in ToSet(call[u].outs)}}

\* Each of them but the pool holds m through a handle.
LEMMA OwnerHandle ==
  ASSUME OwnInv, NEW m \in Mems, NEW o \in OwnersOf(m), o[1] # "pool"
  PROVE  \E h \in Handles : /\ MemOf(h) = m /\ h[1] = o[1]
                            /\ o[2] = IF h[1] = "out" THEN h[2][1] ELSE h[2]
  <1>1. CASE o[1] = "buffer"
    <2>1. PICK b \in BufNames : o = <<"buffer", b>> /\ bufs[b].mem = m  BY <1>1 DEF OwnersOf
    <2> QED  BY <2>1, MemOfEach
  <1>2. CASE o[1] = "put"
    <2>1. PICK t \in Threads : o = <<"put", t>> /\ call[t].at \in {"put", "written"} /\ call[t].mem = m
      BY <1>2 DEF OwnersOf
    <2>2. PutMem(t) = m  BY <2>1 DEF PutMem
    <2> QED  BY <2>1, <2>2, MemOfEach
  <1>3. CASE o[1] = "out"
    <2>1. PICK t \in Threads : /\ o = <<"out", t>> /\ call[t].at \in {"bind", "input", "copy"}
                              /\ m \in ToSet(call[t].outs)
      BY <1>3 DEF OwnersOf
    <2>2. PICK i \in DOMAIN call[t].outs : call[t].outs[i] = m  BY <2>1 DEF ToSet
    <2>3. call[t].outs \in Seq(Mems)  BY <2>1, PutShapes DEF OwnInv, ExecShape
    <2>4. i \in Nat /\ OutMem(t, i) = m  BY <2>1, <2>2, <2>3 DEF OutMem
    <2>5. <<"out", <<t, i>>>> \in Handles /\ MemOf(<<"out", <<t, i>>>>) = m  BY <2>4, MemOfEach
    <2> QED  BY <2>1, <2>5
  <1> QED  BY <1>1, <1>2, <1>3 DEF OwnersOf

LEMMA HandleOwner ==
  ASSUME NEW m \in Mems, NEW h \in Handles, MemOf(h) = m
  PROVE  <<h[1], IF h[1] = "out" THEN h[2][1] ELSE h[2]>> \in OwnersOf(m)
  <1>1. m # None  BY JunkApart
  <1>2. CASE h[1] = "buffer"  BY <1>2 DEF Handles, MemOf, OwnersOf
  <1>3. CASE h[1] = "put"
    <2>1. h[2] \in Threads /\ PutMem(h[2]) = m  BY <1>3 DEF Handles, MemOf
    <2> QED  BY <1>1, <1>3, <2>1 DEF PutMem, OwnersOf
  <1>4. CASE h[1] = "out"
    <2>1. h[2][1] \in Threads /\ OutMem(h[2][1], h[2][2]) = m  BY <1>4 DEF Handles, MemOf
    <2> QED  BY <1>1, <1>4, <2>1 DEF OutMem, OwnersOf, ToSet
  <1> QED  BY <1>2, <1>3, <1>4 DEF Handles

LEMMA OneOwner ==
  ASSUME OwnInv, NEW m \in Mems PROVE Cardinality(OwnersOf(m)) = IF m \in created THEN 1 ELSE 0
  <1>0. PoolOK /\ Owned1 /\ m # None  BY JunkApart DEF OwnInv
  <1>1. ASSUME NEW o \in OwnersOf(m) PROVE m \in created /\ (o[1] = "pool" <=> m \in ToSet(pool))
    <2>1. CASE o[1] = "pool"  BY <1>0, <2>1 DEF OwnersOf, PoolOK, ToSet
    <2>2. CASE o[1] # "pool"
      <3>1. PICK h \in Handles : MemOf(h) = m  BY <2>2, OwnerHandle
      <3> QED  BY <1>0, <2>2, <3>1 DEF Owned1, InHand
    <2> QED  BY <2>1, <2>2
  <1>2. CASE m \notin created
    <2>1. OwnersOf(m) = {}  BY <1>1, <1>2
    <2> QED  BY <1>2, <2>1, FS_EmptySet
  <1>3. CASE m \in ToSet(pool)
    <2>1. PICK k \in DOMAIN pool : pool[k] = m  BY <1>3 DEF ToSet
    <2>2. <<"pool", k>> \in OwnersOf(m)  BY <2>1 DEF OwnersOf
    <2>3. ASSUME NEW o \in OwnersOf(m) PROVE o = <<"pool", k>>
      <3>1. o[1] = "pool"  BY <1>1, <1>3
      <3>2. PICK j \in DOMAIN pool : o = <<"pool", j>> /\ pool[j] = m  BY <3>1 DEF OwnersOf
      <3> QED  BY <1>0, <2>1, <3>2 DEF PoolOK, IsInjective
    <2>4. OwnersOf(m) = {<<"pool", k>>}  BY <2>2, <2>3
    <2>5. m \in created  BY <1>1, <2>2
    <2> QED  BY <2>4, <2>5, FS_Singleton
  <1>4. CASE m \in InHand
    <2>1. PICK h \in Handles : MemOf(h) = m  BY <1>0, <1>4 DEF Owned1
    <2> DEFINE x == <<h[1], IF h[1] = "out" THEN h[2][1] ELSE h[2]>>
    <2>2. x \in OwnersOf(m)  BY <2>1, HandleOwner
    <2>3. ASSUME NEW o \in OwnersOf(m) PROVE o = x
      <3>1. o[1] # "pool"  BY <1>1, <1>4 DEF InHand
      <3>2. PICK g \in Handles : /\ MemOf(g) = m /\ g[1] = o[1]
                                /\ o[2] = IF g[1] = "out" THEN g[2][1] ELSE g[2]
        BY <3>1, OwnerHandle
      <3>3. g = h  BY <1>0, <2>1, <3>2 DEF Owned1
      <3>4. o = <<o[1], o[2]>>  BY DEF OwnersOf
      <3> QED  BY <3>2, <3>3, <3>4
    <2> HIDE DEF x
    <2>4. OwnersOf(m) = {x}  BY <2>2, <2>3
    <2>5. m \in created  BY <1>4 DEF InHand
    <2> QED  BY <2>4, <2>5, FS_Singleton
  <1> QED  BY <1>2, <1>3, <1>4 DEF InHand

\* Whatever threads allocate, free, delete, destroy, execute and let fail, every
\* cl_mem there is has one owner, and none that has been released has any.
THEOREM OneOwnerEach == XSpec => []OwnedOnce
  <1>1. OwnInv => OwnedOnce
    <2> SUFFICES ASSUME OwnInv PROVE OwnedOnce  OBVIOUS
    <2>1. \A m \in Mems : Cardinality(OwnersOf(m)) = IF m \in created THEN 1 ELSE 0  BY OneOwner
    <2> QED  BY <2>1 DEF OwnedOnce, OwnersOf
  <1> QED  BY <1>1, Hands, PTL
------------------------------------------------------------------------------
(* What the memories of live buffers hold.  A launch is followed instruction *)
(* by instruction and a queue command by command, both as runs of a step     *)
(* function; the invariant speaks of the memories as they will be when the   *)
(* queue has run (Settled).                                                  *)
------------------------------------------------------------------------------
(* States of the device's memory *)

Vals   == (0 .. Mod - 1) \cup {Junk}
Arenas == {a \in [Programs -> UNION {[Ids(p) -> Vals] : p \in Programs}] :
             \A p \in Programs : a[p] \in [Ids(p) -> Vals]}
States == [mem : [Mems -> Vals], arena : Arenas]

Tidy == \A p \in Programs : Regular(p)

WithMem(s, m, v)       == [s EXCEPT !.mem[m] = v]
WithArena(s, p, id, v) == [s EXCEPT !.arena[p][id] = v]

LEMMA SameState ==
  ASSUME NEW x \in States, NEW y \in States, x.mem = y.mem, x.arena = y.arena PROVE x = y
  BY DEF States

LEMMA WithMemIs ==
  ASSUME NEW s \in States, NEW m \in Mems, NEW v \in Vals
  PROVE  /\ WithMem(s, m, v) \in States /\ WithMem(s, m, v).arena = s.arena
         /\ WithMem(s, m, v).mem = [s.mem EXCEPT ![m] = v]
  BY DEF WithMem, States

LEMMA WithArenaIs ==
  ASSUME NEW s \in States, NEW p \in Programs, NEW id \in Ids(p), NEW v \in Vals
  PROVE  /\ WithArena(s, p, id, v) \in States /\ WithArena(s, p, id, v).mem = s.mem
         /\ WithArena(s, p, id, v).arena[p][id] = v
         /\ \A d \in Ids(p) \ {id} : WithArena(s, p, id, v).arena[p][d] = s.arena[p][d]
         /\ \A q \in Programs \ {p} : WithArena(s, p, id, v).arena[q] = s.arena[q]
  <1> DEFINE a == [s.arena[p] EXCEPT ![id] = v]
             b == [s.arena EXCEPT ![p] = a]
  <1>1. s.arena \in Arenas /\ s.arena[p] \in [Ids(p) -> Vals]  BY DEF States, Arenas
  <1>2. a \in [Ids(p) -> Vals]  BY <1>1
  <1>3. WithArena(s, p, id, v) = [s EXCEPT !.arena = b]  BY <1>1 DEF WithArena, States, Arenas
  <1>4. b \in Arenas
    <2>1. \A q \in Programs : b[q] \in [Ids(q) -> Vals]
      <3> SUFFICES ASSUME NEW q \in Programs PROVE b[q] \in [Ids(q) -> Vals]  OBVIOUS
      <3>1. CASE q = p  BY <1>1, <1>2, <3>1 DEF Arenas
      <3>2. CASE q # p  BY <1>1, <3>2 DEF Arenas
      <3> QED  BY <3>1, <3>2
    <2>2. b \in [Programs -> UNION {[Ids(q) -> Vals] : q \in Programs}]
      <3>1. DOMAIN b = Programs /\ b = [q \in DOMAIN b |-> b[q]]  BY <1>1 DEF Arenas
      <3> HIDE DEF b
      <3>2. \A q \in Programs : b[q] \in UNION {[Ids(z) -> Vals] : z \in Programs}  BY <2>1
      <3> QED  BY <3>1, <3>2
    <2> QED  BY <2>1, <2>2 DEF Arenas
  <1>5. WithArena(s, p, id, v).mem = s.mem /\ WithArena(s, p, id, v).arena = b
        /\ WithArena(s, p, id, v) \in States
    <2> HIDE DEF b
    <2> QED  BY <1>3, <1>4 DEF States
  <1>6. b[p] = a /\ \A q \in Programs \ {p} : b[q] = s.arena[q]  BY <1>1 DEF Arenas
  <1>7. a[id] = v /\ \A d \in Ids(p) \ {id} : a[d] = s.arena[p][d]  BY <1>1
  <1> QED  BY <1>5, <1>6, <1>7

LEMMA SumTyped ==
  ASSUME NEW x \in Vals, NEW y \in Vals, NEW k \in Nat PROVE Sum2(x, y, k) \in Vals
  <1>1. CASE x = Junk \/ y = Junk  BY <1>1 DEF Sum2, Vals
  <1>2. CASE x # Junk /\ y # Junk
    <2>1. x + y + k \in Nat  BY <1>2, DataInRange DEF Vals
    <2>2. (x + y + k) % Mod \in 0 .. Mod - 1  BY <2>1, DataInRange
    <2> QED  BY <1>2, <2>2 DEF Sum2, Vals
  <1> QED  BY <1>1, <1>2

\* Which buffers a program's instructions and lists speak of.
LEMMA ProgramIds ==
  ASSUME NEW p \in Programs, Regular(p)
  PROVE  /\ Len(p.code) \in Nat /\ DOMAIN p.code = 1 .. Len(p.code)
         /\ \A n \in 1 .. Len(p.code) : /\ p.code[n].dst \in Ids(p)
                                       /\ p.code[n].a \in Ids(p) /\ p.code[n].b \in Ids(p)
                                       /\ p.code[n].k \in Nat
         /\ ToSet(p.ins) \subseteq Ids(p) /\ ToSet(p.outs) \subseteq Ids(p)
         /\ DOMAIN p.consts \subseteq Ids(p)
         /\ Ported(p) \subseteq ToSet(p.ins) \cup ToSet(p.outs)
         /\ Ported(p) \cap ToSet(p.ins) \cap ToSet(p.outs) = {}
         /\ Ported(p) \cap DOMAIN p.consts = {}
  <1> DEFINE I == [dst : Nat, a : Nat, b : Nat, k : Nat]
             code == p.code
  <1>1. code \in Seq(I)  BY ProgramShape
  <1>2. Len(p.code) \in Nat /\ DOMAIN p.code = 1 .. Len(p.code)
        /\ \A n \in 1 .. Len(p.code) : p.code[n] \in I
    <2> HIDE DEF I, code
    <2>1. Len(code) \in Nat /\ DOMAIN code = 1 .. Len(code) /\ \A n \in 1 .. Len(code) : code[n] \in I
      BY <1>1
    <2> QED  BY <2>1 DEF code
  <1>3. \A n \in 1 .. Len(p.code) : p.code[n].dst \in Ids(p)  BY <1>2 DEF Ids, ToSet
  <1>4. ASSUME NEW n \in 1 .. Len(p.code) PROVE Written(p, n - 1) \subseteq Ids(p)
    BY <1>2, <1>3 DEF Written
  <1>5. ASSUME NEW n \in 1 .. Len(p.code) PROVE p.code[n].a \in Ids(p) /\ p.code[n].b \in Ids(p)
    <2>1. {p.code[n].a, p.code[n].b} \subseteq DOMAIN p.consts \cup ToSet(p.ins) \cup Written(p, n - 1)
      BY <1>2 DEF Regular
    <2> QED  BY <1>4, <2>1 DEF Ids
  <1>6. /\ ToSet(p.ins) \subseteq Ids(p) /\ ToSet(p.outs) \subseteq Ids(p)
        /\ DOMAIN p.consts \subseteq Ids(p)
    BY DEF Ids
  <1>7. /\ Ported(p) \subseteq ToSet(p.ins) \cup ToSet(p.outs)
        /\ Ported(p) \cap ToSet(p.ins) \cap ToSet(p.outs) = {}
    BY DEF Ported, Candidates
  <1>8. Ported(p) \cap DOMAIN p.consts = {}  BY <1>7 DEF Regular
  <1> QED  BY <1>2, <1>3, <1>5, <1>6, <1>7, <1>8

\* Reading and writing a buffer, through its port or in the arena.
LEMMA GetTyped ==
  ASSUME NEW p \in Programs, NEW ports \in [Ported(p) -> Mems], NEW s \in States, NEW id \in Ids(p)
  PROVE  Get(p, ports, s, id) \in Vals
  BY DEF Get, HasPort, States, Arenas

LEMMA PutIs ==
  ASSUME NEW p \in Programs, NEW ports \in [Ported(p) -> Mems], NEW s \in States, NEW id \in Ids(p),
         NEW v \in Vals
  PROVE  /\ Put(p, ports, s, id, v) \in States
         /\ Put(p, ports, s, id, v) = IF id \in Ported(p) THEN WithMem(s, ports[id], v)
                                      ELSE WithArena(s, p, id, v)
  BY WithMemIs, WithArenaIs DEF Put, HasPort, WithMem, WithArena

\* An instruction's value.
Operands(p, ports, s, i) == Sum2(Get(p, ports, s, i.a), Get(p, ports, s, i.b), i.k)

LEMMA InstructionIs ==
  ASSUME NEW p \in Programs, Regular(p), NEW ports \in [Ported(p) -> Mems], NEW s \in States,
         NEW n \in 1 .. Len(p.code)
  PROVE  /\ Operands(p, ports, s, p.code[n]) \in Vals /\ p.code[n].dst \in Ids(p)
         /\ Instruction(p, ports, s, p.code[n]) \in States
         /\ Instruction(p, ports, s, p.code[n])
              = Put(p, ports, s, p.code[n].dst, Operands(p, ports, s, p.code[n]))
  <1>1. Operands(p, ports, s, p.code[n]) \in Vals  BY ProgramIds, GetTyped, SumTyped DEF Operands
  <1>2. p.code[n].dst \in Ids(p)  BY ProgramIds
  <1>3. Instruction(p, ports, s, p.code[n])
          = Put(p, ports, s, p.code[n].dst, Operands(p, ports, s, p.code[n]))
    BY DEF Instruction, Operands
  <1> QED  BY <1>1, <1>2, <1>3, PutIs

\* r is what the launch does instruction by instruction.
IsLaunch(r, p, ports, s) ==
  /\ r \in [0 .. Len(p.code) -> States] /\ r[0] = s
  /\ \A n \in 1 .. Len(p.code) : r[n] = Instruction(p, ports, r[n - 1], p.code[n])

LEMMA LaunchRuns ==
  ASSUME NEW p \in Programs, Regular(p), NEW ports \in [Ported(p) -> Mems], NEW s \in States
  PROVE  \E r : IsLaunch(r, p, ports, s)
  <1> DEFINE N == Len(p.code)
             step == [n \in 1 .. N |-> [x \in States |-> Instruction(p, ports, x, p.code[n])]]
  <1>1. N \in Nat  BY ProgramIds
  <1>2. step \in StepFuns(States, N)
    <2>1. \A n \in 1 .. N : \A x \in States : Instruction(p, ports, x, p.code[n]) \in States
      BY InstructionIs
    <2> QED  BY <2>1 DEF StepFuns
  <1>3. \A n \in 1 .. N : \A x \in States : step[n][x] = Instruction(p, ports, x, p.code[n])
    OBVIOUS
  <1> HIDE DEF step
  <1>4. PICK r : IsRun(r, States, s, N, step)  BY <1>1, <1>2, Iterated
  <1>5. ASSUME NEW n \in 1 .. N PROVE r[n] = Instruction(p, ports, r[n - 1], p.code[n])
    <2>1. r[n - 1] \in States  BY <1>1, <1>4 DEF IsRun
    <2> QED  BY <1>3, <1>4, <2>1 DEF IsRun
  <1> QED  BY <1>4, <1>5 DEF IsRun, IsLaunch

LEMMA LaunchIs ==
  ASSUME NEW p \in Programs, Regular(p), NEW ports \in [Ported(p) -> Mems], NEW s \in States,
         NEW r, IsLaunch(r, p, ports, s)
  PROVE  LaunchResult(p, ports, s) = r[Len(p.code)]
  <1> DEFINE N == Len(p.code)
             From(n, x) == IF n = 0 THEN s ELSE Instruction(p, ports, x[n - 1], p.code[n])
             Is(x) == x = [n \in 0 .. N |-> From(n, x)]
             y == CHOOSE x : Is(x)
  <1>1. N \in Nat  BY ProgramIds
  <1>2. Is(r)
    <2>1. \A n \in 0 .. N : r[n] = From(n, r)  BY <1>1 DEF IsLaunch
    <2> HIDE DEF From
    <2> QED  BY <2>1 DEF IsLaunch
  <1>3. Is(y)  BY <1>2
  <1>4. LaunchResult(p, ports, s) = y[N]  BY DEF LaunchResult
  <1> HIDE DEF y
  <1>5. y[N] = r[N]
    <2>0. \A n \in 0 .. N : y[n] = From(n, y) /\ r[n] = From(n, r)
      <3> HIDE DEF From, N
      <3> QED  BY <1>2, <1>3
    <2>1. y[0] = r[0]
      <3>1. 0 \in 0 .. N  BY <1>1
      <3> HIDE DEF N
      <3> QED  BY <2>0, <3>1
    <2>2. ASSUME NEW n \in 1 .. N, y[n - 1] = r[n - 1] PROVE y[n] = r[n]
      <3>1. n \in 0 .. N /\ n # 0  BY <1>1
      <3>2. y[n] = From(n, y) /\ r[n] = From(n, r)  BY <2>0, <3>1
      <3>3. From(n, y) = From(n, r)  BY <2>2, <3>1
      <3> QED  BY <3>2, <3>3
    <2>3. \A n \in 1 .. N : y[n - 1] = r[n - 1] => y[n] = r[n]  BY <2>2
    <2> HIDE DEF N
    <2> QED  BY ONLY <1>1, <2>1, <2>3, SameEnd
  <1> QED  BY <1>4, <1>5

\* What one instruction leaves alone: constants, and whatever cl_mem is not its
\* destination's.
LEMMA InstructionElsewhere ==
  ASSUME NEW p \in Programs, Regular(p), NEW ports \in [Ported(p) -> Mems], NEW s \in States,
         NEW n \in 1 .. Len(p.code), NEW s1, s1 = Instruction(p, ports, s, p.code[n])
  PROVE  /\ \A m \in Mems : ~(p.code[n].dst \in Ported(p) /\ m = ports[p.code[n].dst])
                          => s1.mem[m] = s.mem[m]
         /\ \A q \in Programs : \A id \in DOMAIN q.consts : s1.arena[q][id] = s.arena[q][id]
  <1> DEFINE d == p.code[n].dst
             v == Operands(p, ports, s, p.code[n])
  <1>1. v \in Vals /\ d \in Ids(p) /\ s1 = Put(p, ports, s, d, v)  BY InstructionIs
  <1>2. d \notin DOMAIN p.consts  BY ProgramIds DEF Regular
  <1> HIDE DEF d, v
  <1>3. CASE d \in Ported(p)
    <2>1. s1 = WithMem(s, ports[d], v) /\ ports[d] \in Mems  BY <1>1, <1>3, PutIs
    <2>2. s1.arena = s.arena /\ s1.mem = [s.mem EXCEPT ![ports[d]] = v]  BY <1>1, <2>1, WithMemIs
    <2>3. s.mem \in [Mems -> Vals]  BY DEF States
    <2> QED  BY <1>3, <2>2, <2>3 DEF d
  <1>4. CASE d \notin Ported(p)
    <2>1. s1 = WithArena(s, p, d, v)  BY <1>1, <1>4, PutIs
    <2>2. ASSUME NEW q \in Programs, NEW id \in DOMAIN q.consts
          PROVE  s1.arena[q][id] = s.arena[q][id]
      <3>1. CASE q = p
        <4>1. id \in Ids(p) \ {d}  BY <1>2, <2>2, <3>1 DEF Ids
        <4> QED  BY <1>1, <2>1, <3>1, <4>1, WithArenaIs
      <3>2. CASE q # p  BY <1>1, <2>1, <3>2, WithArenaIs
      <3> QED  BY <3>1, <3>2
    <2> QED  BY <1>1, <2>1, <2>2, WithArenaIs
  <1> QED  BY <1>3, <1>4

\* The cl_mems a launch writes.
PortsWritten(p, ports) == {ports[id] : id \in Ported(p) \cap Written(p, Len(p.code))}

LEMMA LaunchElsewhere ==
  ASSUME NEW p \in Programs, Regular(p), NEW ports \in [Ported(p) -> Mems], NEW s \in States
  PROVE  /\ LaunchResult(p, ports, s) \in States
         /\ \A m \in Mems \ PortsWritten(p, ports) : LaunchResult(p, ports, s).mem[m] = s.mem[m]
         /\ \A q \in Programs : \A id \in DOMAIN q.consts :
              LaunchResult(p, ports, s).arena[q][id] = s.arena[q][id]
  <1> DEFINE N == Len(p.code)
             Same(x) == /\ \A m \in Mems \ PortsWritten(p, ports) : x.mem[m] = s.mem[m]
                        /\ \A q \in Programs : \A id \in DOMAIN q.consts : x.arena[q][id] = s.arena[q][id]
  <1>1. N \in Nat  BY ProgramIds
  <1>2. PICK r : IsLaunch(r, p, ports, s)  BY LaunchRuns
  <1> DEFINE T == {n \in 0 .. N : Same(r[n])}
  <1>3. 0 \in T  BY <1>1, <1>2 DEF IsLaunch
  <1>4. ASSUME NEW n \in 1 .. N, n - 1 \in T PROVE n \in T
    <2> HIDE DEF T, Same
    <2>0. n \in 0 .. N /\ n - 1 \in 0 .. N  BY <1>1
    <2>1. r[n - 1] \in States /\ r[n] = Instruction(p, ports, r[n - 1], p.code[n])
      BY <1>2, <2>0 DEF IsLaunch
    <2>2. p.code[n].dst \in Written(p, N)  BY <1>1 DEF Written
    <2>3. \A m \in Mems \ PortsWritten(p, ports) : r[n].mem[m] = r[n - 1].mem[m]
      BY <2>1, <2>2, InstructionElsewhere DEF PortsWritten
    <2>4. \A q \in Programs : \A id \in DOMAIN q.consts : r[n].arena[q][id] = r[n - 1].arena[q][id]
      BY <2>1, InstructionElsewhere
    <2>5. Same(r[n - 1])  BY <1>4 DEF T
    <2>6. Same(r[n])  BY <2>3, <2>4, <2>5 DEF Same
    <2> QED  BY <2>0, <2>6 DEF T
  <1>5. \A n \in 0 .. N : n \in T
    <2> HIDE DEF T, N
    <2> QED  BY <1>1, <1>3, <1>4, Upto
  <1>6. LaunchResult(p, ports, s) = r[N]  BY <1>2, LaunchIs
  <1>7. Same(r[N])
    <2>1. N \in T  BY <1>1, <1>5
    <2> QED  BY <2>1
  <1>8. r[N] \in States  BY <1>1, <1>2 DEF IsLaunch
  <1> HIDE DEF N, T
  <1> QED  BY <1>6, <1>7, <1>8

\* Two writes at different places commute.
LEMMA WritesCommute ==
  ASSUME NEW s \in States, NEW m \in Mems, NEW v \in Vals
  PROVE  /\ \A n \in Mems \ {m}, w \in Vals :
              WithMem(WithMem(s, m, v), n, w) = WithMem(WithMem(s, n, w), m, v)
         /\ \A p \in Programs : \A id \in Ids(p), w \in Vals :
              WithArena(WithMem(s, m, v), p, id, w) = WithMem(WithArena(s, p, id, w), m, v)
  <1>1. s.mem \in [Mems -> Vals]  BY DEF States
  <1>2. ASSUME NEW n \in Mems \ {m}, NEW w \in Vals
        PROVE  WithMem(WithMem(s, m, v), n, w) = WithMem(WithMem(s, n, w), m, v)
    <2> DEFINE a == WithMem(s, m, v)
               b == WithMem(s, n, w)
    <2>1. /\ a \in States /\ a.arena = s.arena /\ a.mem = [s.mem EXCEPT ![m] = v]
          /\ b \in States /\ b.arena = s.arena /\ b.mem = [s.mem EXCEPT ![n] = w]
      BY WithMemIs
    <2> HIDE DEF a, b
    <2> DEFINE x == WithMem(a, n, w)
               y == WithMem(b, m, v)
    <2>2. /\ x \in States /\ x.arena = s.arena /\ x.mem = [a.mem EXCEPT ![n] = w]
          /\ y \in States /\ y.arena = s.arena /\ y.mem = [b.mem EXCEPT ![m] = v]
      <3>1. x \in States /\ x.arena = a.arena /\ x.mem = [a.mem EXCEPT ![n] = w]  BY <2>1, WithMemIs
      <3>2. y \in States /\ y.arena = b.arena /\ y.mem = [b.mem EXCEPT ![m] = v]  BY <2>1, WithMemIs
      <3> QED  BY <2>1, <3>1, <3>2
    <2> HIDE DEF x, y
    <2>3. x.mem = y.mem  BY <1>1, <2>1, <2>2
    <2>4. x = y  BY <2>2, <2>3, SameState
    <2> QED  BY <2>4 DEF a, b, x, y
  <1>3. ASSUME NEW p \in Programs, NEW id \in Ids(p), NEW w \in Vals
        PROVE  WithArena(WithMem(s, m, v), p, id, w) = WithMem(WithArena(s, p, id, w), m, v)
    <2>0. PICK a : a = WithMem(s, m, v)  OBVIOUS
    <2>a. a \in States /\ a.arena = s.arena /\ a.mem = [s.mem EXCEPT ![m] = v]  BY <2>0, WithMemIs
    <2> DEFINE x == WithArena(a, p, id, w)
               y == WithMem(WithArena(s, p, id, w), m, v)
    <2>1. x \in States /\ x.mem = [s.mem EXCEPT ![m] = v]
      <3>1. x \in States /\ x.mem = a.mem  BY <2>a, WithArenaIs
      <3> HIDE DEF x
      <3> QED  BY <2>a, <3>1
    <2>2. x.arena = [s.arena EXCEPT ![p][id] = w]
      <3>1. x.arena = [a.arena EXCEPT ![p][id] = w]  BY <2>a DEF WithArena, States
      <3> HIDE DEF x
      <3> QED  BY <2>a, <3>1
    <2>3. /\ WithArena(s, p, id, w) \in States /\ WithArena(s, p, id, w).mem = s.mem
          /\ WithArena(s, p, id, w).arena = [s.arena EXCEPT ![p][id] = w]
      BY WithArenaIs DEF WithArena, States
    <2>4. y \in States /\ y.mem = [s.mem EXCEPT ![m] = v] /\ y.arena = [s.arena EXCEPT ![p][id] = w]
      <3> HIDE DEF WithArena
      <3> QED  BY <2>3, WithMemIs
    <2> HIDE DEF x, y
    <2>5. x = y  BY <2>1, <2>2, <2>4, SameState
    <2> QED  BY <2>0, <2>5 DEF x, y
  <1> QED  BY <1>2, <1>3

\* A launch neither reads nor writes a cl_mem that is at none of its ports.
LEMMA InstructionApart ==
  ASSUME NEW p \in Programs, Regular(p), NEW ports \in [Ported(p) -> Mems], NEW s \in States,
         NEW n \in 1 .. Len(p.code), NEW m \in Mems, m \notin {ports[id] : id \in Ported(p)},
         NEW v \in Vals
  PROVE  Instruction(p, ports, WithMem(s, m, v), p.code[n])
           = WithMem(Instruction(p, ports, s, p.code[n]), m, v)
  <1> DEFINE i == p.code[n]
             w == Operands(p, ports, s, i)
             z == WithMem(s, m, v)
  <1>1. z \in States /\ z.arena = s.arena /\ z.mem = [s.mem EXCEPT ![m] = v]  BY WithMemIs
  <1>2. s.mem \in [Mems -> Vals]  BY DEF States
  <1>3. \A id \in Ids(p) : Get(p, ports, z, id) = Get(p, ports, s, id)
    <2> HIDE DEF z
    <2> QED  BY <1>1, <1>2 DEF Get, HasPort
  <1>4. Operands(p, ports, z, i) = w  BY <1>3, ProgramIds DEF Operands
  <1>5. w \in Vals /\ i.dst \in Ids(p) /\ Instruction(p, ports, s, i) = Put(p, ports, s, i.dst, w)
    BY InstructionIs
  <1>6. Instruction(p, ports, z, i) = Put(p, ports, z, i.dst, w)  BY <1>1, <1>4, InstructionIs
  <1> HIDE DEF i, w
  <1>7. CASE i.dst \in Ported(p)
    <2>1. ports[i.dst] \in Mems \ {m}  BY <1>7
    <2>2. Put(p, ports, z, i.dst, w) = WithMem(z, ports[i.dst], w)  BY <1>1, <1>5, <1>7, PutIs
    <2>3. Put(p, ports, s, i.dst, w) = WithMem(s, ports[i.dst], w)  BY <1>5, <1>7, PutIs
    <2> QED  BY <1>5, <1>6, <2>1, <2>2, <2>3, WritesCommute DEF i
  <1>8. CASE i.dst \notin Ported(p)
    <2>2. Put(p, ports, z, i.dst, w) = WithArena(z, p, i.dst, w)  BY <1>1, <1>5, <1>8, PutIs
    <2>3. Put(p, ports, s, i.dst, w) = WithArena(s, p, i.dst, w)  BY <1>5, <1>8, PutIs
    <2> QED  BY <1>5, <1>6, <2>2, <2>3, WritesCommute DEF i
  <1> QED  BY <1>7, <1>8

LEMMA LaunchApart ==
  ASSUME NEW p \in Programs, Regular(p), NEW ports \in [Ported(p) -> Mems], NEW s \in States,
         NEW m \in Mems, m \notin {ports[id] : id \in Ported(p)}, NEW v \in Vals
  PROVE  LaunchResult(p, ports, WithMem(s, m, v)) = WithMem(LaunchResult(p, ports, s), m, v)
  <1> DEFINE N == Len(p.code)
  <1>1. N \in Nat  BY ProgramIds
  <1>2. PICK r : IsLaunch(r, p, ports, s)  BY LaunchRuns
  <1> DEFINE z == [n \in 0 .. N |-> WithMem(r[n], m, v)]
  <1>3. \A n \in 0 .. N : r[n] \in States  BY <1>2 DEF IsLaunch
  <1>4. z \in [0 .. N -> States]  BY <1>3, WithMemIs
  <1>5. z[0] = WithMem(s, m, v)  BY <1>1, <1>2 DEF IsLaunch
  <1>6. ASSUME NEW n \in 1 .. N PROVE z[n] = Instruction(p, ports, z[n - 1], p.code[n])
    <2>1. n \in 0 .. N /\ n - 1 \in 0 .. N /\ r[n] = Instruction(p, ports, r[n - 1], p.code[n])
      BY <1>1, <1>2 DEF IsLaunch
    <2>2. z[n] = WithMem(r[n], m, v) /\ z[n - 1] = WithMem(r[n - 1], m, v)  BY <2>1
    <2> HIDE DEF z
    <2> QED  BY <1>3, <2>1, <2>2, InstructionApart
  <1>7. IsLaunch(z, p, ports, WithMem(s, m, v))
    <2> HIDE DEF z
    <2> QED  BY <1>4, <1>5, <1>6 DEF IsLaunch
  <1>8. LaunchResult(p, ports, s) = r[N]  BY <1>2, LaunchIs
  <1>9. z[N] = WithMem(r[N], m, v)  BY <1>1
  <1>10. WithMem(s, m, v) \in States  BY WithMemIs
  <1> HIDE DEF z
  <1>11. LaunchResult(p, ports, WithMem(s, m, v)) = z[N]  BY <1>7, <1>10, LaunchIs
  <1> QED  BY <1>8, <1>9, <1>11
------------------------------------------------------------------------------
(* A launch computes the program's meaning *)

\* env is what Meaning computes instruction by instruction.
IsEnv(env, p, given) ==
  /\ env \in [0 .. Len(p.code) -> [Ids(p) -> Vals]] /\ env[0] = Start(p, given)
  /\ \A n \in 1 .. Len(p.code) : env[n] = Computed(env[n - 1], p.code[n])

LEMMA StartTyped ==
  ASSUME NEW p \in Programs, Regular(p), NEW given \in [DOMAIN p.ins -> Vals]
  PROVE  /\ Start(p, given) \in [Ids(p) -> Vals]
         /\ \A id \in DOMAIN p.consts : Start(p, given)[id] = p.consts[id]
         /\ \A j \in DOMAIN p.ins : Start(p, given)[p.ins[j]] = given[j]
  <1>1. p.consts \in [DOMAIN p.consts -> Vals]  BY ProgramShape DEF Vals
  <1>2. ASSUME NEW id \in ToSet(p.ins)
        PROVE  (CHOOSE i \in DOMAIN p.ins : p.ins[i] = id) \in DOMAIN p.ins
    BY DEF ToSet
  <1>3. Start(p, given) \in [Ids(p) -> Vals]
    <2>1. ASSUME NEW id \in Ids(p)
          PROVE  (IF id \in DOMAIN p.consts THEN p.consts[id]
                  ELSE IF id \in ToSet(p.ins)
                       THEN given[CHOOSE i \in DOMAIN p.ins : p.ins[i] = id] ELSE Junk) \in Vals
      BY <1>1, <1>2 DEF Vals
    <2> QED  BY <2>1 DEF Start
  <1>4. \A id \in DOMAIN p.consts : Start(p, given)[id] = p.consts[id]  BY DEF Start, Ids
  <1>5. ASSUME NEW j \in DOMAIN p.ins PROVE Start(p, given)[p.ins[j]] = given[j]
    <2>1. p.ins[j] \in ToSet(p.ins)  BY DEF ToSet
    <2>2. p.ins[j] \in Ids(p) /\ p.ins[j] \notin DOMAIN p.consts  BY <2>1 DEF Ids, Regular
    <2>3. (CHOOSE i \in DOMAIN p.ins : p.ins[i] = p.ins[j]) = j  BY DEF Regular, IsInjective
    <2> QED  BY <2>1, <2>2, <2>3 DEF Start
  <1> QED  BY <1>3, <1>4, <1>5

LEMMA ComputedIs ==
  ASSUME NEW p \in Programs, Regular(p), NEW e \in [Ids(p) -> Vals], NEW n \in 1 .. Len(p.code)
  PROVE  /\ Computed(e, p.code[n]) \in [Ids(p) -> Vals]
         /\ Computed(e, p.code[n])
              = [e EXCEPT ![p.code[n].dst] = Sum2(e[p.code[n].a], e[p.code[n].b], p.code[n].k)]
         /\ p.code[n].dst \in Ids(p)
  <1>1. /\ p.code[n].dst \in Ids(p) /\ p.code[n].a \in Ids(p) /\ p.code[n].b \in Ids(p)
        /\ p.code[n].k \in Nat
    BY ProgramIds
  <1>2. Sum2(e[p.code[n].a], e[p.code[n].b], p.code[n].k) \in Vals  BY <1>1, SumTyped
  <1> QED  BY <1>1, <1>2 DEF Computed

LEMMA MeaningIs ==
  ASSUME NEW p \in Programs, Regular(p), NEW given \in [DOMAIN p.ins -> Vals]
  PROVE  \E env : /\ IsEnv(env, p, given)
                  /\ Meaning(p, given) = [o \in DOMAIN p.outs |-> env[Len(p.code)][p.outs[o]]]
  <1> DEFINE N == Len(p.code)
             E == [Ids(p) -> Vals]
             first == Start(p, given)
             step == [n \in 1 .. N |-> [e \in E |-> Computed(e, p.code[n])]]
  <1>1. N \in Nat  BY ProgramIds
  <1>2. first \in E  BY StartTyped
  <1>3. step \in StepFuns(E, N) /\ \A n \in 1 .. N : \A e \in E : step[n][e] = Computed(e, p.code[n])
    <2>1. \A n \in 1 .. N : \A e \in E : Computed(e, p.code[n]) \in E
      BY ComputedIs
    <2> HIDE DEF E
    <2> QED  BY <2>1 DEF StepFuns
  <1> HIDE DEF step, first
  <1>4. PICK env : IsRun(env, E, first, N, step)
    <2>1. step \in StepFuns(E, N)  BY <1>3
    <2> HIDE DEF E, N
    <2> QED  BY <1>1, <1>2, <2>1, Iterated
  <1>5. IsEnv(env, p, given)
    <2>1. ASSUME NEW n \in 1 .. N PROVE env[n] = Computed(env[n - 1], p.code[n])
      <3>1. n - 1 \in 0 .. N  BY <1>1
      <3> HIDE DEF E, N
      <3>2. env[n - 1] \in E  BY <1>4, <3>1 DEF IsRun
      <3> QED  BY <1>3, <1>4, <3>2 DEF IsRun
    <2> QED  BY <1>4, <2>1 DEF IsRun, IsEnv, first
  <1> DEFINE From(n, x) == IF n = 0 THEN Start(p, given) ELSE Computed(x[n - 1], p.code[n])
             Is(x) == x = [n \in 0 .. N |-> From(n, x)]
             y == CHOOSE x : Is(x)
  <1>6. Is(env)
    <2>1. \A n \in 0 .. N : env[n] = From(n, env)  BY <1>1, <1>5 DEF IsEnv
    <2> HIDE DEF From
    <2> QED  BY <1>5, <2>1 DEF IsEnv
  <1>7. Is(y)  BY <1>6
  <1>8. Meaning(p, given) = [o \in DOMAIN p.outs |-> y[N][p.outs[o]]]  BY DEF Meaning
  <1> HIDE DEF y
  <1>9. y[N] = env[N]
    <2>0. \A n \in 0 .. N : y[n] = From(n, y) /\ env[n] = From(n, env)
      <3> HIDE DEF From, N
      <3> QED  BY <1>6, <1>7
    <2>1. y[0] = env[0]
      <3>1. 0 \in 0 .. N  BY <1>1
      <3> HIDE DEF N
      <3> QED  BY <2>0, <3>1
    <2>2. ASSUME NEW n \in 1 .. N, y[n - 1] = env[n - 1] PROVE y[n] = env[n]
      <3>1. n \in 0 .. N /\ n # 0  BY <1>1
      <3>2. y[n] = From(n, y) /\ env[n] = From(n, env)  BY <2>0, <3>1
      <3>3. From(n, y) = From(n, env)  BY <2>2, <3>1
      <3> QED  BY <3>2, <3>3
    <2>3. \A n \in 1 .. N : y[n - 1] = env[n - 1] => y[n] = env[n]  BY <2>2
    <2> HIDE DEF N
    <2> QED  BY ONLY <1>1, <2>1, <2>3, SameEnd
  <1> QED  BY <1>5, <1>8, <1>9

\* A program finds its arguments and constants.
Supplied(p, ports, s, given) ==
  /\ \A id \in DOMAIN p.consts : s.arena[p][id] = p.consts[id]
  /\ \A j \in DOMAIN p.ins : Get(p, ports, s, p.ins[j]) = given[j]

\* The cl_mems bound to results are bound to nothing else.
ResultsApart(p, ports) ==
  \A d \in Ported(p) \cap ToSet(p.outs) : \A id \in Ported(p) \ {d} : ports[d] # ports[id]

\* A write changes what is read of that buffer only.
LEMMA GetPut ==
  ASSUME NEW p \in Programs, NEW ports \in [Ported(p) -> Mems], NEW s \in States,
         NEW d \in Ids(p), NEW v \in Vals,
         d \in Ported(p) => \A id \in Ported(p) \ {d} : ports[d] # ports[id]
  PROVE  \A id \in Ids(p) : Get(p, ports, Put(p, ports, s, d, v), id)
                             = IF id = d THEN v ELSE Get(p, ports, s, id)
  <1> DEFINE x == Put(p, ports, s, d, v)
  <1>0. s.mem \in [Mems -> Vals]  BY DEF States
  <1>1. CASE d \in Ported(p)
    <2>1. x = WithMem(s, ports[d], v) /\ ports[d] \in Mems  BY <1>1, PutIs
    <2>2. x.arena = s.arena /\ x.mem = [s.mem EXCEPT ![ports[d]] = v]  BY <2>1, WithMemIs
    <2> HIDE DEF x
    <2>3. \A id \in Ids(p) : Get(p, ports, x, id) = IF id = d THEN v ELSE Get(p, ports, s, id)
      BY <1>0, <1>1, <2>2 DEF Get, HasPort
    <2> QED  BY <2>3 DEF x
  <1>2. CASE d \notin Ported(p)
    <2>1. x = WithArena(s, p, d, v)  BY <1>2, PutIs
    <2>2. /\ x.mem = s.mem /\ x.arena[p][d] = v
          /\ \A id \in Ids(p) \ {d} : x.arena[p][id] = s.arena[p][id]
      BY <2>1, WithArenaIs
    <2> HIDE DEF x
    <2>3. \A id \in Ids(p) : Get(p, ports, x, id) = IF id = d THEN v ELSE Get(p, ports, s, id)
      BY <1>2, <2>2 DEF Get, HasPort
    <2> QED  BY <2>3 DEF x
  <1> QED  BY <1>1, <1>2

\* A launch computes the program's meaning (runtime.cc LaunchKernel, vm_common.cl
\* VMO_BASE): whatever the arena and the result's cl_mems held before, if arguments and
\* constants are where the ports and the arena say, and results have cl_mems of their own.
THEOREM Computes ==
  ASSUME NEW p \in Programs, Regular(p), NEW ports \in [Ported(p) -> Mems], NEW s \in States,
         NEW given \in [DOMAIN p.ins -> Vals], Supplied(p, ports, s, given), ResultsApart(p, ports)
  PROVE  \A o \in DOMAIN p.outs :
           Get(p, ports, LaunchResult(p, ports, s), p.outs[o]) = Meaning(p, given)[o]
  <1> DEFINE N == Len(p.code)
             Known(n) == DOMAIN p.consts \cup ToSet(p.ins) \cup Written(p, n)
  <1>1. N \in Nat /\ DOMAIN p.code = 1 .. N  BY ProgramIds
  <1>2. PICK r : IsLaunch(r, p, ports, s)  BY LaunchRuns
  <1>3. PICK env : /\ IsEnv(env, p, given)
                   /\ Meaning(p, given) = [o \in DOMAIN p.outs |-> env[N][p.outs[o]]]
    BY MeaningIs
  <1> DEFINE Agree(n) == \A id \in Known(n) : Get(p, ports, r[n], id) = env[n][id]
             T == {n \in 0 .. N : Agree(n)}
  <1>4. Agree(0)
    <2>1. r[0] = s /\ env[0] = Start(p, given)  BY <1>2, <1>3 DEF IsLaunch, IsEnv
    <2>2. Known(0) = DOMAIN p.consts \cup ToSet(p.ins)  BY DEF Written
    <2>3. ASSUME NEW id \in DOMAIN p.consts PROVE Get(p, ports, s, id) = Start(p, given)[id]
      <3>1. id \notin Ported(p)  BY ProgramIds
      <3> QED  BY <3>1, StartTyped DEF Supplied, Get, HasPort
    <2>4. ASSUME NEW id \in ToSet(p.ins) PROVE Get(p, ports, s, id) = Start(p, given)[id]
      <3>1. PICK j \in DOMAIN p.ins : id = p.ins[j]  BY DEF ToSet
      <3> QED  BY <3>1, StartTyped DEF Supplied
    <2> QED  BY <2>1, <2>2, <2>3, <2>4
  <1>5. ASSUME NEW n \in 1 .. N, Agree(n - 1) PROVE Agree(n)
    <2> DEFINE i == p.code[n]
               v == Operands(p, ports, r[n - 1], i)
    <2>0. n - 1 \in 0 .. N  BY <1>1
    <2>1. r[n - 1] \in States /\ r[n] = Instruction(p, ports, r[n - 1], i)
      BY <1>2, <2>0 DEF IsLaunch
    <2>2. env[n - 1] \in [Ids(p) -> Vals] /\ env[n] = Computed(env[n - 1], i)
      BY <1>3, <2>0 DEF IsEnv
    <2>3. v \in Vals /\ i.dst \in Ids(p) /\ r[n] = Put(p, ports, r[n - 1], i.dst, v)
      BY <2>1, InstructionIs
    <2>4. i.dst \notin DOMAIN p.consts \cup ToSet(p.ins) /\ i.a \in Known(n - 1) /\ i.b \in Known(n - 1)
      BY <1>1 DEF Regular
    <2>5. v = Sum2(env[n - 1][i.a], env[n - 1][i.b], i.k)  BY <1>5, <2>4 DEF Operands
    <2>6. i.dst \in Ported(p) => \A id \in Ported(p) \ {i.dst} : ports[i.dst] # ports[id]
      <3>1. i.dst \in Ported(p) => i.dst \in ToSet(p.outs)  BY <2>4, ProgramIds
      <3> QED  BY <3>1 DEF ResultsApart
    <2>7. env[n] = [env[n - 1] EXCEPT ![i.dst] = v]
      <3>1. Computed(env[n - 1], i) = [env[n - 1] EXCEPT ![i.dst] = Sum2(env[n - 1][i.a], env[n - 1][i.b], i.k)]
        <4>1. env[n - 1] \in [Ids(p) -> Vals]  BY <2>2
        <4> QED  BY <4>1, ComputedIs
      <3> HIDE DEF v, i
      <3> QED  BY <2>2, <2>5, <3>1
    <2>8. Known(n) = Known(n - 1) \cup {i.dst}
      <3>1. Written(p, n) = Written(p, n - 1) \cup {i.dst}  BY <1>1 DEF Written
      <3> QED  BY <3>1
    <2>9. Known(n) \subseteq Ids(p)
      <3>1. \A k \in 1 .. n : p.code[k].dst \in Ids(p)  BY <1>1, ProgramIds
      <3> QED  BY <3>1, ProgramIds DEF Written
    <2> HIDE DEF i, v, Known
    <2>10. ASSUME NEW id \in Known(n) PROVE Get(p, ports, r[n], id) = env[n][id]
      <3>1. Get(p, ports, r[n], id) = IF id = i.dst THEN v ELSE Get(p, ports, r[n - 1], id)
        BY <2>1, <2>3, <2>6, <2>9, GetPut
      <3>2. id \in Ids(p)  BY <2>9
      <3>3. env[n][id] = IF id = i.dst THEN v ELSE env[n - 1][id]  BY <2>2, <2>7, <3>2
      <3> QED  BY <1>5, <2>8, <3>1, <3>3
    <2> QED  BY <2>10
  <1>6. \A n \in 0 .. N : n \in T
    <2>1. 0 \in T  BY <1>1, <1>4
    <2>2. ASSUME NEW n \in 1 .. N, n - 1 \in T PROVE n \in T
      <3>1. n \in 0 .. N  BY <1>1
      <3> HIDE DEF Agree
      <3> QED  BY <1>5, <2>2, <3>1
    <2> HIDE DEF T, N
    <2> QED  BY <1>1, <2>1, <2>2, Upto
  <1>7. Agree(N)
    <2>1. N \in T  BY <1>1, <1>6
    <2> HIDE DEF Agree
    <2> QED  BY <2>1
  <1>8. LaunchResult(p, ports, s) = r[N]  BY <1>2, LaunchIs
  <1>9. ASSUME NEW o \in DOMAIN p.outs PROVE p.outs[o] \in Known(N)
    <2>1. p.outs[o] \in ToSet(p.outs)  BY DEF ToSet
    <2> QED  BY <2>1 DEF Regular
  <1>10. \A o \in DOMAIN p.outs : Meaning(p, given)[o] = env[N][p.outs[o]]  BY <1>3
  <1> HIDE DEF Known, N
  <1> QED  BY <1>7, <1>8, <1>9, <1>10
------------------------------------------------------------------------------
(* What the queue comes to *)

LaunchOf(p, ports) == [cmd |-> "launch", mems |-> {ports[id] : id \in Ported(p)}, prog |-> p,
                       ports |-> ports]

Commands ==
  {Write(m, v) : m \in Mems, v \in Data} \cup
  UNION {{CopyIn(m, p, id) : m \in Mems, id \in ToSet(p.ins)} \cup
         {CopyOut(p, id, m) : id \in ToSet(p.outs), m \in Mems} \cup
         {LaunchOf(p, ports) : ports \in [Ported(p) -> Mems]} : p \in Programs}

\* The cl_mems a command writes.
Changes(c) == CASE c.cmd = "in" -> {}
                [] c.cmd \in {"out", "write"} -> {c.mem}
                [] c.cmd = "launch" -> PortsWritten(c.prog, c.ports)

\* The state of the memories when all of q has run.
End(q, s) ==
  LET r[n \in 0 .. Len(q)] == IF n = 0 THEN s ELSE Ran(q[n], r[n - 1])
  IN r[Len(q)]

Settled == End(queue, Memory)

\* A command is one of four.
LEMMA EachCommand ==
  ASSUME NEW c \in Commands
  PROVE  \/ \E m \in Mems, v \in Data : c = Write(m, v)
         \/ \E p \in Programs, m \in Mems : \E id \in ToSet(p.ins) : c = CopyIn(m, p, id)
         \/ \E p \in Programs, m \in Mems : \E id \in ToSet(p.outs) : c = CopyOut(p, id, m)
         \/ \E p \in Programs : \E ports \in [Ported(p) -> Mems] : c = LaunchOf(p, ports)
  BY DEF Commands

\* What a command does, wherever it runs.
RunsWell(c) ==
  /\ \A s \in States :
       /\ Ran(c, s) \in States
       /\ \A m \in Mems \ Changes(c) : Ran(c, s).mem[m] = s.mem[m]
       /\ \A q \in Programs : \A id \in DOMAIN q.consts : Ran(c, s).arena[q][id] = s.arena[q][id]
       /\ \A m \in Mems \ c.mems, v \in Vals : Ran(c, WithMem(s, m, v)) = WithMem(Ran(c, s), m, v)
  /\ Changes(c) \subseteq c.mems /\ c.mems \subseteq Mems

LEMMA WriteRuns == ASSUME NEW m \in Mems, NEW v \in Data PROVE RunsWell(Write(m, v))
  <1> DEFINE c == Write(m, v)
  <1>1. c.cmd = "write" /\ c.mem = m /\ c.value = v /\ c.mems = {m} /\ Changes(c) = {m} /\ v \in Vals
    BY DataInRange DEF Write, Changes, Vals
  <1>2. \A s : Ran(c, s) = WithMem(s, m, v)  BY <1>1 DEF Ran, WithMem
  <1> HIDE DEF c
  <1>3. ASSUME NEW s \in States
        PROVE  /\ Ran(c, s) \in States /\ Ran(c, s).arena = s.arena
               /\ \A n \in Mems \ {m} : Ran(c, s).mem[n] = s.mem[n]
    <2>1. s.mem \in [Mems -> Vals]  BY DEF States
    <2>2. /\ WithMem(s, m, v) \in States /\ WithMem(s, m, v).arena = s.arena
          /\ WithMem(s, m, v).mem = [s.mem EXCEPT ![m] = v]
      BY <1>1, WithMemIs
    <2> QED  BY <1>2, <2>1, <2>2
  <1>4. ASSUME NEW s \in States, NEW n \in Mems \ {m}, NEW w \in Vals
        PROVE  Ran(c, WithMem(s, n, w)) = WithMem(Ran(c, s), n, w)
    BY <1>1, <1>2, WritesCommute
  <1>5. RunsWell(c)  BY <1>1, <1>3, <1>4 DEF RunsWell
  <1> QED  BY <1>5 DEF c

LEMMA CopyInRuns ==
  ASSUME Tidy, NEW p \in Programs, NEW m \in Mems, NEW i \in ToSet(p.ins) PROVE RunsWell(CopyIn(m, p, i))
  <1> DEFINE c == CopyIn(m, p, i)
  <1>1. c.cmd = "in" /\ c.mem = m /\ c.prog = p /\ c.id = i /\ c.mems = {m} /\ Changes(c) = {}
    BY DEF CopyIn, Changes
  <1>2. \A s : Ran(c, s) = WithArena(s, p, i, s.mem[m])  BY <1>1 DEF Ran, WithArena
  <1>3. i \in Ids(p) /\ i \notin DOMAIN p.consts  BY DEF Ids, Tidy, Regular
  <1> HIDE DEF c
  <1>4. ASSUME NEW s \in States PROVE s.mem[m] \in Vals  BY DEF States
  <1>5. ASSUME NEW s \in States
        PROVE  /\ Ran(c, s) \in States /\ Ran(c, s).mem = s.mem
               /\ \A q \in Programs : \A id \in DOMAIN q.consts : Ran(c, s).arena[q][id] = s.arena[q][id]
    <2>1. /\ WithArena(s, p, i, s.mem[m]) \in States /\ WithArena(s, p, i, s.mem[m]).mem = s.mem
          /\ \A d \in Ids(p) \ {i} : WithArena(s, p, i, s.mem[m]).arena[p][d] = s.arena[p][d]
          /\ \A q \in Programs \ {p} : WithArena(s, p, i, s.mem[m]).arena[q] = s.arena[q]
      BY <1>3, <1>4, WithArenaIs
    <2>2. \A id \in DOMAIN p.consts : id \in Ids(p) \ {i}  BY <1>3 DEF Ids
    <2> QED  BY <1>2, <2>1, <2>2
  <1>6. ASSUME NEW s \in States, NEW n \in Mems \ {m}, NEW w \in Vals
        PROVE  Ran(c, WithMem(s, n, w)) = WithMem(Ran(c, s), n, w)
    <2>1. s.mem \in [Mems -> Vals] /\ WithMem(s, n, w).mem = [s.mem EXCEPT ![n] = w]
      BY WithMemIs DEF States
    <2>2. WithMem(s, n, w).mem[m] = s.mem[m]  BY <2>1
    <2> QED  BY <1>2, <1>3, <1>4, <2>2, WritesCommute
  <1>7. RunsWell(c)  BY <1>1, <1>5, <1>6 DEF RunsWell
  <1> QED  BY <1>7 DEF c

LEMMA CopyOutRuns ==
  ASSUME NEW p \in Programs, NEW m \in Mems, NEW o \in ToSet(p.outs) PROVE RunsWell(CopyOut(p, o, m))
  <1> DEFINE c == CopyOut(p, o, m)
  <1>1. c.cmd = "out" /\ c.mem = m /\ c.prog = p /\ c.id = o /\ c.mems = {m} /\ Changes(c) = {m}
    BY DEF CopyOut, Changes
  <1>2. \A s : Ran(c, s) = WithMem(s, m, s.arena[p][o])  BY <1>1 DEF Ran, WithMem
  <1> HIDE DEF c
  <1>3. ASSUME NEW s \in States PROVE s.arena[p][o] \in Vals /\ s.mem \in [Mems -> Vals]
    BY DEF States, Arenas, Ids
  <1>4. ASSUME NEW s \in States
        PROVE  /\ Ran(c, s) \in States /\ Ran(c, s).arena = s.arena
               /\ \A n \in Mems \ {m} : Ran(c, s).mem[n] = s.mem[n]
    <2>1. PICK v \in Vals : v = s.arena[p][o]  BY <1>3
    <2>2. /\ WithMem(s, m, v) \in States /\ WithMem(s, m, v).arena = s.arena
          /\ WithMem(s, m, v).mem = [s.mem EXCEPT ![m] = v]
      BY WithMemIs
    <2> QED  BY <1>2, <1>3, <2>1, <2>2
  <1>5. ASSUME NEW s \in States, NEW n \in Mems \ {m}, NEW w \in Vals
        PROVE  Ran(c, WithMem(s, n, w)) = WithMem(Ran(c, s), n, w)
    <2>1. WithMem(s, n, w).arena = s.arena  BY WithMemIs
    <2>2. PICK v \in Vals : v = s.arena[p][o]  BY <1>3
    <2>3. WithMem(WithMem(s, n, w), m, v) = WithMem(WithMem(s, m, v), n, w)  BY WritesCommute
    <2> QED  BY <1>2, <2>1, <2>2, <2>3
  <1>6. RunsWell(c)  BY <1>1, <1>4, <1>5 DEF RunsWell
  <1> QED  BY <1>6 DEF c

LEMMA LaunchRunsWell ==
  ASSUME Tidy, NEW p \in Programs, NEW ports \in [Ported(p) -> Mems] PROVE RunsWell(LaunchOf(p, ports))
  <1> DEFINE c == LaunchOf(p, ports)
  <1>1. /\ c.cmd = "launch" /\ c.prog = p /\ c.ports = ports /\ c.mems = {ports[id] : id \in Ported(p)}
        /\ Changes(c) = PortsWritten(p, ports)
    BY DEF LaunchOf, Changes
  <1>2. \A s : Ran(c, s) = LaunchResult(p, ports, s)  BY <1>1 DEF Ran
  <1>3. Regular(p)  BY DEF Tidy
  <1>4. Changes(c) \subseteq c.mems /\ c.mems \subseteq Mems  BY <1>1 DEF PortsWritten
  <1> HIDE DEF c
  <1>5. ASSUME NEW s \in States
        PROVE  /\ Ran(c, s) \in States
               /\ \A m \in Mems \ Changes(c) : Ran(c, s).mem[m] = s.mem[m]
               /\ \A q \in Programs : \A id \in DOMAIN q.consts : Ran(c, s).arena[q][id] = s.arena[q][id]
    BY <1>1, <1>2, <1>3, LaunchElsewhere
  <1>6. ASSUME NEW s \in States, NEW n \in Mems \ c.mems, NEW w \in Vals
        PROVE  Ran(c, WithMem(s, n, w)) = WithMem(Ran(c, s), n, w)
    BY <1>1, <1>2, <1>3, LaunchApart
  <1>7. RunsWell(c)  BY <1>4, <1>5, <1>6 DEF RunsWell
  <1> QED  BY <1>7 DEF c

LEMMA CommandsRunWell == ASSUME Tidy, NEW c \in Commands PROVE RunsWell(c)
  BY EachCommand, WriteRuns, CopyInRuns, CopyOutRuns, LaunchRunsWell

\* r is what the device does command by command.
IsQueueRun(r, q, s) ==
  /\ r \in [0 .. Len(q) -> States] /\ r[0] = s
  /\ \A n \in 1 .. Len(q) : r[n] = Ran(q[n], r[n - 1])

LEMMA QueueRuns ==
  ASSUME Tidy, NEW q \in Seq(Commands), NEW s \in States PROVE \E r : IsQueueRun(r, q, s)
  <1> DEFINE N == Len(q)
             step == [n \in 1 .. N |-> [x \in States |-> Ran(q[n], x)]]
  <1>1. N \in Nat /\ \A n \in 1 .. N : q[n] \in Commands  OBVIOUS
  <1>2. step \in StepFuns(States, N) /\ \A n \in 1 .. N : \A x \in States : step[n][x] = Ran(q[n], x)
    <2>1. \A n \in 1 .. N : \A x \in States : Ran(q[n], x) \in States
      BY <1>1, CommandsRunWell DEF RunsWell
    <2> HIDE DEF N
    <2> QED  BY <2>1 DEF StepFuns
  <1> HIDE DEF step
  <1>3. PICK r : IsRun(r, States, s, N, step)
    <2> HIDE DEF N
    <2> QED  BY <1>1, <1>2, Iterated
  <1>4. ASSUME NEW n \in 1 .. N PROVE r[n] = Ran(q[n], r[n - 1])
    <2>1. r[n - 1] \in States  BY <1>1, <1>3 DEF IsRun
    <2> QED  BY <1>2, <1>3, <2>1 DEF IsRun
  <1> QED  BY <1>3, <1>4 DEF IsRun, IsQueueRun

LEMMA EndIs ==
  ASSUME NEW q, Len(q) \in Nat, NEW s \in States, NEW r, IsQueueRun(r, q, s)
  PROVE  End(q, s) = r[Len(q)] /\ End(q, s) \in States
  <1> DEFINE N == Len(q)
             From(n, x) == IF n = 0 THEN s ELSE Ran(q[n], x[n - 1])
             Is(x) == x = [n \in 0 .. N |-> From(n, x)]
             y == CHOOSE x : Is(x)
  <1>2. Is(r)
    <2>1. \A n \in 0 .. N : r[n] = From(n, r)  BY DEF IsQueueRun
    <2> HIDE DEF From
    <2> QED  BY <2>1 DEF IsQueueRun
  <1>3. Is(y)  BY <1>2
  <1>4. End(q, s) = y[N]  BY DEF End
  <1> HIDE DEF y
  <1>5. y[N] = r[N]
    <2>0. \A n \in 0 .. N : y[n] = From(n, y) /\ r[n] = From(n, r)
      <3> HIDE DEF From, N
      <3> QED  BY <1>2, <1>3
    <2>1. N \in Nat  OBVIOUS
    <2>2. y[0] = r[0]
      <3>1. 0 \in 0 .. N  BY <2>1
      <3> HIDE DEF N
      <3> QED  BY <2>0, <3>1
    <2>3. ASSUME NEW n \in 1 .. N, y[n - 1] = r[n - 1] PROVE y[n] = r[n]
      <3>1. n \in 0 .. N /\ n # 0  BY <2>1
      <3>2. y[n] = From(n, y) /\ r[n] = From(n, r)  BY <2>0, <3>1
      <3>3. From(n, y) = From(n, r)  BY <2>3, <3>1
      <3> QED  BY <3>2, <3>3
    <2>4. \A n \in 1 .. N : y[n - 1] = r[n - 1] => y[n] = r[n]  BY <2>3
    <2> HIDE DEF N
    <2> QED  BY ONLY <2>1, <2>2, <2>4, SameEnd
  <1> QED  BY <1>4, <1>5 DEF IsQueueRun

\* Running the oldest command does not change what the queue comes to ...
LEMMA EndTail ==
  ASSUME Tidy, NEW q \in Seq(Commands), q # <<>>, NEW s \in States
  PROVE  /\ Head(q) \in Commands /\ Tail(q) \in Seq(Commands) /\ Ran(Head(q), s) \in States
         /\ End(Tail(q), Ran(Head(q), s)) = End(q, s)
  <1> DEFINE N == Len(q)
             d == Tail(q)
  <1>1. /\ N \in Nat \ {0} /\ Head(q) = q[1] /\ q[1] \in Commands /\ d \in Seq(Commands)
        /\ Len(d) = N - 1 /\ \A n \in 1 .. N - 1 : d[n] = q[n + 1]
    OBVIOUS
  <1>2. PICK r : IsQueueRun(r, q, s)  BY QueueRuns
  <1> HIDE DEF d, N
  <1>3. r[1] = Ran(q[1], s) /\ Ran(q[1], s) \in States
    BY <1>1, <1>2 DEF IsQueueRun, N
  <1> DEFINE z == [n \in 0 .. N - 1 |-> r[n + 1]]
  <1>4. IsQueueRun(z, d, Ran(q[1], s))
    <2>1. z \in [0 .. Len(d) -> States]  BY <1>1, <1>2 DEF IsQueueRun, N
    <2>2. z[0] = Ran(q[1], s)  BY <1>1, <1>3
    <2>3. ASSUME NEW n \in 1 .. Len(d) PROVE z[n] = Ran(d[n], z[n - 1])
      <3>1. /\ n + 1 \in 1 .. N /\ (n + 1) - 1 = n /\ (n - 1) + 1 = n
            /\ n \in 0 .. N - 1 /\ n - 1 \in 0 .. N - 1 /\ n \in 1 .. N - 1
        BY <1>1
      <3>2. z[n] = r[n + 1] /\ z[n - 1] = r[n] /\ d[n] = q[n + 1]  BY <1>1, <3>1
      <3>3. r[n + 1] = Ran(q[n + 1], r[n])  BY <1>2, <3>1 DEF IsQueueRun, N
      <3> QED  BY <3>2, <3>3
    <2> QED  BY <2>1, <2>2, <2>3 DEF IsQueueRun
  <1>5. z[N - 1] = r[N]  BY <1>1
  <1> HIDE DEF z
  <1>6. End(d, Ran(q[1], s)) = z[N - 1]  BY <1>1, <1>3, <1>4, EndIs
  <1>7. End(q, s) = r[N]  BY <1>1, <1>2, EndIs DEF N
  <1> QED  BY <1>1, <1>3, <1>5, <1>6, <1>7 DEF d

\* ... and a new command acts on what the queue comes to.
LEMMA EndAppend ==
  ASSUME Tidy, NEW q \in Seq(Commands), NEW c \in Commands, NEW s \in States
  PROVE  End(Append(q, c), s) = Ran(c, End(q, s)) /\ Append(q, c) \in Seq(Commands)
  <1> DEFINE N == Len(q)
             d == Append(q, c)
  <1>1. /\ N \in Nat /\ d \in Seq(Commands) /\ Len(d) = N + 1 /\ d[N + 1] = c
        /\ \A n \in 1 .. N : d[n] = q[n]
    OBVIOUS
  <1>2. PICK r : IsQueueRun(r, q, s)  BY QueueRuns
  <1> HIDE DEF d
  <1>3. r[N] \in States /\ Ran(c, r[N]) \in States
    BY <1>1, <1>2, CommandsRunWell DEF IsQueueRun, RunsWell
  <1> DEFINE z == [n \in 0 .. N + 1 |-> IF n = N + 1 THEN Ran(c, r[N]) ELSE r[n]]
  <1>4. IsQueueRun(z, d, s)
    <2>1. z \in [0 .. Len(d) -> States]
      <3>1. \A n \in 0 .. N + 1 : n # N + 1 => r[n] \in States  BY <1>1, <1>2 DEF IsQueueRun
      <3> QED  BY <1>1, <1>3, <3>1
    <2>2. z[0] = s  BY <1>1, <1>2 DEF IsQueueRun
    <2>3. ASSUME NEW n \in 1 .. Len(d) PROVE z[n] = Ran(d[n], z[n - 1])
      <3>1. z[n - 1] = r[n - 1]  BY <1>1
      <3>2. CASE n = N + 1
        <4>1. z[n] = Ran(c, r[N]) /\ n - 1 = N /\ d[n] = c  BY <1>1, <3>2
        <4> QED  BY <3>1, <4>1
      <3>3. CASE n # N + 1
        <4>1. n \in 1 .. N /\ z[n] = r[n] /\ d[n] = q[n]  BY <1>1, <3>3
        <4> QED  BY <1>2, <3>1, <4>1 DEF IsQueueRun
      <3> QED  BY <3>2, <3>3
    <2> QED  BY <2>1, <2>2, <2>3 DEF IsQueueRun
  <1>5. z[N + 1] = Ran(c, r[N])  BY <1>1
  <1> HIDE DEF z
  <1>6. End(d, s) = z[N + 1]  BY <1>1, <1>4, EndIs
  <1>7. End(q, s) = r[N]  BY <1>1, <1>2, EndIs
  <1> QED  BY <1>1, <1>5, <1>6, <1>7 DEF d

\* A cl_mem that no command holds on to passes through the queue as it is.
LEMMA EndApart ==
  ASSUME Tidy, NEW q \in Seq(Commands), NEW s \in States, NEW m \in Mems, NEW v \in Vals,
         \A n \in DOMAIN q : m \notin q[n].mems
  PROVE  End(q, WithMem(s, m, v)) = WithMem(End(q, s), m, v)
  <1> DEFINE N == Len(q)
  <1>1. N \in Nat /\ DOMAIN q = 1 .. N /\ \A n \in 1 .. N : q[n] \in Commands  OBVIOUS
  <1>2. PICK r : IsQueueRun(r, q, s)  BY QueueRuns
  <1> DEFINE z == [n \in 0 .. N |-> WithMem(r[n], m, v)]
  <1>3. \A n \in 0 .. N : r[n] \in States  BY <1>2 DEF IsQueueRun
  <1>4. IsQueueRun(z, q, WithMem(s, m, v))
    <2>1. z \in [0 .. N -> States]  BY <1>3, WithMemIs
    <2>2. z[0] = WithMem(s, m, v)  BY <1>1, <1>2 DEF IsQueueRun
    <2>3. ASSUME NEW n \in 1 .. N PROVE z[n] = Ran(q[n], z[n - 1])
      <3>1. n \in 0 .. N /\ n - 1 \in 0 .. N /\ r[n] = Ran(q[n], r[n - 1])
        BY <1>1, <1>2 DEF IsQueueRun
      <3>2. z[n] = WithMem(r[n], m, v) /\ z[n - 1] = WithMem(r[n - 1], m, v)  BY <3>1
      <3>3. RunsWell(q[n]) /\ m \in Mems \ q[n].mems  BY <1>1, CommandsRunWell
      <3>4. r[n - 1] \in States  BY <1>3, <3>1
      <3> HIDE DEF z, N
      <3> QED  BY <3>1, <3>2, <3>3, <3>4 DEF RunsWell
    <2> HIDE DEF z
    <2> QED  BY <2>1, <2>2, <2>3 DEF IsQueueRun
  <1>5. z[N] = WithMem(r[N], m, v)  BY <1>1
  <1>6. WithMem(s, m, v) \in States  BY WithMemIs
  <1> HIDE DEF z
  <1>7. End(q, WithMem(s, m, v)) = z[N]  BY <1>1, <1>4, <1>6, EndIs
  <1>8. End(q, s) = r[N]  BY <1>1, <1>2, EndIs
  <1> QED  BY <1>5, <1>7, <1>8

LEMMA EndTyped == ASSUME Tidy, NEW q \in Seq(Commands), NEW s \in States PROVE End(q, s) \in States
  BY QueueRuns, EndIs
------------------------------------------------------------------------------
(* The invariant *)

ValuesTyped ==
  /\ Memory \in States /\ queue \in Seq(Commands)
  /\ io_bufs = [p \in Programs |-> io_bufs[p]]
  /\ \A p \in Programs : io_bufs[p] \in [Ported(p) -> Mems \cup {None}]
  /\ \A b \in BufNames : bufs[b].value \in Vals

\* mu is held exactly by the call that is inside WriteToDevice or ExecuteDevice.
Locked == \A t \in Threads : call[t].at \in {"written", "input", "copy"} <=> mu = t

Executes(c) == c.at \in {"bind", "input", "copy"}

\* The value of the argument that a call was given.
Given(c) == [j \in DOMAIN c.args |-> bufs[c.args[j]].value]

\* A call's arguments live as long as the call.
ArgsLive ==
  \A t \in Threads : Executes(call[t]) =>
    /\ \A j \in DOMAIN call[t].args : /\ Live(call[t].args[j])
                                     /\ call[t].ins[j] = bufs[call[t].args[j]].mem
    /\ call[t].wanted = Meaning(call[t].prog, Given(call[t]))

ConstsKept == \A p \in Programs : \A id \in DOMAIN p.consts : Settled.arena[p][id] = p.consts[id]

\* Live buffers hold their values, and nothing in the queue will change that.
BuffersSettled ==
  \A b \in BufNames : Live(b) =>
    /\ contents[bufs[b].mem] = bufs[b].value
    /\ Settled.mem[bufs[b].mem] = bufs[b].value
    /\ \A n \in DOMAIN queue : bufs[b].mem \notin Changes(queue[n])

\* What the call that holds mu has prepared so far, once the queue has run.
Bound(c, id, m) == HasPort(c.prog, id) => io_bufs[c.prog][id] = m

Prepared(c) ==
  /\ c.at = "bind" => c.done = 0 /\ c.outs = <<>>
  /\ c.at = "written" => Settled.mem[c.mem] = c.value
  /\ c.at = "input" =>
       /\ c.done <= Len(c.ins)
       /\ \A j \in 1 .. c.done :
            /\ Bound(c, c.prog.ins[j], c.ins[j])
            /\ ~HasPort(c.prog, c.prog.ins[j]) =>
                 Settled.arena[c.prog][c.prog.ins[j]] = Given(c)[j]
       /\ \A o \in DOMAIN c.outs : Bound(c, c.prog.outs[o], c.outs[o])
  /\ c.at = "copy" =>
       \A o \in DOMAIN c.outs :
         /\ HasPort(c.prog, c.prog.outs[o]) \/ o <= c.done => Settled.mem[c.outs[o]] = c.wanted[o]
         /\ ~HasPort(c.prog, c.prog.outs[o]) =>
              Settled.arena[c.prog][c.prog.outs[o]] = c.wanted[o]

Values ==
  /\ ValuesTyped /\ Locked /\ ArgsLive /\ ConstsKept /\ BuffersSettled
  /\ \A t \in Threads : Prepared(call[t])
------------------------------------------------------------------------------
(* How a step of a thread keeps the invariant *)

\* Whose cl_mems are whose.
LEMMA Apart ==
  ASSUME OwnInv
  PROVE  /\ created \subseteq Mems
         /\ \A b \in BufNames : Live(b) => bufs[b].mem \in created
         /\ \A t \in Threads : call[t].at \in {"put", "written"} =>
              /\ PutShape(call[t]) /\ call[t].mem \in created
              /\ \A b \in BufNames : Live(b) => bufs[b].mem # call[t].mem
         /\ \A t \in Threads : Executes(call[t]) =>
              /\ ExecShape(call[t])
              /\ \A i \in DOMAIN call[t].outs :
                   /\ call[t].outs[i] \in created
                   /\ \A b \in BufNames : Live(b) => bufs[b].mem # call[t].outs[i]
                   /\ \A j \in DOMAIN call[t].outs : call[t].outs[j] = call[t].outs[i] => j = i
  <1>1. created \subseteq Mems /\ None \notin created  BY JunkApart DEF OwnInv, XTypeOK
  <1>2. \A h \in Handles : MemOf(h) # None => MemOf(h) \in created  BY DEF OwnInv, Owned1, InHand
  <1>3. \A g, h \in Handles : MemOf(g) = MemOf(h) /\ MemOf(g) # None => g = h  BY DEF OwnInv, Owned1
  <1>4. ASSUME NEW b \in BufNames, Live(b)
        PROVE  /\ <<"buffer", b>> \in Handles /\ MemOf(<<"buffer", b>>) = bufs[b].mem
               /\ bufs[b].mem # None
    BY <1>4, MemOfEach DEF OwnInv, XTypeOK, BufShape, Live
  <1>5. ASSUME NEW t \in Threads, call[t].at \in {"put", "written"}
        PROVE  /\ PutShape(call[t]) /\ call[t].mem # None
               /\ <<"put", t>> \in Handles /\ MemOf(<<"put", t>>) = call[t].mem
    <2>1. PutShape(call[t])  BY <1>5, PutShapes DEF OwnInv
    <2>2. PutMem(t) = call[t].mem  BY <1>5 DEF PutMem
    <2> QED  BY <2>1, <2>2, MemOfEach, JunkApart DEF PutShape
  <1>6. ASSUME NEW t \in Threads, Executes(call[t]) PROVE ExecShape(call[t])
    BY <1>6, PutShapes DEF OwnInv, Executes
  <1>7. ASSUME NEW t \in Threads, Executes(call[t]), NEW i \in DOMAIN call[t].outs
        PROVE  /\ call[t].outs[i] # None /\ i \in Nat
               /\ <<"out", <<t, i>>>> \in Handles /\ MemOf(<<"out", <<t, i>>>>) = call[t].outs[i]
    <2>1. call[t].outs \in Seq(Mems)  BY <1>6, <1>7 DEF ExecShape
    <2>2. i \in Nat /\ call[t].outs[i] \in Mems  BY <2>1
    <2>3. OutMem(t, i) = call[t].outs[i]  BY <1>7 DEF OutMem, Executes
    <2> QED  BY <2>2, <2>3, MemOfEach, JunkApart
  <1>8. \A b \in BufNames : Live(b) => bufs[b].mem \in created  BY <1>2, <1>4
  <1>9. ASSUME NEW t \in Threads, call[t].at \in {"put", "written"}
        PROVE  /\ PutShape(call[t]) /\ call[t].mem \in created
               /\ \A b \in BufNames : Live(b) => bufs[b].mem # call[t].mem
    <2>1. PutShape(call[t]) /\ call[t].mem \in created  BY <1>2, <1>5, <1>9
    <2>2. ASSUME NEW b \in BufNames, Live(b), bufs[b].mem = call[t].mem PROVE FALSE
      <3>1. <<"buffer", b>> = <<"put", t>>  BY <1>3, <1>4, <1>5, <1>9, <2>2
      <3> QED  BY <3>1
    <2> QED  BY <2>1, <2>2
  <1>10. ASSUME NEW t \in Threads, Executes(call[t]), NEW i \in DOMAIN call[t].outs
         PROVE  /\ call[t].outs[i] \in created
                /\ \A b \in BufNames : Live(b) => bufs[b].mem # call[t].outs[i]
                /\ \A j \in DOMAIN call[t].outs : call[t].outs[j] = call[t].outs[i] => j = i
    <2>1. call[t].outs[i] \in created  BY <1>2, <1>7, <1>10
    <2>2. ASSUME NEW b \in BufNames, Live(b), bufs[b].mem = call[t].outs[i] PROVE FALSE
      <3>1. PICK g : g = <<"buffer", b>> /\ g \in Handles /\ MemOf(g) = bufs[b].mem  BY <1>4, <2>2
      <3>2. PICK h : h = <<"out", <<t, i>>>> /\ h \in Handles /\ MemOf(h) = call[t].outs[i]
        BY <1>7, <1>10
      <3>3. g = h  BY <1>3, <1>4, <2>2, <3>1, <3>2
      <3> QED  BY <3>1, <3>2, <3>3
    <2>3. ASSUME NEW j \in DOMAIN call[t].outs, call[t].outs[j] = call[t].outs[i] PROVE j = i
      <3>1. PICK g : g = <<"out", <<t, j>>>> /\ g \in Handles /\ MemOf(g) = call[t].outs[j]
        BY <1>7, <1>10, <2>3
      <3>2. PICK h : h = <<"out", <<t, i>>>> /\ h \in Handles /\ MemOf(h) = call[t].outs[i]
        BY <1>7, <1>10
      <3>3. g = h  BY <1>3, <1>7, <1>10, <2>3, <3>1, <3>2
      <3> QED  BY <3>1, <3>2, <3>3
    <2> QED  BY <2>1, <2>2, <2>3
  <1> QED  BY <1>1, <1>6, <1>8, <1>9, <1>10

LEMMA SettledTyped == ASSUME Tidy, ValuesTyped PROVE Settled \in States
  BY EndTyped DEF ValuesTyped, Settled

LEMMA ArgsStep ==
  ASSUME ArgsLive, NEW t \in Threads, NEW x, To(t, x),
         \A u \in Threads \ {t} : Executes(call[u]) =>
           \A j \in DOMAIN call[u].args : bufs'[call[u].args[j]] = bufs[call[u].args[j]],
         Executes(x) =>
           /\ \A j \in DOMAIN x.args : /\ bufs'[x.args[j]].state = "live"
                                       /\ x.ins[j] = bufs'[x.args[j]].mem
           /\ x.wanted = Meaning(x.prog, [j \in DOMAIN x.args |-> bufs'[x.args[j]].value])
  PROVE  ArgsLive'
  <1>1. ASSUME NEW u \in Threads, Executes(call'[u])
        PROVE  /\ \A j \in DOMAIN call'[u].args : /\ bufs'[call'[u].args[j]].state = "live"
                                                  /\ call'[u].ins[j] = bufs'[call'[u].args[j]].mem
               /\ call'[u].wanted = Meaning(call'[u].prog, [j \in DOMAIN call'[u].args |-> bufs'[call'[u].args[j]].value])
    <2>1. CASE u = t  BY <1>1, <2>1 DEF To
    <2>2. CASE u # t
      <3>1. call'[u] = call[u] /\ Executes(call[u])  BY <1>1, <2>2 DEF To
      <3>2. /\ \A j \in DOMAIN call[u].args : /\ Live(call[u].args[j])
                                              /\ call[u].ins[j] = bufs[call[u].args[j]].mem
            /\ call[u].wanted = Meaning(call[u].prog, Given(call[u]))
        BY <3>1 DEF ArgsLive
      <3>3. \A j \in DOMAIN call[u].args : bufs'[call[u].args[j]] = bufs[call[u].args[j]]
        BY <2>2, <3>1
      <3>4. Given(call[u]) = [j \in DOMAIN call[u].args |-> bufs'[call[u].args[j]].value]
        BY <3>3 DEF Given
      <3> QED  BY <3>1, <3>2, <3>3, <3>4 DEF Live
    <2> QED  BY <2>1, <2>2
  <1> QED  BY <1>1 DEF ArgsLive, Executes, Live, Given

\* A call goes on with the arguments it has.
LEMMA ArgsStay ==
  ASSUME ArgsLive, NEW t \in Threads, NEW x, To(t, x), bufs' = bufs,
         Executes(x) => /\ Executes(call[t]) /\ x.args = call[t].args /\ x.ins = call[t].ins
                        /\ x.prog = call[t].prog /\ x.wanted = call[t].wanted
  PROVE  ArgsLive'
  <1>1. Executes(x) =>
           /\ \A j \in DOMAIN x.args : /\ bufs'[x.args[j]].state = "live"
                                       /\ x.ins[j] = bufs'[x.args[j]].mem
           /\ x.wanted = Meaning(x.prog, [j \in DOMAIN x.args |-> bufs'[x.args[j]].value])
    BY DEF ArgsLive, Live, Given
  <1> QED  BY <1>1, ArgsStep

\* What others have prepared stays when what it rests on does.
LEMMA OthersPrepared ==
  ASSUME OwnInv, Values, NEW t \in Threads, NEW x, To(t, x), NEW u \in Threads \ {t},
         call[u].at \in {"written", "input", "copy"} =>
           /\ io_bufs' = io_bufs /\ Settled'.arena = Settled.arena
           /\ \A m \in created : Settled'.mem[m] = Settled.mem[m]
           /\ Executes(call[u]) =>
                \A j \in DOMAIN call[u].args : bufs'[call[u].args[j]] = bufs[call[u].args[j]]
  PROVE  Prepared(call[u])'
  <1>1. call'[u] = call[u] /\ Prepared(call[u])  BY DEF To, Values
  <1>2. CASE call[u].at \notin {"written", "input", "copy"}  BY <1>1, <1>2 DEF Prepared
  <1>3. CASE call[u].at = "written"
    <2>1. call[u].mem \in created  BY <1>3, Apart
    <2> QED  BY <1>1, <1>3, <2>1 DEF Prepared
  <1>4. CASE call[u].at = "input"
    <2>0. Executes(call[u])  BY <1>4 DEF Executes
    <2>1. /\ io_bufs' = io_bufs /\ Settled'.arena = Settled.arena
          /\ \A j \in DOMAIN call[u].args : bufs'[call[u].args[j]] = bufs[call[u].args[j]]
      BY <1>4, <2>0
    <2>2. Given(call[u])' = Given(call[u])  BY <1>1, <2>1 DEF Given
    <2>3. PICK c : c = call[u]  OBVIOUS
    <2>4. c.at = "input" /\ c.done <= Len(c.ins) /\ call'[u] = c /\ Given(c)' = Given(c)
      BY <1>1, <1>4, <2>2, <2>3 DEF Prepared, Given
    <2>5. \A j \in 1 .. c.done :
            /\ Bound(c, c.prog.ins[j], c.ins[j])
            /\ ~HasPort(c.prog, c.prog.ins[j]) => Settled.arena[c.prog][c.prog.ins[j]] = Given(c)[j]
      BY <1>1, <2>3, <2>4 DEF Prepared
    <2>6. \A o \in DOMAIN c.outs : Bound(c, c.prog.outs[o], c.outs[o])
      BY <1>1, <2>3, <2>4 DEF Prepared
    <2>7. \A o \in DOMAIN c.outs : Bound(c, c.prog.outs[o], c.outs[o])'  BY <2>1, <2>6 DEF Bound
    <2>8. \A j \in 1 .. c.done :
            /\ Bound(c, c.prog.ins[j], c.ins[j])'
            /\ ~HasPort(c.prog, c.prog.ins[j]) => Settled'.arena[c.prog][c.prog.ins[j]] = Given(c)'[j]
      BY <2>1, <2>4, <2>5 DEF Bound
    <2>9. Prepared(c)'  BY <2>4, <2>7, <2>8 DEF Prepared
    <2> QED  BY <2>3, <2>4, <2>9
  <1>5. CASE call[u].at = "copy"
    <2>0. Executes(call[u])  BY <1>5 DEF Executes
    <2>1. \A o \in DOMAIN call[u].outs : call[u].outs[o] \in created  BY <2>0, Apart
    <2>2. Settled'.arena = Settled.arena /\ \A m \in created : Settled'.mem[m] = Settled.mem[m]
      BY <1>5
    <2> QED  BY <1>1, <1>5, <2>1, <2>2 DEF Prepared
  <1> QED  BY <1>2, <1>3, <1>4, <1>5

LEMMA EndEmpty == ASSUME NEW s \in States PROVE End(<<>>, s) = s
  <1> DEFINE r == [n \in 0 .. 0 |-> s]
             q == <<>>
  <1>1. Len(q) = 0  OBVIOUS
  <1>2. IsQueueRun(r, q, s)  BY <1>1 DEF IsQueueRun
  <1>3. r[0] = s  OBVIOUS
  <1> HIDE DEF r, q
  <1>4. End(q, s) = r[0]  BY <1>1, <1>2, EndIs
  <1> QED  BY <1>3, <1>4 DEF q

LEMMA AppendSettles ==
  ASSUME Tidy, ValuesTyped, NEW c \in Commands, queue' = Append(queue, c), UNCHANGED <<contents, arena>>
  PROVE  /\ Settled \in States /\ RunsWell(c) /\ Settled' = Ran(c, Settled) /\ Memory' = Memory
         /\ queue' \in Seq(Commands)
         /\ DOMAIN queue' = 1 .. Len(queue) + 1 /\ queue'[Len(queue) + 1] = c
         /\ DOMAIN queue = 1 .. Len(queue) /\ Len(queue) \in Nat
         /\ \A n \in DOMAIN queue : queue'[n] = queue[n]
  <1>1. queue \in Seq(Commands) /\ Memory \in States  BY DEF ValuesTyped
  <1>2. Memory' = Memory  BY DEF Memory
  <1>3. End(queue', Memory') = Ran(c, End(queue, Memory)) /\ queue' \in Seq(Commands)
    BY <1>1, <1>2, EndAppend
  <1> QED  BY <1>1, <1>2, <1>3, SettledTyped, CommandsRunWell DEF Settled

\* A step of the thread t that adds the command c to the queue.
LEMMA AppendStep ==
  ASSUME Tidy, OwnInv, Values, NEW t \in Threads, NEW x, To(t, x), NEW c \in Commands,
         queue' = Append(queue, c), UNCHANGED <<contents, arena, bufs>>,
         \A u \in Threads \ {t} : mu # u, Locked',
         io_bufs' = [p \in Programs |-> io_bufs'[p]],
         \A p \in Programs : io_bufs'[p] \in [Ported(p) -> Mems \cup {None}],
         \A b \in BufNames : Live(b) => bufs[b].mem \notin Changes(c),
         Executes(x) => /\ Executes(call[t]) /\ x.args = call[t].args /\ x.ins = call[t].ins
                        /\ x.prog = call[t].prog /\ x.wanted = call[t].wanted,
         Prepared(x)'
  PROVE  Values'
  <1>0. ValuesTyped /\ Locked /\ ArgsLive /\ ConstsKept /\ BuffersSettled  BY DEF Values
  <1>1. /\ Settled \in States /\ RunsWell(c) /\ Settled' = Ran(c, Settled) /\ Memory' = Memory
        /\ queue' \in Seq(Commands)
        /\ DOMAIN queue' = 1 .. Len(queue) + 1 /\ queue'[Len(queue) + 1] = c
        /\ DOMAIN queue = 1 .. Len(queue) /\ Len(queue) \in Nat
        /\ \A n \in DOMAIN queue : queue'[n] = queue[n]
    BY <1>0, AppendSettles
  <1>2. ValuesTyped'  BY <1>0, <1>1 DEF ValuesTyped
  <1>3. ArgsLive'  BY <1>0, ArgsStay
  <1>4. ConstsKept'  BY <1>0, <1>1 DEF ConstsKept, RunsWell
  <1>5. BuffersSettled'
    <2>1. ASSUME NEW b \in BufNames, Live(b)
          PROVE  /\ contents'[bufs[b].mem] = bufs[b].value
                 /\ Settled'.mem[bufs[b].mem] = bufs[b].value
                 /\ \A n \in DOMAIN queue' : bufs[b].mem \notin Changes(queue'[n])
      <3>1. bufs[b].mem \in Mems  BY <2>1, Apart
      <3>2. /\ contents[bufs[b].mem] = bufs[b].value /\ Settled.mem[bufs[b].mem] = bufs[b].value
            /\ \A n \in DOMAIN queue : bufs[b].mem \notin Changes(queue[n])
        BY <1>0, <2>1 DEF BuffersSettled
      <3>3. bufs[b].mem \notin Changes(c)  BY <2>1
      <3>4. Settled'.mem[bufs[b].mem] = Settled.mem[bufs[b].mem]  BY <1>1, <3>1, <3>3 DEF RunsWell
      <3>5. ASSUME NEW n \in DOMAIN queue' PROVE bufs[b].mem \notin Changes(queue'[n])
        <4>1. CASE n = Len(queue) + 1  BY <1>1, <3>3, <4>1
        <4>2. CASE n # Len(queue) + 1
          <5>1. n \in DOMAIN queue /\ queue'[n] = queue[n]  BY <1>1, <4>2
          <5> QED  BY <3>2, <5>1
        <4> QED  BY <4>1, <4>2
      <3> QED  BY <3>2, <3>4, <3>5
    <2> QED  BY <2>1 DEF BuffersSettled, Live
  <1>6. ASSUME NEW u \in Threads PROVE Prepared(call[u])'
    <2>1. CASE u = t  BY <2>1 DEF To
    <2>2. CASE u # t
      <3>1. call[u].at \notin {"written", "input", "copy"}  BY <1>0, <2>2 DEF Locked
      <3> QED  BY <2>2, <3>1, OthersPrepared
    <2> QED  BY <2>1, <2>2
  <1> QED  BY <1>2, <1>3, <1>4, <1>5, <1>6 DEF Values

\* A step that leaves the cl_mems there are, the arenas and the queue as they are.
StaysSettled ==
  /\ Memory' \in States /\ queue' = queue /\ Settled'.arena = Settled.arena
  /\ \A m \in created : Settled'.mem[m] = Settled.mem[m] /\ contents'[m] = contents[m]

LEMMA SameSettles == ASSUME ValuesTyped, UNCHANGED deviceVars PROVE StaysSettled
  <1>1. Memory' = Memory /\ queue' = queue  BY DEF Memory, deviceVars
  <1>2. Settled' = Settled  BY <1>1 DEF Settled
  <1> QED  BY <1>1, <1>2 DEF StaysSettled, ValuesTyped, deviceVars

\* A cl_mem that comes out of the pool keeps what it holds; a new one is in no command.
LEMMA AllocSettles ==
  ASSUME Tidy, OwnInv, ValuesTyped, NEW m, PoolAlloc(m), UNCHANGED <<queue, arena>> PROVE StaysSettled
  <1>1. CASE pool # <<>>
    <2>1. UNCHANGED deviceVars  BY <1>1 DEF PoolAlloc, deviceVars
    <2> QED  BY <2>1, SameSettles
  <1>2. CASE pool = <<>>
    <2>1. m \in Free /\ contents' = [contents EXCEPT ![m] = Junk]  BY <1>2 DEF PoolAlloc
    <2>2. Memory \in States /\ queue \in Seq(Commands) /\ Junk \in Vals  BY DEF ValuesTyped, Vals
    <2>3. m \in Mems /\ m \notin created /\ \A n \in DOMAIN queue : m \notin queue[n].mems
      BY <2>1 DEF Free, Pending, ToSet
    <2>4. Memory' = WithMem(Memory, m, Junk)  BY <2>1 DEF Memory, WithMem
    <2>5. Settled' = WithMem(Settled, m, Junk)
      <3>1. queue' = queue  OBVIOUS
      <3>2. Settled' = End(queue, WithMem(Memory, m, Junk))  BY <2>4, <3>1 DEF Settled
      <3>3. End(queue, WithMem(Memory, m, Junk)) = WithMem(End(queue, Memory), m, Junk)
        BY <2>2, <2>3, EndApart
      <3> QED  BY <3>2, <3>3 DEF Settled
    <2>6. Settled \in States  BY SettledTyped
    <2>7. /\ WithMem(Memory, m, Junk) \in States /\ WithMem(Settled, m, Junk).arena = Settled.arena
          /\ WithMem(Settled, m, Junk).mem = [Settled.mem EXCEPT ![m] = Junk]
      <3>1. WithMem(Memory, m, Junk) \in States  BY <2>2, <2>3, WithMemIs
      <3> QED  BY <2>2, <2>3, <2>6, <3>1, WithMemIs
    <2>8. Settled.mem \in [Mems -> Vals] /\ contents \in [Mems -> Vals]
      BY <2>2, <2>6 DEF States, Memory
    <2>9. created \subseteq Mems  BY Apart
    <2> QED  BY <2>1, <2>3, <2>4, <2>5, <2>7, <2>8, <2>9 DEF StaysSettled
  <1> QED  BY <1>1, <1>2

\* A step of the thread t that adds nothing to the queue.
LEMMA QuietStep ==
  ASSUME Tidy, OwnInv, Values, NEW t \in Threads, NEW x, To(t, x), StaysSettled,
         io_bufs' = io_bufs \/ \A u \in Threads \ {t} : mu # u, Locked',
         io_bufs' = [p \in Programs |-> io_bufs'[p]],
         \A p \in Programs : io_bufs'[p] \in [Ported(p) -> Mems \cup {None}],
         \A b \in BufNames : bufs'[b].value \in Vals,
         \A b \in BufNames : bufs'[b].state = "live" =>
            \/ bufs'[b] = bufs[b]
            \/ queue = <<>> /\ contents'[bufs'[b].mem] = bufs'[b].value,
         \A u \in Threads \ {t} : Executes(call[u]) =>
           \A j \in DOMAIN call[u].args : bufs'[call[u].args[j]] = bufs[call[u].args[j]],
         Executes(x) =>
           /\ \A j \in DOMAIN x.args : /\ bufs'[x.args[j]].state = "live"
                                       /\ x.ins[j] = bufs'[x.args[j]].mem
           /\ x.wanted = Meaning(x.prog, [j \in DOMAIN x.args |-> bufs'[x.args[j]].value]),
         Prepared(x)'
  PROVE  Values'
  <1>0. ValuesTyped /\ Locked /\ ArgsLive /\ ConstsKept /\ BuffersSettled  BY DEF Values
  <1>1. /\ Memory' \in States /\ queue' = queue /\ Settled'.arena = Settled.arena
        /\ \A m \in created : Settled'.mem[m] = Settled.mem[m] /\ contents'[m] = contents[m]
    BY DEF StaysSettled
  <1>2. ValuesTyped'  BY <1>0, <1>1 DEF ValuesTyped
  <1>3. ArgsLive'  BY <1>0, ArgsStep
  <1>4. ConstsKept'  BY <1>0, <1>1 DEF ConstsKept
  <1>5. ASSUME NEW b \in BufNames, bufs'[b].state = "live"
        PROVE  /\ contents'[bufs'[b].mem] = bufs'[b].value
               /\ Settled'.mem[bufs'[b].mem] = bufs'[b].value
               /\ \A n \in DOMAIN queue' : bufs'[b].mem \notin Changes(queue'[n])
    <2>1. CASE bufs'[b] = bufs[b]
      <3>1. Live(b)  BY <1>5, <2>1 DEF Live
      <3>2. bufs[b].mem \in created  BY <3>1, Apart
      <3>3. /\ contents[bufs[b].mem] = bufs[b].value /\ Settled.mem[bufs[b].mem] = bufs[b].value
            /\ \A n \in DOMAIN queue : bufs[b].mem \notin Changes(queue[n])
        BY <1>0, <3>1 DEF BuffersSettled
      <3> QED  BY <1>1, <2>1, <3>2, <3>3
    <2>2. CASE queue = <<>> /\ contents'[bufs'[b].mem] = bufs'[b].value
      <3>1. Settled' = Memory'  BY <1>1, <2>2, EndEmpty DEF Settled
      <3>2. Settled'.mem = contents'  BY <3>1 DEF Memory
      <3>3. DOMAIN queue' = {}  BY <1>1, <2>2
      <3> QED  BY <2>2, <3>2, <3>3
    <2> QED  BY <1>5, <2>1, <2>2
  <1>6. BuffersSettled'  BY <1>5 DEF BuffersSettled, Live
  <1>7. ASSUME NEW u \in Threads PROVE Prepared(call[u])'
    <2>1. CASE u = t  BY <2>1 DEF To
    <2>2. CASE u # t
      <3>1. ASSUME call[u].at \in {"written", "input", "copy"} PROVE io_bufs' = io_bufs
        <4>1. mu = u  BY <1>0, <3>1 DEF Locked
        <4> QED  BY <2>2, <4>1
      <3>2. call[u].at \in {"written", "input", "copy"} =>
              /\ io_bufs' = io_bufs /\ Settled'.arena = Settled.arena
              /\ \A m \in created : Settled'.mem[m] = Settled.mem[m]
              /\ Executes(call[u]) =>
                   \A j \in DOMAIN call[u].args : bufs'[call[u].args[j]] = bufs[call[u].args[j]]
        BY <1>1, <2>2, <3>1
      <3> QED  BY <2>2, <3>2, OthersPrepared
    <2> QED  BY <2>1, <2>2
  <1> QED  BY <1>2, <1>3, <1>4, <1>6, <1>7 DEF Values

\* The device works off the queue and changes nothing that is settled.
LEMMA DeviceValues == ASSUME Tidy, OwnInv, Values, DeviceStep PROVE Values'
  <1>0. ValuesTyped /\ Locked /\ ArgsLive /\ ConstsKept /\ BuffersSettled  BY DEF Values
  <1>1. queue \in Seq(Commands) /\ queue # <<>> /\ Memory \in States  BY <1>0 DEF DeviceStep, ValuesTyped
  <1>2. PICK c : c = Head(queue)  OBVIOUS
  <1>3. /\ c \in Commands /\ Tail(queue) \in Seq(Commands) /\ Ran(c, Memory) \in States
        /\ End(Tail(queue), Ran(c, Memory)) = Settled
    BY <1>1, <1>2, EndTail DEF Settled
  <1>4. Memory' = Ran(c, Memory)
    <2>1. contents' = Ran(c, Memory).mem /\ arena' = Ran(c, Memory).arena  BY <1>2 DEF DeviceStep
    <2>2. Ran(c, Memory) = [mem |-> Ran(c, Memory).mem, arena |-> Ran(c, Memory).arena]
      BY <1>3 DEF States
    <2> QED  BY <2>1, <2>2 DEF Memory
  <1>5. Settled' = Settled  BY <1>3, <1>4 DEF DeviceStep, Settled
  <1>6. UNCHANGED <<mu, io_bufs, bufs, call>> /\ queue' = Tail(queue)  BY DEF DeviceStep
  <1>7. ValuesTyped'  BY <1>0, <1>3, <1>4, <1>6 DEF ValuesTyped
  <1>8. Locked' /\ ArgsLive' /\ ConstsKept'
    BY <1>0, <1>5, <1>6 DEF Locked, ArgsLive, ConstsKept, Given, Live
  <1>9. BuffersSettled'
    <2>1. ASSUME NEW b \in BufNames, Live(b)
          PROVE  /\ contents'[bufs[b].mem] = bufs[b].value
                 /\ \A n \in DOMAIN queue' : bufs[b].mem \notin Changes(queue'[n])
      <3>1. bufs[b].mem \in Mems  BY <2>1, Apart
      <3>2. /\ contents[bufs[b].mem] = bufs[b].value
            /\ \A n \in DOMAIN queue : bufs[b].mem \notin Changes(queue[n])
        BY <1>0, <2>1 DEF BuffersSettled
      <3>3. c = queue[1] /\ 1 \in DOMAIN queue  BY <1>1, <1>2
      <3>4. contents'[bufs[b].mem] = contents[bufs[b].mem]
        <4>1. RunsWell(c)  BY <1>3, CommandsRunWell
        <4>2. Ran(c, Memory).mem[bufs[b].mem] = Memory.mem[bufs[b].mem]
          BY <1>1, <3>1, <3>2, <3>3, <4>1 DEF RunsWell
        <4> QED  BY <1>2, <4>2 DEF DeviceStep, Memory
      <3>5. \A n \in DOMAIN queue' : n + 1 \in DOMAIN queue /\ queue'[n] = queue[n + 1]
        BY <1>1, <1>6
      <3> QED  BY <3>2, <3>4, <3>5
    <2> QED  BY <1>0, <1>5, <1>6, <2>1 DEF BuffersSettled, Live
  <1>10. ASSUME NEW u \in Threads PROVE Prepared(call[u])'
    <2>1. Prepared(call[u]) /\ call'[u] = call[u]  BY <1>6 DEF Values
    <2>2. Given(call[u])' = Given(call[u])  BY <1>6 DEF Given
    <2> QED  BY <1>5, <1>6, <2>1, <2>2 DEF Prepared, Bound
  <1> QED  BY <1>7, <1>8, <1>9, <1>10 DEF Values
------------------------------------------------------------------------------
(* The steps *)

LEMMA LockedStep ==
  ASSUME Locked, NEW t \in Threads, NEW x, To(t, x),
         \/ mu' = mu /\ (x.at \in {"written", "input", "copy"} <=> call[t].at \in {"written", "input", "copy"})
         \/ mu = None /\ mu' = t /\ x.at \in {"written", "input", "copy"}
         \/ mu = t /\ mu' = None /\ x.at \notin {"written", "input", "copy"}
  PROVE  Locked'
  BY JunkApart DEF Locked, To

\* What a call is after some of its fields have changed.
LEMMA ExecFields ==
  ASSUME NEW c, ExecShape(c), NEW stage, NEW outs, NEW done, NEW x,
         x = [c EXCEPT !.at = stage, !.outs = outs, !.done = done]
  PROVE  /\ x.at = stage /\ x.args = c.args /\ x.prog = c.prog /\ x.ins = c.ins /\ x.wanted = c.wanted
         /\ x.outs = outs /\ x.done = done /\ x.n = c.n
  BY DEF ExecShape

\* The programs' lists, by position.
LEMMA ProgramLists ==
  ASSUME Tidy, NEW p \in Programs
  PROVE  /\ Regular(p) /\ Len(p.ins) \in Nat /\ DOMAIN p.ins = 1 .. Len(p.ins)
         /\ Len(p.outs) \in Nat /\ DOMAIN p.outs = 1 .. Len(p.outs)
         /\ \A i \in DOMAIN p.ins : p.ins[i] \in ToSet(p.ins) /\ p.ins[i] \in Ids(p)
         /\ \A o \in DOMAIN p.outs : p.outs[o] \in ToSet(p.outs) /\ p.outs[o] \in Ids(p)
         /\ \A i, j \in DOMAIN p.ins : p.ins[i] = p.ins[j] => i = j
         /\ \A o, u \in DOMAIN p.outs : p.outs[o] = p.outs[u] => o = u
         /\ \A i \in DOMAIN p.ins, o \in DOMAIN p.outs : p.ins[i] \in Ported(p) => p.ins[i] # p.outs[o]
         /\ \A i \in DOMAIN p.ins, o \in DOMAIN p.outs : p.outs[o] \in Ported(p) => p.ins[i] # p.outs[o]
  <1>1. Regular(p)  BY DEF Tidy
  <1>2. p.ins \in Seq(Nat) /\ p.outs \in Seq(Nat)  BY ProgramShape
  <1>3. /\ Len(p.ins) \in Nat /\ DOMAIN p.ins = 1 .. Len(p.ins)
        /\ Len(p.outs) \in Nat /\ DOMAIN p.outs = 1 .. Len(p.outs)
    BY <1>2
  <1>4. /\ \A i \in DOMAIN p.ins : p.ins[i] \in ToSet(p.ins) /\ p.ins[i] \in Ids(p)
        /\ \A o \in DOMAIN p.outs : p.outs[o] \in ToSet(p.outs) /\ p.outs[o] \in Ids(p)
    BY DEF ToSet, Ids
  <1>5. /\ \A i, j \in DOMAIN p.ins : p.ins[i] = p.ins[j] => i = j
        /\ \A o, u \in DOMAIN p.outs : p.outs[o] = p.outs[u] => o = u
    BY <1>1 DEF Regular, IsInjective
  <1>6. Ported(p) \cap ToSet(p.ins) \cap ToSet(p.outs) = {}  BY <1>1, ProgramIds
  <1> QED  BY <1>1, <1>3, <1>4, <1>5, <1>6

LEMMA PutValues ==
  ASSUME Tidy, OwnInv, Values, NEW t \in Threads, PutAlloc(t) \/ PutWrite(t) \/ PutDone(t) PROVE Values'
  <1>0. /\ ValuesTyped /\ Locked /\ ArgsLive /\ BuffersSettled
        /\ call = [u \in Threads |-> call[u]]
        /\ call[t].at \in {"put", "written"} => PutShape(call[t])
    BY PutShapes DEF Values, OwnInv, XTypeOK
  <1>v. \A b \in BufNames : bufs[b].value \in Vals  BY <1>0 DEF ValuesTyped
  <1>i. /\ io_bufs = [p \in Programs |-> io_bufs[p]]
        /\ \A p \in Programs : io_bufs[p] \in [Ported(p) -> Mems \cup {None}]
    BY <1>0 DEF ValuesTyped
  <1>1. CASE PutAlloc(t)
    <2>1. PICK v \in Data, m \in Mems :
            /\ PoolAlloc(m)
            /\ Begins(t, [at |-> "put", n |-> calls + 1, args |-> <<>>, mem |-> m, value |-> v])
            /\ UNCHANGED <<mu, queue, arena, io_bufs, bufs>>
      BY <1>1 DEF PutAlloc
    <2>x. PICK x : x = [at |-> "put", n |-> calls + 1, args |-> <<>>, mem |-> m, value |-> v]
      OBVIOUS
    <2>2. To(t, x) /\ call[t].at = "idle"  BY <1>0, <2>1, <2>x, Moves DEF Begins, Idle
    <2>3. StaysSettled  BY <1>0, <2>1, AllocSettles
    <2>4. x.at = "put"  BY <2>x
    <2>5. Locked'  BY <1>0, <2>1, <2>2, <2>4, LockedStep
    <2>6. ~Executes(x) /\ Prepared(x)'  BY <2>4 DEF Executes, Prepared
    <2> QED  BY <1>v, <1>i, <2>1, <2>2, <2>3, <2>5, <2>6, QuietStep
  <1>2. CASE PutWrite(t)
    <2>1. /\ call[t].at = "put" /\ mu = None /\ mu' = t /\ call' = [call EXCEPT ![t].at = "written"]
          /\ queue' = Append(queue, Write(call[t].mem, call[t].value))
          /\ UNCHANGED <<contents, arena, io_bufs, bufs>>
      BY <1>2 DEF PutWrite, Goes, Locks
    <2>2. PICK x : x = [call[t] EXCEPT !.at = "written"]  OBVIOUS
    <2>3. To(t, x) /\ x.at = "written" /\ x.mem = call[t].mem /\ x.value = call[t].value
      BY <1>0, <2>1, <2>2, MovesAt DEF PutShape
    <2>4. PICK m \in Mems, v \in Data : m = call[t].mem /\ v = call[t].value
      BY <1>0, <2>1 DEF PutShape
    <2>5. PICK c : c = Write(m, v)  OBVIOUS
    <2>6. c \in Commands /\ Changes(c) = {m} /\ c.cmd = "write" /\ c.mem = m /\ c.value = v
      <3>1. c \in Commands  BY <2>5 DEF Commands
      <3>2. c.cmd = "write" /\ c.mem = m /\ c.value = v  BY <2>5 DEF Write
      <3> QED  BY <3>1, <3>2 DEF Changes
    <2>7. Settled \in States /\ Settled' = Ran(c, Settled)
      BY <1>0, <2>1, <2>4, <2>5, <2>6, AppendSettles
    <2>8. Settled'.mem[m] = v
      <3>1. Ran(c, Settled) = WithMem(Settled, m, v)  BY <2>6 DEF Ran, WithMem
      <3>2. v \in Vals /\ Settled.mem \in [Mems -> Vals]  BY <2>7, DataInRange DEF Vals, States
      <3>3. WithMem(Settled, m, v).mem = [Settled.mem EXCEPT ![m] = v]  BY <2>7, <3>2, WithMemIs
      <3> QED  BY <2>7, <3>1, <3>2, <3>3
    <2>9. ~Executes(x) /\ Prepared(x)'  BY <2>3, <2>4, <2>8 DEF Executes, Prepared
    <2>10. Locked'  BY <1>0, <2>1, <2>3, LockedStep
    <2>11. \A b \in BufNames : Live(b) => bufs[b].mem \notin Changes(c)  BY <2>1, <2>4, <2>6, Apart
    <2>12. \A u \in Threads \ {t} : mu # u  BY <2>1, JunkApart
    <2> QED  BY <1>i, <2>1, <2>3, <2>4, <2>5, <2>6, <2>9, <2>10, <2>11, <2>12, AppendStep
  <1>3. CASE PutDone(t)
    <2>b. PICK b : b = <<call[t].n, 1>>  OBVIOUS
    <2>1. /\ call[t].at = "written" /\ queue = <<>> /\ mu = t /\ mu' = None
          /\ bufs' = [bufs EXCEPT ![b] = Owned(call[t].mem, call[t].value)]
          /\ UNCHANGED deviceVars /\ io_bufs' = io_bufs
      BY <1>3, <2>b DEF PutDone, Unlocks
    <2>2. To(t, Idle)  BY <1>0, <1>3, Moves DEF PutDone, Returns
    <2>3. PutShape(call[t]) /\ call[t] # Idle  BY <1>0, <2>1 DEF Idle
    <2>4. b \in BufNames /\ bufs[b] = Gone
      BY <2>b, <2>3 DEF BufNames, OwnInv, Numbered, PutShape
    <2>5. /\ bufs'[b] = Owned(call[t].mem, call[t].value)
          /\ \A c \in BufNames \ {b} : bufs'[c] = bufs[c]
      BY <2>1, <2>4 DEF OwnInv, XTypeOK
    <2>6. contents[call[t].mem] = call[t].value /\ contents' = contents
      <3>1. Settled.mem[call[t].mem] = call[t].value  BY <2>1 DEF Values, Prepared
      <3>2. Settled = Memory  BY <1>0, <2>1, EndEmpty DEF Settled, ValuesTyped
      <3> QED  BY <2>1, <3>1, <3>2 DEF Memory, deviceVars
    <2>7. StaysSettled  BY <1>0, <2>1, SameSettles
    <2>8. call[t].value \in Vals  BY <2>3, DataInRange DEF PutShape, Vals
    <2>9. \A c \in BufNames : bufs'[c].value \in Vals  BY <1>v, <2>5, <2>8 DEF Owned
    <2>10. \A c \in BufNames : bufs'[c].state = "live" =>
             \/ bufs'[c] = bufs[c]
             \/ queue = <<>> /\ contents'[bufs'[c].mem] = bufs'[c].value
      BY <2>1, <2>5, <2>6 DEF Owned
    <2>11. ASSUME NEW u \in Threads \ {t}, Executes(call[u]), NEW j \in DOMAIN call[u].args
           PROVE  bufs'[call[u].args[j]] = bufs[call[u].args[j]]
      <3>1. Live(call[u].args[j])  BY <1>0, <2>11 DEF ArgsLive
      <3>2. call[u].args[j] \in BufNames  BY <2>11, Apart DEF ExecShape
      <3> QED  BY <2>4, <2>5, <3>1, <3>2 DEF Live, Gone
    <2>12. ~Executes(Idle) /\ Prepared(Idle)'  BY DEF Executes, Prepared, Idle
    <2>13. Locked'  BY <1>0, <2>1, <2>2, LockedStep DEF Idle
    <2> QED  BY <1>i, <2>1, <2>2, <2>7, <2>9, <2>10, <2>11, <2>12, <2>13, QuietStep
  <1> QED  BY <1>1, <1>2, <1>3

LEMMA BufferValues ==
  ASSUME Tidy, OwnInv, Values, NEW t \in Threads, NEW b \in BufNames, Delete(t, b) \/ Destroy(t, b)
  PROVE  Values'
  <1>0. /\ ValuesTyped /\ Locked /\ ArgsLive /\ BuffersSettled
        /\ call = [u \in Threads |-> call[u]]
        /\ bufs = [c \in BufNames |-> bufs[c]] /\ \A c \in BufNames : BufShape(c)
    BY DEF Values, OwnInv, XTypeOK
  <1>i. /\ io_bufs = [p \in Programs |-> io_bufs[p]]
        /\ \A p \in Programs : io_bufs[p] \in [Ported(p) -> Mems \cup {None}]
        /\ \A c \in BufNames : bufs[c].value \in Vals
    BY <1>0 DEF ValuesTyped
  <1>1. /\ To(t, Idle) /\ call[t] = Idle /\ UNCHANGED deviceVars /\ io_bufs' = io_bufs /\ mu' = mu
        /\ b \notin InUse
    BY <1>0, Moves DEF Delete, Destroy, Begins
  <1>2. /\ \A c \in BufNames \ {b} : bufs'[c] = bufs[c]
        /\ bufs'[b].state # "live" /\ bufs'[b].value \in Vals
    <2>1. CASE Delete(t, b)
      <3>1. bufs' = [bufs EXCEPT ![b].state = "deleted", ![b].mem = None]  BY <2>1 DEF Delete
      <3>2. bufs'[b] = [bufs[b] EXCEPT !.state = "deleted", !.mem = None]  BY <1>0, <3>1
      <3>3. bufs[b] = [state |-> bufs[b].state, mem |-> bufs[b].mem, value |-> bufs[b].value]
        BY <1>0 DEF BufShape
      <3>4. bufs'[b].state = "deleted" /\ bufs'[b].value = bufs[b].value  BY <3>2, <3>3
      <3> QED  BY <1>0, <1>i, <3>1, <3>4
    <2>2. CASE Destroy(t, b)
      <3>1. bufs' = [bufs EXCEPT ![b] = Gone]  BY <2>2 DEF Destroy
      <3> QED  BY <1>0, <3>1 DEF Gone, Vals
    <2> QED  BY <2>1, <2>2
  <1>3. ASSUME NEW u \in Threads \ {t}, Executes(call[u]), NEW j \in DOMAIN call[u].args
        PROVE  bufs'[call[u].args[j]] = bufs[call[u].args[j]]
    <2>1. call[u] # Idle /\ call[u].args[j] \in ToSet(call[u].args)
      BY <1>3 DEF Executes, Idle, ToSet
    <2>2. call[u].args[j] # b  BY <1>1, <2>1 DEF InUse
    <2>3. call[u].args[j] \in BufNames  BY <1>3, Apart DEF ExecShape
    <2> QED  BY <1>2, <2>2, <2>3
  <1>4. StaysSettled  BY <1>0, <1>1, SameSettles
  <1>5. ~Executes(Idle) /\ Prepared(Idle)'  BY DEF Executes, Prepared, Idle
  <1>6. Locked'  BY <1>0, <1>1, LockedStep
  <1>7. \A c \in BufNames : bufs'[c].value \in Vals  BY <1>i, <1>2
  <1>8. \A c \in BufNames : bufs'[c].state = "live" => bufs'[c] = bufs[c]  BY <1>2
  <1> QED  BY <1>i, <1>1, <1>3, <1>4, <1>5, <1>6, <1>7, <1>8, QuietStep
\* A step after which a call has the arguments it had, and the buffers are as they were.
LEMMA GoesOn ==
  ASSUME Tidy, OwnInv, Values, NEW t \in Threads, NEW x, To(t, x), StaysSettled, bufs' = bufs,
         io_bufs' = io_bufs \/ \A u \in Threads \ {t} : mu # u, Locked',
         io_bufs' = [p \in Programs |-> io_bufs'[p]],
         \A p \in Programs : io_bufs'[p] \in [Ported(p) -> Mems \cup {None}],
         Executes(x) => /\ Executes(call[t]) /\ x.args = call[t].args /\ x.ins = call[t].ins
                        /\ x.prog = call[t].prog /\ x.wanted = call[t].wanted,
         Prepared(x)'
  PROVE  Values'
  <1>0. ValuesTyped /\ ArgsLive  BY DEF Values
  <1>1. \A b \in BufNames : bufs'[b] = bufs[b] /\ bufs'[b].value \in Vals  BY <1>0 DEF ValuesTyped
  <1>2. Executes(x) =>
          /\ \A j \in DOMAIN x.args : /\ bufs'[x.args[j]].state = "live"
                                      /\ x.ins[j] = bufs'[x.args[j]].mem
          /\ x.wanted = Meaning(x.prog, [j \in DOMAIN x.args |-> bufs'[x.args[j]].value])
    <2> SUFFICES ASSUME Executes(x)
                 PROVE  /\ \A j \in DOMAIN x.args : /\ bufs'[x.args[j]].state = "live"
                                                    /\ x.ins[j] = bufs'[x.args[j]].mem
                        /\ x.wanted = Meaning(x.prog, [j \in DOMAIN x.args |-> bufs'[x.args[j]].value])
      OBVIOUS
    <2>1. /\ \A j \in DOMAIN call[t].args : /\ bufs[call[t].args[j]].state = "live"
                                            /\ call[t].ins[j] = bufs[call[t].args[j]].mem
          /\ call[t].wanted = Meaning(call[t].prog, Given(call[t]))
      BY <1>0 DEF ArgsLive, Live
    <2>2. Given(call[t]) = [j \in DOMAIN x.args |-> bufs'[x.args[j]].value]  BY DEF Given
    <2> QED  BY <2>1, <2>2
  <1>3. \A u \in Threads \ {t} : Executes(call[u]) =>
           \A j \in DOMAIN call[u].args : bufs'[call[u].args[j]] = bufs[call[u].args[j]]
    OBVIOUS
  <1> QED  BY <1>1, <1>2, <1>3, QuietStep

LEMMA PortsSame ==
  ASSUME ValuesTyped, io_bufs' = io_bufs
  PROVE  /\ io_bufs' = [p \in Programs |-> io_bufs'[p]]
         /\ \A p \in Programs : io_bufs'[p] \in [Ported(p) -> Mems \cup {None}]
  BY DEF ValuesTyped

LEMMA PortBound ==
  ASSUME ValuesTyped, NEW p \in Programs, NEW id \in Ported(p), NEW m \in Mems,
         io_bufs' = [io_bufs EXCEPT ![p][id] = m]
  PROVE  /\ io_bufs' = [q \in Programs |-> io_bufs'[q]]
         /\ \A q \in Programs : io_bufs'[q] \in [Ported(q) -> Mems \cup {None}]
         /\ io_bufs'[p][id] = m /\ \A d \in Ported(p) \ {id} : io_bufs'[p][d] = io_bufs[p][d]
  <1>1. io_bufs = [q \in Programs |-> io_bufs[q]]  BY DEF ValuesTyped
  <1>2. \A q \in Programs : io_bufs[q] \in [Ported(q) -> Mems \cup {None}]  BY DEF ValuesTyped
  <1>3. PICK f : f = [io_bufs[p] EXCEPT ![id] = m]  OBVIOUS
  <1>4. f \in [Ported(p) -> Mems \cup {None}] /\ f[id] = m
        /\ \A d \in Ported(p) \ {id} : f[d] = io_bufs[p][d]
    BY <1>2, <1>3
  <1>5. io_bufs' = [q \in Programs |-> io_bufs'[q]] /\ io_bufs'[p] = f
        /\ \A q \in Programs \ {p} : io_bufs'[q] = io_bufs[q]
    BY <1>1, <1>3
  <1> QED  BY <1>2, <1>4, <1>5

LEMMA PortsUnbound ==
  ASSUME ValuesTyped, NEW p \in Programs, io_bufs' = [io_bufs EXCEPT ![p] = NoPorts(p)]
  PROVE  /\ io_bufs' = [q \in Programs |-> io_bufs'[q]]
         /\ \A q \in Programs : io_bufs'[q] \in [Ported(q) -> Mems \cup {None}]
  <1>1. /\ io_bufs = [q \in Programs |-> io_bufs[q]]
        /\ \A q \in Programs : io_bufs[q] \in [Ported(q) -> Mems \cup {None}]
    BY DEF ValuesTyped
  <1>2. NoPorts(p) \in [Ported(p) -> Mems \cup {None}]  BY DEF NoPorts
  <1> QED  BY <1>1, <1>2

LEMMA StartValues ==
  ASSUME Tidy, OwnInv, Values, NEW t \in Threads, ExecStart(t) PROVE Values'
  <1>0. ValuesTyped /\ Locked /\ call = [u \in Threads |-> call[u]]  BY DEF Values, OwnInv, XTypeOK
  <1>p. PICK p \in Programs : \E args \in [DOMAIN p.ins -> {b \in BufNames : Live(b)}] :
          /\ Begins(t, [at |-> "bind", n |-> calls + 1, args |-> args, prog |-> p,
                        ins |-> [i \in DOMAIN args |-> bufs[args[i]].mem],
                        wanted |-> Meaning(p, [i \in DOMAIN args |-> bufs[args[i]].value]),
                        outs |-> <<>>, done |-> 0])
          /\ UNCHANGED <<mu, deviceVars, memVars, io_bufs, bufs>>
    BY DEF ExecStart
  <1>1. PICK args \in [DOMAIN p.ins -> {b \in BufNames : Live(b)}] :
          /\ Begins(t, [at |-> "bind", n |-> calls + 1, args |-> args, prog |-> p,
                        ins |-> [i \in DOMAIN args |-> bufs[args[i]].mem],
                        wanted |-> Meaning(p, [i \in DOMAIN args |-> bufs[args[i]].value]),
                        outs |-> <<>>, done |-> 0])
          /\ UNCHANGED <<mu, deviceVars, memVars, io_bufs, bufs>>
    BY <1>p
  <1>x. PICK x : x = [at |-> "bind", n |-> calls + 1, args |-> args, prog |-> p,
                      ins |-> [i \in DOMAIN args |-> bufs[args[i]].mem],
                      wanted |-> Meaning(p, [i \in DOMAIN args |-> bufs[args[i]].value]),
                      outs |-> <<>>, done |-> 0]
    OBVIOUS
  <1>2. To(t, x) /\ call[t].at = "idle"  BY <1>0, <1>1, <1>x, Moves DEF Begins, Idle
  <1>3. /\ x.at = "bind" /\ x.args = args /\ x.prog = p /\ x.outs = <<>> /\ x.done = 0
        /\ x.ins = [i \in DOMAIN args |-> bufs[args[i]].mem]
        /\ x.wanted = Meaning(p, [i \in DOMAIN args |-> bufs[args[i]].value])
    BY <1>x
  <1>4. bufs' = bufs /\ io_bufs' = io_bufs /\ mu' = mu /\ UNCHANGED deviceVars  BY <1>1
  <1>5. /\ \A j \in DOMAIN x.args : bufs'[x.args[j]].state = "live" /\ x.ins[j] = bufs'[x.args[j]].mem
        /\ x.wanted = Meaning(x.prog, [j \in DOMAIN x.args |-> bufs'[x.args[j]].value])
    BY <1>3, <1>4 DEF Live
  <1>6. Prepared(x)'  BY <1>3 DEF Prepared
  <1>7. Locked'  BY <1>0, <1>2, <1>3, <1>4, LockedStep
  <1>8. StaysSettled  BY <1>0, <1>4, SameSettles
  <1>9. \A b \in BufNames : bufs'[b] = bufs[b] /\ bufs'[b].value \in Vals
    BY <1>0, <1>4 DEF ValuesTyped
  <1>10. /\ io_bufs' = [q \in Programs |-> io_bufs'[q]]
         /\ \A q \in Programs : io_bufs'[q] \in [Ported(q) -> Mems \cup {None}]
    BY <1>0, <1>4, PortsSame
  <1> QED  BY <1>2, <1>4, <1>5, <1>6, <1>7, <1>8, <1>9, <1>10, QuietStep

LEMMA FailValues ==
  ASSUME Tidy, OwnInv, Values, NEW t \in Threads, Fails(t), UNCHANGED <<queue, io_bufs>> PROVE Values'
  <1>0. ValuesTyped /\ Locked /\ call = [u \in Threads |-> call[u]]  BY DEF Values, OwnInv, XTypeOK
  <1>1. mu = t /\ mu' = None /\ bufs' = bufs /\ io_bufs' = io_bufs /\ UNCHANGED deviceVars
    BY DEF Fails, Unlocks, deviceVars
  <1>2. To(t, Idle)  BY <1>0, Moves DEF Fails, Returns
  <1>3. ~Executes(Idle) /\ Prepared(Idle)' /\ Idle.at = "idle"  BY DEF Executes, Prepared, Idle
  <1>4. Locked'  BY <1>0, <1>1, <1>2, <1>3, LockedStep
  <1>5. StaysSettled  BY <1>0, <1>1, SameSettles
  <1> QED  BY <1>0, <1>1, <1>2, <1>3, <1>4, <1>5, PortsSame, GoesOn

\* The fields of a call that executes, and how long its lists are.
LEMMA ExecKnown ==
  ASSUME Tidy, NEW c, ExecShape(c)
  PROVE  /\ c.prog \in Programs /\ c.done \in Nat /\ Len(c.ins) = Len(c.prog.ins)
         /\ DOMAIN c.ins = 1 .. Len(c.prog.ins) /\ DOMAIN c.args = 1 .. Len(c.prog.ins)
         /\ \A j \in DOMAIN c.ins : c.ins[j] \in Mems /\ c.args[j] \in BufNames
         /\ Len(c.outs) \in Nat /\ DOMAIN c.outs = 1 .. Len(c.outs)
         /\ Len(c.outs) <= Len(c.prog.outs)
         /\ \A o \in DOMAIN c.outs : c.outs[o] \in Mems /\ o \in DOMAIN c.prog.outs
  <1>1. c.prog \in Programs /\ c.done \in Nat  BY DEF ExecShape
  <1>2. Len(c.prog.ins) \in Nat /\ DOMAIN c.prog.ins = 1 .. Len(c.prog.ins)
        /\ Len(c.prog.outs) \in Nat /\ DOMAIN c.prog.outs = 1 .. Len(c.prog.outs)
    BY <1>1, ProgramLists
  <1>3. c.ins \in [1 .. Len(c.prog.ins) -> Mems] /\ c.args \in [1 .. Len(c.prog.ins) -> BufNames]
    BY <1>2 DEF ExecShape
  <1>4. Len(c.ins) = Len(c.prog.ins)  BY <1>2, <1>3
  <1>5. c.outs \in Seq(Mems) /\ Len(c.outs) <= Len(c.prog.outs)  BY DEF ExecShape
  <1>6. Len(c.outs) \in Nat /\ DOMAIN c.outs = 1 .. Len(c.outs)
        /\ \A o \in DOMAIN c.outs : c.outs[o] \in Mems
    BY <1>5
  <1>7. \A o \in DOMAIN c.outs : o \in DOMAIN c.prog.outs  BY <1>2, <1>5, <1>6
  <1>8. /\ DOMAIN c.ins = 1 .. Len(c.prog.ins) /\ DOMAIN c.args = 1 .. Len(c.prog.ins)
        /\ \A j \in DOMAIN c.ins : c.ins[j] \in Mems /\ c.args[j] \in BufNames
    BY <1>3
  <1> QED  BY <1>1, <1>4, <1>5, <1>6, <1>7, <1>8

LEMMA BindValues ==
  ASSUME Tidy, OwnInv, Values, NEW t \in Threads, ExecBind(t) PROVE Values'
  <1>0. /\ ValuesTyped /\ Locked /\ call = [u \in Threads |-> call[u]] /\ Prepared(call[t])
        /\ call[t].at \in {"bind", "input", "copy"} => ExecShape(call[t])
    BY PutShapes DEF Values, OwnInv, XTypeOK
  <1>1. /\ call[t].at = "bind" /\ mu = None /\ mu' = t /\ call' = [call EXCEPT ![t].at = "input"]
        /\ io_bufs' = [io_bufs EXCEPT ![call[t].prog] = NoPorts(call[t].prog)]
        /\ bufs' = bufs /\ UNCHANGED deviceVars
    BY DEF ExecBind, Goes, Locks
  <1>x. PICK x : x = [call[t] EXCEPT !.at = "input"]  OBVIOUS
  <1>2. /\ To(t, x) /\ x.at = "input" /\ x.args = call[t].args /\ x.ins = call[t].ins
        /\ x.prog = call[t].prog /\ x.wanted = call[t].wanted /\ x.outs = call[t].outs
        /\ x.done = call[t].done
    BY <1>0, <1>1, <1>x, MovesAt DEF ExecShape
  <1>3. x.outs = <<>> /\ x.done = 0  BY <1>0, <1>1, <1>2 DEF Prepared
  <1>4. Prepared(x)'
    <2>1. Len(x.ins) \in Nat /\ x.prog \in Programs
      <3>1. ExecShape(call[t])  BY <1>0, <1>1
      <3> QED  BY <1>2, <3>1, ExecKnown, ProgramLists
    <2>2. x.done <= Len(x.ins) /\ 1 .. x.done = {} /\ DOMAIN x.outs = {}  BY <1>3, <2>1
    <2> QED  BY <1>2, <2>2 DEF Prepared
  <1>5. Locked'  BY <1>0, <1>1, <1>2, LockedStep
  <1>6. StaysSettled  BY <1>0, <1>1, SameSettles
  <1>7. \A u \in Threads \ {t} : mu # u  BY <1>1, JunkApart
  <1>8. Executes(call[t])  BY <1>1 DEF Executes
  <1>9. call[t].prog \in Programs  BY <1>0, <1>1 DEF ExecShape
  <1>10. /\ io_bufs' = [q \in Programs |-> io_bufs'[q]]
         /\ \A q \in Programs : io_bufs'[q] \in [Ported(q) -> Mems \cup {None}]
    BY <1>0, <1>1, <1>9, PortsUnbound
  <1> QED  BY <1>1, <1>2, <1>4, <1>5, <1>6, <1>7, <1>8, <1>10, GoesOn
\* What a call that executes knows of itself.
ExecIs(t, x, stage, outs, done) ==
  /\ To(t, x) /\ x.at = stage /\ x.outs = outs /\ x.done = done
  /\ x.args = call[t].args /\ x.ins = call[t].ins /\ x.prog = call[t].prog
  /\ x.wanted = call[t].wanted

LEMMA CountsIs ==
  ASSUME OwnInv, NEW t \in Threads, Executes(call[t]), Counts(t)
  PROVE  \E x : ExecIs(t, x, call[t].at, call[t].outs, call[t].done + 1)
  <1>1. ExecShape(call[t]) /\ call = [u \in Threads |-> call[u]]
    BY PutShapes DEF OwnInv, XTypeOK, Executes
  <1>2. PICK x : x = [call[t] EXCEPT !.done = call[t].done + 1]  OBVIOUS
  <1>3. To(t, x)  BY <1>1, <1>2, MovesDone
  <1> QED  BY <1>1, <1>2, <1>3 DEF ExecIs, ExecShape

\* Inputs seen to stay seen to when the next one is.
LEMMA NextInput ==
  ASSUME Tidy, OwnInv, Values, NEW t \in Threads, call[t].at = "input",
         call[t].done < Len(call[t].ins), bufs' = bufs,
         NEW x, ExecIs(t, x, "input", call[t].outs, call[t].done + 1),
         NEW i, i = call[t].done + 1,
         \A id \in Ported(x.prog) \ {x.prog.ins[i]} : io_bufs'[x.prog][id] = io_bufs[x.prog][id],
         \A id \in Ids(x.prog) \ {x.prog.ins[i]} : Settled'.arena[x.prog][id] = Settled.arena[x.prog][id],
         IF HasPort(x.prog, x.prog.ins[i]) THEN io_bufs'[x.prog][x.prog.ins[i]] = x.ins[i]
         ELSE Settled'.arena[x.prog][x.prog.ins[i]] = Given(call[t])[i]
  PROVE  Prepared(x)'
  <1>0. ExecShape(call[t]) /\ Prepared(call[t])
    BY PutShapes DEF Values, OwnInv, Executes
  <1> DEFINE c == call[t]
             p == c.prog
  <1>1. /\ p \in Programs /\ c.done \in Nat /\ Len(c.ins) = Len(p.ins) /\ Len(p.ins) \in Nat
        /\ DOMAIN p.ins = 1 .. Len(p.ins) /\ \A o \in DOMAIN c.outs : o \in DOMAIN p.outs
    BY <1>0, ExecKnown, ProgramLists
  <1>2. /\ x.at = "input" /\ x.outs = c.outs /\ x.done = c.done + 1 /\ x.args = c.args
        /\ x.ins = c.ins /\ x.prog = p
    BY DEF ExecIs
  <1>3. Given(x)' = Given(c)  BY <1>2 DEF Given
  <1>4. /\ \A j \in DOMAIN p.ins : p.ins[j] \in Ids(p)
        /\ \A j, k \in DOMAIN p.ins : p.ins[j] = p.ins[k] => j = k
        /\ \A j \in DOMAIN p.ins, o \in DOMAIN p.outs : p.outs[o] \in Ported(p) => p.ins[j] # p.outs[o]
    BY <1>1, ProgramLists
  <1>5. /\ \A j \in 1 .. c.done :
             /\ HasPort(p, p.ins[j]) => io_bufs[p][p.ins[j]] = c.ins[j]
             /\ ~HasPort(p, p.ins[j]) => Settled.arena[p][p.ins[j]] = Given(c)[j]
        /\ \A o \in DOMAIN c.outs : HasPort(p, p.outs[o]) => io_bufs[p][p.outs[o]] = c.outs[o]
    <2>1. c.at = "input" /\ Prepared(c)  BY <1>0
    <2> HIDE DEF c
    <2>2. \A j \in 1 .. c.done :
            Bound(c, p.ins[j], c.ins[j])
            /\ (~HasPort(p, p.ins[j]) => Settled.arena[p][p.ins[j]] = Given(c)[j])
      BY <2>1 DEF Prepared
    <2>3. \A o \in DOMAIN c.outs : Bound(c, p.outs[o], c.outs[o])  BY <2>1 DEF Prepared
    <2> QED  BY <2>2, <2>3 DEF Bound
  <1>6. i \in DOMAIN p.ins /\ x.done <= Len(x.ins)
    <2>1. PICK n \in Nat : n = c.done  BY <1>1
    <2>2. i = n + 1 /\ n < Len(p.ins) /\ Len(c.ins) = Len(p.ins)  BY <1>1, <2>1
    <2>3. x.done = n + 1 /\ x.ins = c.ins  BY <1>2, <2>1
    <2>4. i \in 1 .. Len(p.ins) /\ n + 1 <= Len(p.ins)
      <3>1. Len(p.ins) \in Nat  BY <1>1
      <3> HIDE DEF c, p
      <3> QED  BY <2>2, <3>1
    <2> QED  BY <1>1, <2>2, <2>3, <2>4
  <1>s. /\ \A id \in Ported(p) \ {p.ins[i]} : io_bufs'[p][id] = io_bufs[p][id]
        /\ \A id \in Ids(p) \ {p.ins[i]} : Settled'.arena[p][id] = Settled.arena[p][id]
        /\ HasPort(p, p.ins[i]) => io_bufs'[p][p.ins[i]] = c.ins[i]
        /\ ~HasPort(p, p.ins[i]) => Settled'.arena[p][p.ins[i]] = Given(c)[i]
    BY <1>2
  <1>7. ASSUME NEW j \in 1 .. x.done
        PROVE  /\ HasPort(p, p.ins[j]) => io_bufs'[p][p.ins[j]] = c.ins[j]
               /\ ~HasPort(p, p.ins[j]) => Settled'.arena[p][p.ins[j]] = Given(c)[j]
    <2>1. CASE j = i  BY <1>s, <2>1
    <2>2. CASE j # i
      <3>1. j \in 1 .. c.done /\ j \in DOMAIN p.ins
        <4>1. PICK n \in Nat : n = c.done  BY <1>1
        <4>2. i = n + 1 /\ x.done = n + 1 /\ n < Len(p.ins)  BY <1>1, <1>2, <4>1
        <4> QED  BY <1>1, <2>2, <4>1, <4>2
      <3>2. p.ins[j] # p.ins[i] /\ p.ins[j] \in Ids(p)  BY <1>4, <1>6, <2>2, <3>1
      <3> QED  BY <1>5, <1>s, <3>1, <3>2 DEF HasPort
    <2> QED  BY <2>1, <2>2
  <1>8. ASSUME NEW o \in DOMAIN c.outs, HasPort(p, p.outs[o]) PROVE io_bufs'[p][p.outs[o]] = c.outs[o]
    <2>1. o \in DOMAIN p.outs /\ p.outs[o] \in Ported(p)  BY <1>1, <1>8 DEF HasPort
    <2>2. p.ins[i] # p.outs[o]  BY <1>4, <1>6, <2>1
    <2>3. io_bufs'[p][p.outs[o]] = io_bufs[p][p.outs[o]]  BY <1>s, <2>1, <2>2
    <2> QED  BY <1>5, <1>8, <2>3
  <1> HIDE DEF c, p
  <1> QED  BY <1>2, <1>3, <1>6, <1>7, <1>8 DEF Prepared, Bound

LEMMA InputValues ==
  ASSUME Tidy, OwnInv, Values, NEW t \in Threads, ExecInput(t) PROVE Values'
  <1>0. ValuesTyped /\ Locked /\ ArgsLive /\ BuffersSettled  BY DEF Values
  <1> DEFINE c == call[t]
  <1>p. PICK p : p = c.prog  OBVIOUS
  <1>d. PICK i : i = c.done + 1  OBVIOUS
  <1>1. /\ c.at = "input" /\ c.done < Len(c.ins) /\ Executes(c) /\ Counts(t) /\ mu = t /\ mu' = t
        /\ UNCHANGED <<contents, arena, bufs>>
        /\ IF HasPort(p, p.ins[i])
           THEN io_bufs' = [io_bufs EXCEPT ![p][p.ins[i]] = c.ins[i]] /\ queue' = queue
           ELSE queue' = Append(queue, CopyIn(c.ins[i], p, p.ins[i])) /\ io_bufs' = io_bufs
    BY <1>p, <1>d DEF ExecInput, Holds, Executes
  <1>x. PICK x : ExecIs(t, x, "input", c.outs, c.done + 1)  BY <1>1, CountsIs
  <1>2. To(t, x) /\ x.at = "input" /\ x.args = c.args /\ x.ins = c.ins /\ x.prog = p
        /\ x.wanted = c.wanted
    BY <1>x, <1>p DEF ExecIs
  <1>3. ExecShape(c)  BY <1>1, PutShapes DEF OwnInv
  <1>4. /\ p \in Programs /\ i \in DOMAIN c.ins /\ i \in DOMAIN p.ins /\ i \in DOMAIN c.args
        /\ c.ins[i] \in Mems /\ c.args[i] \in BufNames
    BY <1>1, <1>3, <1>p, <1>d, ExecKnown, ProgramLists
  <1>5. p.ins[i] \in ToSet(p.ins) /\ p.ins[i] \in Ids(p)  BY <1>4, ProgramLists
  <1>6. Locked'  BY <1>0, <1>1, <1>2, LockedStep
  <1>7. \A u \in Threads \ {t} : mu # u  BY <1>1
  <1>8. CASE HasPort(p, p.ins[i])
    <2>1. io_bufs' = [io_bufs EXCEPT ![p][p.ins[i]] = c.ins[i]] /\ UNCHANGED deviceVars
      BY <1>1, <1>8 DEF deviceVars
    <2>2. /\ io_bufs' = [q \in Programs |-> io_bufs'[q]]
          /\ \A q \in Programs : io_bufs'[q] \in [Ported(q) -> Mems \cup {None}]
          /\ io_bufs'[p][p.ins[i]] = c.ins[i]
          /\ \A id \in Ported(p) \ {p.ins[i]} : io_bufs'[p][id] = io_bufs[p][id]
      BY <1>0, <1>4, <1>8, <2>1, PortBound DEF HasPort
    <2>3. StaysSettled  BY <1>0, <2>1, SameSettles
    <2>4. Prepared(x)'
      <3>1. Settled'.arena = Settled.arena  BY <2>3 DEF StaysSettled
      <3>2. \A id \in Ported(x.prog) \ {x.prog.ins[i]} : io_bufs'[x.prog][id] = io_bufs[x.prog][id]
        BY <1>2, <2>2
      <3>3. \A id \in Ids(x.prog) \ {x.prog.ins[i]} : Settled'.arena[x.prog][id] = Settled.arena[x.prog][id]
        BY <3>1
      <3>4. HasPort(x.prog, x.prog.ins[i]) /\ io_bufs'[x.prog][x.prog.ins[i]] = x.ins[i]
        BY <1>2, <1>8, <2>2
      <3>5. Executes(c) /\ c.at = "input" /\ c.done < Len(c.ins) /\ bufs' = bufs  BY <1>1
      <3> QED  BY <1>d, <1>x, <3>2, <3>3, <3>4, <3>5, NextInput
    <2> QED  BY <1>1, <1>2, <1>6, <1>7, <1>p, <2>2, <2>3, <2>4, GoesOn
  <1>9. CASE ~HasPort(p, p.ins[i])
    <2>1. PICK m : m = c.ins[i]  OBVIOUS
    <2>2. PICK id : id = p.ins[i]  OBVIOUS
    <2>3. PICK k : k = CopyIn(m, p, id)  OBVIOUS
    <2>4. m \in Mems /\ id \in ToSet(p.ins) /\ id \in Ids(p)  BY <1>4, <1>5, <2>1, <2>2
    <2>5. k \in Commands /\ k.cmd = "in" /\ k.mem = m /\ k.prog = p /\ k.id = id /\ Changes(k) = {}
      <3>1. k \in Commands  BY <1>4, <2>3, <2>4 DEF Commands
      <3>2. k.cmd = "in" /\ k.mem = m /\ k.prog = p /\ k.id = id  BY <2>3 DEF CopyIn
      <3> QED  BY <3>1, <3>2 DEF Changes
    <2>6. queue' = Append(queue, k) /\ io_bufs' = io_bufs  BY <1>1, <1>9, <2>1, <2>2, <2>3
    <2>7. Settled \in States /\ Settled' = Ran(k, Settled)  BY <1>0, <1>1, <2>5, <2>6, AppendSettles
    <2>8. /\ Settled'.arena[p][id] = Settled.mem[m]
          /\ \A d \in Ids(p) \ {id} : Settled'.arena[p][d] = Settled.arena[p][d]
      <3>1. Ran(k, Settled) = WithArena(Settled, p, id, Settled.mem[m])  BY <2>5 DEF Ran, WithArena
      <3>2. Settled.mem[m] \in Vals  BY <2>4, <2>7 DEF States
      <3> QED  BY <1>4, <2>4, <2>7, <3>1, <3>2, WithArenaIs
    <2>9. Settled.mem[m] = Given(c)[i]
      <3>1. Live(c.args[i]) /\ c.ins[i] = bufs[c.args[i]].mem  BY <1>0, <1>1, <1>4 DEF ArgsLive
      <3>2. Settled.mem[bufs[c.args[i]].mem] = bufs[c.args[i]].value
        BY <1>0, <1>4, <3>1 DEF BuffersSettled
      <3>3. Given(c)[i] = bufs[c.args[i]].value  BY <1>4 DEF Given
      <3> QED  BY <2>1, <3>1, <3>2, <3>3
    <2>10. Prepared(x)'
      <3>1. \A d \in Ported(x.prog) \ {x.prog.ins[i]} : io_bufs'[x.prog][d] = io_bufs[x.prog][d]
        BY <2>6
      <3>2. \A d \in Ids(x.prog) \ {x.prog.ins[i]} : Settled'.arena[x.prog][d] = Settled.arena[x.prog][d]
        BY <1>2, <2>2, <2>8
      <3>3. ~HasPort(x.prog, x.prog.ins[i]) /\ Settled'.arena[x.prog][x.prog.ins[i]] = Given(c)[i]
        BY <1>2, <1>9, <2>2, <2>8, <2>9
      <3>4. IF HasPort(x.prog, x.prog.ins[i]) THEN io_bufs'[x.prog][x.prog.ins[i]] = x.ins[i]
            ELSE Settled'.arena[x.prog][x.prog.ins[i]] = Given(c)[i]
        BY <3>3
      <3>5. c.at = "input" /\ c.done < Len(c.ins) /\ bufs' = bufs  BY <1>1
      <3> QED  BY <1>d, <1>x, <3>1, <3>2, <3>4, <3>5, NextInput
    <2>11. /\ io_bufs' = [q \in Programs |-> io_bufs'[q]]
           /\ \A q \in Programs : io_bufs'[q] \in [Ported(q) -> Mems \cup {None}]
      BY <1>0, <2>6, PortsSame
    <2> QED  BY <1>1, <1>2, <1>6, <1>7, <1>p, <2>5, <2>6, <2>10, <2>11, AppendStep
  <1> QED  BY <1>8, <1>9
LEMMA AllocValues ==
  ASSUME Tidy, OwnInv, Values, NEW t \in Threads, ExecAlloc(t) PROVE Values'
  <1>0. /\ ValuesTyped /\ Locked /\ Prepared(call[t]) /\ call = [u \in Threads |-> call[u]]
    BY DEF Values, OwnInv, XTypeOK
  <1> DEFINE c == call[t]
  <1>p. PICK p : p = c.prog  OBVIOUS
  <1>d. PICK k : k = Len(c.outs) + 1  OBVIOUS
  <1>1. /\ c.at = "input" /\ c.done = Len(c.ins) /\ k <= Len(p.outs) /\ mu = t /\ mu' = t
        /\ UNCHANGED <<queue, arena, bufs>> /\ Executes(c) /\ ExecShape(c)
    <2>1. c.at = "input" /\ Len(c.outs) < Len(p.outs)  BY <1>p DEF ExecAlloc, InputsDone
    <2>2. ExecShape(c)  BY <2>1, PutShapes DEF OwnInv
    <2>3. Len(c.outs) \in Nat /\ Len(p.outs) \in Nat  BY <1>p, <2>2, ExecKnown, ProgramLists
    <2>4. k <= Len(p.outs)  BY <1>d, <2>1, <2>3
    <2> QED  BY <2>1, <2>2, <2>4 DEF ExecAlloc, InputsDone, Holds, Executes
  <1>2. PICK m \in Mems :
          /\ PoolAlloc(m)
          /\ call' = [call EXCEPT ![t].outs = Append(@, m)]
          /\ io_bufs' = IF HasPort(p, p.outs[k]) THEN [io_bufs EXCEPT ![p][p.outs[k]] = m] ELSE io_bufs
    BY <1>p, <1>d DEF ExecAlloc
  <1>x. PICK x : x = [c EXCEPT !.outs = Append(c.outs, m)]  OBVIOUS
  <1>3. /\ To(t, x) /\ x.at = "input" /\ x.args = c.args /\ x.ins = c.ins /\ x.prog = c.prog
        /\ x.wanted = c.wanted /\ x.outs = Append(c.outs, m) /\ x.done = c.done
    BY <1>0, <1>1, <1>2, <1>x, MovesOuts DEF ExecShape
  <1>4. /\ p \in Programs /\ Len(c.ins) = Len(p.ins) /\ Len(p.ins) \in Nat /\ Len(p.outs) \in Nat
        /\ DOMAIN p.ins = 1 .. Len(p.ins) /\ DOMAIN p.outs = 1 .. Len(p.outs)
        /\ Len(c.outs) \in Nat /\ DOMAIN c.outs = 1 .. Len(c.outs) /\ c.outs \in Seq(Mems)
    BY <1>1, <1>p, ExecKnown, ProgramLists DEF ExecShape
  <1>5. k \in DOMAIN p.outs /\ \A o \in DOMAIN c.outs : o \in DOMAIN p.outs /\ o # k
    BY <1>1, <1>4, <1>d
  <1>6. /\ DOMAIN x.outs = 1 .. k /\ x.outs[k] = m
        /\ \A o \in DOMAIN c.outs : x.outs[o] = c.outs[o]
    BY <1>3, <1>4, <1>d
  <1>7. /\ io_bufs' = [q \in Programs |-> io_bufs'[q]]
        /\ \A q \in Programs : io_bufs'[q] \in [Ported(q) -> Mems \cup {None}]
        /\ HasPort(p, p.outs[k]) => io_bufs'[p][p.outs[k]] = m
        /\ \A id \in Ported(p) \ {p.outs[k]} : io_bufs'[p][id] = io_bufs[p][id]
    <2>1. CASE HasPort(p, p.outs[k])
      <3>1. io_bufs' = [io_bufs EXCEPT ![p][p.outs[k]] = m]  BY <1>2, <2>1
      <3> QED  BY <1>0, <1>4, <2>1, <3>1, PortBound DEF HasPort
    <2>2. CASE ~HasPort(p, p.outs[k])
      <3>1. io_bufs' = io_bufs  BY <1>2, <2>2
      <3> QED  BY <1>0, <2>2, <3>1, PortsSame
    <2> QED  BY <2>1, <2>2
  <1>8. StaysSettled  BY <1>0, <1>1, <1>2, AllocSettles
  <1>9. Prepared(x)'
    <2>1. /\ \A j \in 1 .. c.done :
               /\ HasPort(p, p.ins[j]) => io_bufs[p][p.ins[j]] = c.ins[j]
               /\ ~HasPort(p, p.ins[j]) => Settled.arena[p][p.ins[j]] = Given(c)[j]
          /\ \A o \in DOMAIN c.outs : HasPort(p, p.outs[o]) => io_bufs[p][p.outs[o]] = c.outs[o]
      BY <1>0, <1>1, <1>p DEF Prepared, Bound
    <2>2. Given(x)' = Given(c)  BY <1>1, <1>3 DEF Given
    <2>3. \A j \in 1 .. c.done :
               /\ HasPort(p, p.ins[j]) => io_bufs'[p][p.ins[j]] = c.ins[j]
               /\ ~HasPort(p, p.ins[j]) => Settled'.arena[p][p.ins[j]] = Given(c)[j]
      <3>1. \A j \in 1 .. c.done : j \in DOMAIN p.ins  BY <1>1, <1>4
      <3>2. \A j \in 1 .. c.done : HasPort(p, p.ins[j]) => p.ins[j] # p.outs[k]
        BY <1>4, <1>5, <3>1, ProgramLists DEF HasPort
      <3> QED  BY <1>7, <1>8, <2>1, <3>2 DEF HasPort, StaysSettled
    <2>4. ASSUME NEW o \in DOMAIN x.outs PROVE HasPort(p, p.outs[o]) => io_bufs'[p][p.outs[o]] = x.outs[o]
      <3>1. CASE o = k  BY <1>6, <1>7, <3>1
      <3>2. CASE o # k
        <4>1. o \in DOMAIN c.outs  BY <1>4, <1>6, <1>d, <3>2
        <4>2. p.outs[o] # p.outs[k]  BY <1>4, <1>5, <4>1, ProgramLists
        <4> QED  BY <1>6, <1>7, <2>1, <4>1, <4>2 DEF HasPort
      <3> QED  BY <3>1, <3>2
    <2>5. x.done <= Len(x.ins)  BY <1>1, <1>3, <1>4
    <2> HIDE DEF c
    <2>6. x.at = "input" /\ x.prog = p /\ x.done = c.done /\ x.ins = c.ins  BY <1>3, <1>p DEF c
    <2>7. \A o \in DOMAIN x.outs : Bound(x, x.prog.outs[o], x.outs[o])'  BY <2>4, <2>6 DEF Bound
    <2>8. \A j \in 1 .. x.done :
            /\ Bound(x, x.prog.ins[j], x.ins[j])'
            /\ ~HasPort(x.prog, x.prog.ins[j]) => Settled'.arena[x.prog][x.prog.ins[j]] = Given(x)'[j]
      BY <2>2, <2>3, <2>6 DEF Bound
    <2> QED  BY <2>5, <2>6, <2>7, <2>8 DEF Prepared
  <1>10. Locked'  BY <1>0, <1>1, <1>3, LockedStep
  <1>11. \A u \in Threads \ {t} : mu # u  BY <1>1
  <1> QED  BY <1>1, <1>3, <1>7, <1>8, <1>9, <1>10, <1>11, GoesOn

\* All inputs and results are where the program will look for them.
Launchable(c, p, ports) ==
  /\ p \in Programs /\ ports \in [Ported(p) -> Mems] /\ Given(c) \in [DOMAIN p.ins -> Vals]
  /\ Supplied(p, ports, Settled, Given(c)) /\ ResultsApart(p, ports)
  /\ \A o \in DOMAIN p.outs : o \in DOMAIN c.outs /\ p.outs[o] \in Ids(p)
                              /\ (HasPort(p, p.outs[o]) => ports[p.outs[o]] = c.outs[o])
  /\ DOMAIN c.outs = DOMAIN p.outs
  /\ \A b \in BufNames : Live(b) => bufs[b].mem \notin PortsWritten(p, ports)

LEMMA LaunchReady ==
  ASSUME Tidy, OwnInv, Values, NEW t \in Threads, OutputsMade(t), NEW c, c = call[t],
         NEW p, p = c.prog, NEW ports, ports = io_bufs[p]
  PROVE  Launchable(c, p, ports)
  <1>0. ValuesTyped /\ ArgsLive /\ ConstsKept /\ BuffersSettled /\ Prepared(c)  BY DEF Values
  <1>1. /\ c.at = "input" /\ c.done = Len(c.ins) /\ Len(c.outs) = Len(p.outs) /\ Executes(c)
        /\ ExecShape(c)
    BY PutShapes DEF OutputsMade, InputsDone, OwnInv, Executes
  <1>2. /\ p \in Programs /\ Len(c.ins) = Len(p.ins) /\ Len(p.ins) \in Nat /\ Len(p.outs) \in Nat
        /\ DOMAIN p.ins = 1 .. Len(p.ins) /\ DOMAIN p.outs = 1 .. Len(p.outs)
        /\ DOMAIN c.outs = 1 .. Len(c.outs) /\ DOMAIN c.args = 1 .. Len(p.ins)
        /\ DOMAIN c.ins = 1 .. Len(p.ins)
    BY <1>1, ExecKnown, ProgramLists
  <1>3. /\ \A j \in DOMAIN c.ins : c.ins[j] \in Mems /\ c.args[j] \in BufNames
        /\ \A o \in DOMAIN c.outs : c.outs[o] \in Mems
    BY <1>1, ExecKnown
  <1>4. \A j \in DOMAIN p.ins : j \in 1 .. c.done /\ j \in DOMAIN c.ins /\ j \in DOMAIN c.args
    BY <1>1, <1>2
  <1>5. DOMAIN c.outs = DOMAIN p.outs  BY <1>1, <1>2
  <1>6. /\ \A j \in DOMAIN p.ins :
             /\ HasPort(p, p.ins[j]) => ports[p.ins[j]] = c.ins[j]
             /\ ~HasPort(p, p.ins[j]) => Settled.arena[p][p.ins[j]] = Given(c)[j]
        /\ \A o \in DOMAIN p.outs : HasPort(p, p.outs[o]) => ports[p.outs[o]] = c.outs[o]
    <2>1. \A j \in 1 .. c.done :
            Bound(c, p.ins[j], c.ins[j])
            /\ (~HasPort(p, p.ins[j]) => Settled.arena[p][p.ins[j]] = Given(c)[j])
      BY <1>0, <1>1 DEF Prepared
    <2>2. \A o \in DOMAIN c.outs : Bound(c, p.outs[o], c.outs[o])  BY <1>0, <1>1 DEF Prepared
    <2>3. \A j \in DOMAIN p.ins :
             /\ HasPort(p, p.ins[j]) => ports[p.ins[j]] = c.ins[j]
             /\ ~HasPort(p, p.ins[j]) => Settled.arena[p][p.ins[j]] = Given(c)[j]
      BY <1>4, <2>1 DEF Bound
    <2>4. \A o \in DOMAIN p.outs : HasPort(p, p.outs[o]) => ports[p.outs[o]] = c.outs[o]
      BY <1>5, <2>2 DEF Bound
    <2> QED  BY <2>3, <2>4
  <1>7. Regular(p) /\ Ported(p) \subseteq ToSet(p.ins) \cup ToSet(p.outs)  BY <1>2, ProgramLists, ProgramIds
  \* Every port is an argument's or a result's.
  <1>8. ASSUME NEW id \in Ported(p)
        PROVE  \/ \E j \in DOMAIN p.ins : id = p.ins[j] /\ ports[id] = c.ins[j]
               \/ \E o \in DOMAIN p.outs : id = p.outs[o] /\ ports[id] = c.outs[o]
    <2>1. CASE id \in ToSet(p.ins)
      <3>1. PICK j \in DOMAIN p.ins : id = p.ins[j]  BY <2>1 DEF ToSet
      <3> QED  BY <1>6, <3>1 DEF HasPort
    <2>2. CASE id \in ToSet(p.outs)
      <3>1. PICK o \in DOMAIN p.outs : id = p.outs[o]  BY <2>2 DEF ToSet
      <3> QED  BY <1>6, <3>1 DEF HasPort
    <2> QED  BY <1>7, <2>1, <2>2
  <1>9. ports \in [Ported(p) -> Mems]
    <2>1. ports \in [Ported(p) -> Mems \cup {None}]  BY <1>0, <1>2 DEF ValuesTyped
    <2>2. \A id \in Ported(p) : ports[id] \in Mems  BY <1>3, <1>4, <1>5, <1>8
    <2> QED  BY <2>1, <2>2
  \* Every argument is a live buffer's.
  <1>10. ASSUME NEW j \in DOMAIN p.ins
         PROVE  /\ c.args[j] \in BufNames /\ Live(c.args[j]) /\ c.ins[j] = bufs[c.args[j]].mem
                /\ Given(c)[j] = bufs[c.args[j]].value /\ Settled.mem[c.ins[j]] = Given(c)[j]
    <2>1. c.args[j] \in BufNames /\ Live(c.args[j]) /\ c.ins[j] = bufs[c.args[j]].mem
      BY <1>0, <1>1, <1>3, <1>4 DEF ArgsLive
    <2>2. Given(c)[j] = bufs[c.args[j]].value  BY <1>4 DEF Given
    <2>3. Settled.mem[bufs[c.args[j]].mem] = bufs[c.args[j]].value  BY <1>0, <2>1 DEF BuffersSettled
    <2> QED  BY <2>1, <2>2, <2>3
  <1>11. Given(c) \in [DOMAIN p.ins -> Vals]
    <2>1. DOMAIN Given(c) = DOMAIN p.ins /\ Given(c) = [j \in DOMAIN p.ins |-> bufs[c.args[j]].value]
      BY <1>2 DEF Given
    <2>2. \A j \in DOMAIN p.ins : bufs[c.args[j]].value \in Vals  BY <1>0, <1>10 DEF ValuesTyped
    <2> QED  BY <2>1, <2>2
  <1>12. Supplied(p, ports, Settled, Given(c))
    <2>1. \A id \in DOMAIN p.consts : Settled.arena[p][id] = p.consts[id]  BY <1>0, <1>2 DEF ConstsKept
    <2>2. ASSUME NEW j \in DOMAIN p.ins PROVE Get(p, ports, Settled, p.ins[j]) = Given(c)[j]
      <3>1. PICK v : v = Given(c)[j]  OBVIOUS
      <3>2. Settled.mem[c.ins[j]] = v  BY <1>10, <3>1
      <3>3. /\ HasPort(p, p.ins[j]) => ports[p.ins[j]] = c.ins[j]
            /\ ~HasPort(p, p.ins[j]) => Settled.arena[p][p.ins[j]] = v
        BY <1>6, <3>1
      <3>4. Get(p, ports, Settled, p.ins[j]) = v  BY <3>2, <3>3 DEF Get
      <3> QED  BY <3>1, <3>4
    <2> QED  BY <2>1, <2>2 DEF Supplied
  \* Results are in cl_mems of their own.
  <1>13. ASSUME NEW o \in DOMAIN p.outs
         PROVE  /\ \A u \in DOMAIN p.outs : c.outs[u] = c.outs[o] => u = o
                /\ \A b \in BufNames : Live(b) => bufs[b].mem # c.outs[o]
    BY <1>1, <1>5, Apart
  <1>14. ResultsApart(p, ports)
    <2>1. ASSUME NEW d \in Ported(p) \cap ToSet(p.outs), NEW id \in Ported(p) \ {d} PROVE ports[d] # ports[id]
      <3>1. PICK o \in DOMAIN p.outs : d = p.outs[o]  BY DEF ToSet
      <3>2. ports[d] = c.outs[o]  BY <1>6, <3>1 DEF HasPort
      <3>3. CASE \E j \in DOMAIN p.ins : ports[id] = c.ins[j]  BY <1>10, <1>13, <3>2, <3>3
      <3>4. CASE \E u \in DOMAIN p.outs : id = p.outs[u] /\ ports[id] = c.outs[u]
        BY <1>13, <3>1, <3>2, <3>4
      <3> QED  BY <1>8, <3>3, <3>4
    <2> QED  BY <2>1 DEF ResultsApart
  <1>15. ASSUME NEW b \in BufNames, Live(b), bufs[b].mem \in PortsWritten(p, ports) PROVE FALSE
    <2>1. PICK id \in Ported(p) \cap Written(p, Len(p.code)) : bufs[b].mem = ports[id]
      BY <1>15 DEF PortsWritten
    <2>2. id \notin ToSet(p.ins)
      <3>1. DOMAIN p.code = 1 .. Len(p.code)  BY <1>2, <1>7, ProgramIds
      <3>2. PICK n \in DOMAIN p.code : id = p.code[n].dst  BY <2>1, <3>1 DEF Written
      <3> QED  BY <1>7, <3>2 DEF Regular
    <2>3. \A j \in DOMAIN p.ins : id # p.ins[j]  BY <2>2 DEF ToSet
    <2>4. PICK o \in DOMAIN p.outs : ports[id] = c.outs[o]  BY <1>8, <2>1, <2>3
    <2> QED  BY <1>13, <1>15, <2>1, <2>4
  <1>16. \A o \in DOMAIN p.outs : p.outs[o] \in Ids(p)  BY <1>2, ProgramLists
  <1> QED  BY <1>2, <1>5, <1>6, <1>9, <1>11, <1>12, <1>14, <1>15, <1>16 DEF Launchable
LEMMA EmptyLaunch ==
  ASSUME NEW p \in Programs, Regular(p), NEW ports \in [Ported(p) -> Mems], NEW s \in States,
         p.code = <<>>
  PROVE  LaunchResult(p, ports, s) = s
  <1>1. Len(p.code) = 0  OBVIOUS
  <1>2. PICK r : IsLaunch(r, p, ports, s)  BY LaunchRuns
  <1>3. LaunchResult(p, ports, s) = r[Len(p.code)]  BY <1>2, LaunchIs
  <1> QED  BY <1>1, <1>2, <1>3 DEF IsLaunch

LEMMA LaunchValues ==
  ASSUME Tidy, OwnInv, Values, NEW t \in Threads, ExecLaunch(t) PROVE Values'
  <1>0. ValuesTyped /\ Locked /\ ArgsLive /\ call = [u \in Threads |-> call[u]]
    BY DEF Values, OwnInv, XTypeOK
  <1>c. PICK c : c = call[t]  OBVIOUS
  <1>p. PICK p : p = c.prog  OBVIOUS
  <1>d. PICK ports : ports = io_bufs[p]  OBVIOUS
  <1>1. /\ c.at = "input" /\ OutputsMade(t) /\ mu = t /\ mu' = t /\ Executes(c) /\ ExecShape(c)
        /\ call' = [call EXCEPT ![t].at = "copy", ![t].done = 0]
        /\ UNCHANGED <<contents, arena, io_bufs, bufs>>
        /\ queue' = IF p.code = <<>> THEN queue ELSE Append(queue, Launch(p))
    BY <1>c, <1>p, PutShapes DEF ExecLaunch, OutputsMade, InputsDone, Holds, Executes, OwnInv
  <1>2. /\ p \in Programs /\ ports \in [Ported(p) -> Mems] /\ Given(c) \in [DOMAIN p.ins -> Vals]
        /\ Supplied(p, ports, Settled, Given(c)) /\ ResultsApart(p, ports)
        /\ \A o \in DOMAIN p.outs : o \in DOMAIN c.outs /\ p.outs[o] \in Ids(p)
                                    /\ (HasPort(p, p.outs[o]) => ports[p.outs[o]] = c.outs[o])
        /\ DOMAIN c.outs = DOMAIN p.outs
        /\ \A b \in BufNames : Live(b) => bufs[b].mem \notin PortsWritten(p, ports)
    <2>1. Launchable(c, p, ports)  BY <1>1, <1>c, <1>p, <1>d, LaunchReady
    <2> QED  BY <2>1 DEF Launchable
  <1>x. PICK x : x = [c EXCEPT !.at = "copy", !.done = 0]  OBVIOUS
  <1>3. /\ To(t, x) /\ x.at = "copy" /\ x.args = c.args /\ x.ins = c.ins /\ x.prog = c.prog
        /\ x.wanted = c.wanted /\ x.outs = c.outs /\ x.done = 0
    <2>1. To(t, x)  BY <1>0, <1>1, <1>c, <1>x DEF To
    <2> QED  BY <1>1, <1>x, <2>1 DEF ExecShape
  <1>4. Settled \in States /\ Regular(p)  BY <1>0, <1>2, SettledTyped DEF Tidy
  <1>5. \A o \in DOMAIN p.outs : Get(p, ports, LaunchResult(p, ports, Settled), p.outs[o]) = c.wanted[o]
    <2>1. c.wanted = Meaning(p, Given(c))  BY <1>0, <1>1, <1>c, <1>p DEF ArgsLive
    <2> QED  BY <1>2, <1>4, <2>1, Computes
  <1>6. ASSUME Settled' = LaunchResult(p, ports, Settled) PROVE Prepared(x)'
    <2>1. ASSUME NEW o \in DOMAIN c.outs
          PROVE  /\ HasPort(p, p.outs[o]) => Settled'.mem[c.outs[o]] = c.wanted[o]
                 /\ ~HasPort(p, p.outs[o]) => Settled'.arena[p][p.outs[o]] = c.wanted[o]
                 /\ ~(o <= 0)
      <3>1. PICK s : s = LaunchResult(p, ports, Settled)  OBVIOUS
      <3>2. Get(p, ports, s, p.outs[o]) = c.wanted[o]  BY <1>2, <1>5, <3>1
      <3>3. HasPort(p, p.outs[o]) => ports[p.outs[o]] = c.outs[o]  BY <1>2
      <3>4. ~(o <= 0)  BY <1>1, ExecKnown
      <3> QED  BY <1>6, <3>1, <3>2, <3>3, <3>4 DEF Get
    <2> QED  BY <1>3, <1>p, <2>1 DEF Prepared
  <1>7. Locked'  BY <1>0, <1>1, <1>3, <1>c, LockedStep
  <1>8. \A u \in Threads \ {t} : mu # u  BY <1>1
  <1>9. /\ io_bufs' = [q \in Programs |-> io_bufs'[q]]
        /\ \A q \in Programs : io_bufs'[q] \in [Ported(q) -> Mems \cup {None}]
    BY <1>0, <1>1, PortsSame
  <1>10. CASE p.code = <<>>
    <2>1. UNCHANGED deviceVars  BY <1>1, <1>10 DEF deviceVars
    <2>2. StaysSettled  BY <1>0, <2>1, SameSettles
    <2>3. Settled' = Settled  BY <2>1 DEF Settled, Memory, deviceVars
    <2>4. Settled' = LaunchResult(p, ports, Settled)  BY <1>2, <1>4, <1>10, <2>3, EmptyLaunch
    <2> QED  BY <1>1, <1>3, <1>6, <1>7, <1>8, <1>9, <1>c, <2>2, <2>4, GoesOn
  <1>11. CASE p.code # <<>>
    <2>1. Launch(p) = LaunchOf(p, ports)
      <3>1. {ports[id] : id \in Ported(p)} \ {None} = {ports[id] : id \in Ported(p)}
        BY <1>2, JunkApart
      <3> QED  BY <1>d, <3>1 DEF Launch, LaunchOf
    <2>2. PICK k : k = LaunchOf(p, ports)  OBVIOUS
    <2>3. /\ k \in Commands /\ Changes(k) = PortsWritten(p, ports)
          /\ k.cmd = "launch" /\ k.prog = p /\ k.ports = ports
      <3>1. k \in Commands  BY <1>2, <2>2 DEF Commands
      <3>2. k.cmd = "launch" /\ k.prog = p /\ k.ports = ports  BY <2>2 DEF LaunchOf
      <3> QED  BY <3>1, <3>2 DEF Changes
    <2>4. queue' = Append(queue, k)  BY <1>1, <1>11, <2>1, <2>2
    <2>5. Settled' = Ran(k, Settled)  BY <1>0, <1>1, <2>3, <2>4, AppendSettles
    <2>6. Settled' = LaunchResult(p, ports, Settled)  BY <2>3, <2>5 DEF Ran
    <2>7. \A b \in BufNames : Live(b) => bufs[b].mem \notin Changes(k)  BY <1>2, <2>3
    <2>8. Prepared(x)'  BY <1>6, <2>6
    <2> QED  BY <1>1, <1>3, <1>7, <1>8, <1>9, <1>c, <2>3, <2>4, <2>7, <2>8, AppendStep
  <1> QED  BY <1>10, <1>11

LEMMA CopyValues ==
  ASSUME Tidy, OwnInv, Values, NEW t \in Threads, ExecCopy(t) PROVE Values'
  <1>0. ValuesTyped /\ Locked /\ Prepared(call[t])  BY DEF Values
  <1>c. PICK c : c = call[t]  OBVIOUS
  <1>p. PICK p : p = c.prog  OBVIOUS
  <1>d. PICK o : o = c.done + 1  OBVIOUS
  <1>1. /\ c.at = "copy" /\ c.done < Len(c.outs) /\ Executes(c) /\ Counts(t) /\ mu = t /\ mu' = t
        /\ UNCHANGED <<contents, arena, io_bufs, bufs>>
        /\ queue' = IF HasPort(p, p.outs[o]) THEN queue ELSE Append(queue, CopyOut(p, p.outs[o], c.outs[o]))
    BY <1>c, <1>p, <1>d DEF ExecCopy, Holds, Executes
  <1>x. PICK x : ExecIs(t, x, "copy", c.outs, c.done + 1)  BY <1>1, <1>c, CountsIs
  <1>2. /\ To(t, x) /\ x.at = "copy" /\ x.args = c.args /\ x.ins = c.ins /\ x.prog = p /\ p = c.prog
        /\ x.wanted = c.wanted /\ x.outs = c.outs /\ x.done = o
    BY <1>x, <1>c, <1>p, <1>d DEF ExecIs
  <1>3. ExecShape(c)  BY <1>1, <1>c, PutShapes DEF OwnInv
  <1>4. /\ p \in Programs /\ c.done \in Nat /\ o \in DOMAIN c.outs /\ DOMAIN c.outs \subseteq DOMAIN p.outs
        /\ c.outs[o] \in Mems /\ DOMAIN c.outs = 1 .. Len(c.outs)
    BY <1>1, <1>3, <1>d, <1>p, ExecKnown
  <1>5. p.outs[o] \in ToSet(p.outs) /\ p.outs[o] \in Ids(p)  BY <1>4, ProgramLists
  <1>6. \A u \in DOMAIN c.outs :
          /\ HasPort(p, p.outs[u]) \/ u <= c.done => Settled.mem[c.outs[u]] = c.wanted[u]
          /\ ~HasPort(p, p.outs[u]) => Settled.arena[p][p.outs[u]] = c.wanted[u]
    BY <1>0, <1>1, <1>c, <1>p DEF Prepared
  <1>7. Locked'  BY <1>0, <1>1, <1>2, <1>c, LockedStep
  <1>8. \A u \in Threads \ {t} : mu # u  BY <1>1
  <1>9. /\ io_bufs' = [q \in Programs |-> io_bufs'[q]]
        /\ \A q \in Programs : io_bufs'[q] \in [Ported(q) -> Mems \cup {None}]
    BY <1>0, <1>1, PortsSame
  <1>10. \A u \in DOMAIN c.outs : u <= o => u <= c.done \/ u = o  BY <1>4, <1>d
  <1>11. CASE HasPort(p, p.outs[o])
    <2>1. UNCHANGED deviceVars  BY <1>1, <1>11 DEF deviceVars
    <2>2. StaysSettled  BY <1>0, <2>1, SameSettles
    <2>3. Settled' = Settled  BY <2>1 DEF Settled, Memory, deviceVars
    <2>4. Prepared(x)'
      <3>1. \A u \in DOMAIN c.outs :
              /\ HasPort(p, p.outs[u]) \/ u <= o => Settled'.mem[c.outs[u]] = c.wanted[u]
              /\ ~HasPort(p, p.outs[u]) => Settled'.arena[p][p.outs[u]] = c.wanted[u]
        BY <1>6, <1>10, <1>11, <2>3
      <3> QED  BY <1>2, <3>1 DEF Prepared
    <2> QED  BY <1>1, <1>2, <1>7, <1>8, <1>9, <1>c, <2>2, <2>4, GoesOn
  <1>12. CASE ~HasPort(p, p.outs[o])
    <2>1. PICK m \in Mems : m = c.outs[o]  BY <1>4
    <2>2. PICK id \in ToSet(p.outs) : id = p.outs[o]  BY <1>5
    <2>3. PICK k : k = CopyOut(p, id, m)  OBVIOUS
    <2>4. k \in Commands /\ k.cmd = "out" /\ k.mem = m /\ k.prog = p /\ k.id = id /\ Changes(k) = {m}
      <3>1. k \in Commands  BY <1>4, <2>3 DEF Commands
      <3>2. k.cmd = "out" /\ k.mem = m /\ k.prog = p /\ k.id = id  BY <2>3 DEF CopyOut
      <3> QED  BY <3>1, <3>2 DEF Changes
    <2>5. queue' = Append(queue, k)  BY <1>1, <1>12, <2>1, <2>2, <2>3
    <2>6. Settled \in States /\ Settled' = Ran(k, Settled)  BY <1>0, <1>1, <2>4, <2>5, AppendSettles
    <2>7. PICK v : v = Settled.arena[p][id]  OBVIOUS
    <2>8. v \in Vals /\ v = c.wanted[o]
      <3>1. Settled.arena[p] \in [Ids(p) -> Vals]  BY <1>4, <2>6 DEF States, Arenas
      <3> QED  BY <1>4, <1>5, <1>6, <1>12, <2>2, <2>7, <3>1
    <2>9. Settled' = WithMem(Settled, m, v)  BY <2>4, <2>6, <2>7 DEF Ran, WithMem
    <2>10. /\ Settled'.arena = Settled.arena /\ Settled'.mem[m] = v
           /\ \A n \in Mems \ {m} : Settled'.mem[n] = Settled.mem[n]
      <3>1. Settled.mem \in [Mems -> Vals]  BY <2>6 DEF States
      <3>2. /\ WithMem(Settled, m, v).arena = Settled.arena
            /\ WithMem(Settled, m, v).mem = [Settled.mem EXCEPT ![m] = v]
        BY <2>6, <2>8, WithMemIs
      <3> QED  BY <2>9, <3>1, <3>2
    <2>11. /\ \A u \in DOMAIN c.outs : u # o => c.outs[u] \in Mems \ {m}
           /\ \A b \in BufNames : Live(b) => bufs[b].mem # m
      <3>1. \A u \in DOMAIN c.outs : u # o => c.outs[u] # m  BY <1>1, <1>4, <1>c, <2>1, Apart
      <3>2. \A b \in BufNames : Live(b) => bufs[b].mem # m  BY <1>1, <1>4, <1>c, <2>1, Apart
      <3>3. \A u \in DOMAIN c.outs : c.outs[u] \in Mems  BY <1>3, ExecKnown
      <3> QED  BY <3>1, <3>2, <3>3
    <2>12. Prepared(x)'
      <3>1. ASSUME NEW u \in DOMAIN c.outs
            PROVE  /\ HasPort(p, p.outs[u]) \/ u <= o => Settled'.mem[c.outs[u]] = c.wanted[u]
                   /\ ~HasPort(p, p.outs[u]) => Settled'.arena[p][p.outs[u]] = c.wanted[u]
        <4>1. CASE u = o  BY <1>6, <2>1, <2>8, <2>10, <4>1
        <4>2. CASE u # o
          <5>1. Settled'.mem[c.outs[u]] = Settled.mem[c.outs[u]]  BY <2>10, <2>11, <4>2
          <5> QED  BY <1>6, <1>10, <2>10, <4>2, <5>1
        <4> QED  BY <4>1, <4>2
      <3> QED  BY <1>2, <3>1 DEF Prepared
    <2>13. \A b \in BufNames : Live(b) => bufs[b].mem \notin Changes(k)  BY <2>4, <2>11
    <2> QED  BY <1>1, <1>2, <1>7, <1>8, <1>9, <1>c, <2>4, <2>5, <2>12, <2>13, AppendStep
  <1> QED  BY <1>11, <1>12
LEMMA FinishValues ==
  ASSUME Tidy, OwnInv, Values, NEW t \in Threads, ExecFinish(t) PROVE Values'
  <1>0. ValuesTyped /\ Locked /\ ArgsLive /\ Prepared(call[t]) /\ call = [u \in Threads |-> call[u]]
    BY DEF Values, OwnInv, XTypeOK
  <1>c. PICK c : c = call[t]  OBVIOUS
  <1>1. /\ c.at = "copy" /\ c.done = Len(c.outs) /\ queue = <<>> /\ mu = t /\ mu' = None
        /\ bufs' = [b \in BufNames |->
              IF b[1] = c.n /\ b[2] \in DOMAIN c.outs
              THEN Owned(c.outs[b[2]], c.wanted[b[2]]) ELSE bufs[b]]
        /\ UNCHANGED deviceVars /\ io_bufs' = io_bufs
    BY <1>c DEF ExecFinish, CopiesDone, Unlocks
  <1>2. To(t, Idle)  BY <1>0, Moves DEF ExecFinish, Returns
  <1>3. Executes(c) /\ ExecShape(c) /\ c # Idle
    BY <1>1, <1>c, PutShapes DEF Executes, OwnInv, Idle
  <1>4. ASSUME NEW o \in DOMAIN c.outs
        PROVE  contents'[c.outs[o]] = c.wanted[o] /\ c.wanted[o] \in Vals
    <2>1. o <= c.done /\ c.outs[o] \in Mems  BY <1>1, <1>3, ExecKnown
    <2>2. Settled.mem[c.outs[o]] = c.wanted[o]  BY <1>0, <1>1, <1>c, <2>1 DEF Prepared
    <2>3. Settled = Memory /\ Memory \in States  BY <1>0, <1>1, EndEmpty DEF Settled, ValuesTyped
    <2>4. contents[c.outs[o]] = c.wanted[o]  BY <2>2, <2>3 DEF Memory
    <2>5. contents[c.outs[o]] \in Vals  BY <2>1, <2>3 DEF Memory, States
    <2> QED  BY <1>1, <2>4, <2>5 DEF deviceVars
  <1>5. ASSUME NEW b \in BufNames
        PROVE  /\ bufs'[b].value \in Vals
               /\ bufs'[b].state = "live" =>
                    bufs'[b] = bufs[b] \/ contents'[bufs'[b].mem] = bufs'[b].value
               /\ bufs[b].state = "live" => bufs'[b] = bufs[b]
    <2>1. CASE b[1] = c.n /\ b[2] \in DOMAIN c.outs
      <3>1. PICK m, v : m = c.outs[b[2]] /\ v = c.wanted[b[2]]  OBVIOUS
      <3>2. bufs'[b] = Owned(m, v)  BY <1>1, <2>1, <3>1
      <3>3. contents'[m] = v /\ v \in Vals  BY <1>4, <2>1, <3>1
      <3>4. bufs[b] = Gone  BY <1>3, <1>c, <2>1 DEF OwnInv, Numbered
      <3> QED  BY <3>2, <3>3, <3>4 DEF Owned, Gone
    <2>2. CASE ~(b[1] = c.n /\ b[2] \in DOMAIN c.outs)
      <3>1. bufs'[b] = bufs[b]  BY <1>1, <2>2
      <3> QED  BY <1>0, <3>1 DEF ValuesTyped
    <2> QED  BY <2>1, <2>2
  <1>6. ASSUME NEW u \in Threads \ {t}, Executes(call[u]), NEW j \in DOMAIN call[u].args
        PROVE  bufs'[call[u].args[j]] = bufs[call[u].args[j]]
    <2>1. Live(call[u].args[j])  BY <1>0, <1>6 DEF ArgsLive
    <2>2. call[u].args[j] \in BufNames  BY <1>6, Apart DEF ExecShape
    <2> QED  BY <1>5, <2>1, <2>2 DEF Live
  <1>7. ~Executes(Idle) /\ Prepared(Idle)' /\ Idle.at = "idle"  BY DEF Executes, Prepared, Idle
  <1>8. Locked'  BY <1>0, <1>1, <1>2, <1>7, LockedStep
  <1>9. StaysSettled  BY <1>0, <1>1, SameSettles
  <1>10. /\ io_bufs' = [q \in Programs |-> io_bufs'[q]]
         /\ \A q \in Programs : io_bufs'[q] \in [Ported(q) -> Mems \cup {None}]
    BY <1>0, <1>1, PortsSame
  <1> QED  BY <1>1, <1>2, <1>5, <1>6, <1>7, <1>8, <1>9, <1>10, QuietStep

LEMMA StutterValues == ASSUME Values, UNCHANGED xvars PROVE Values'
  <1>1. UNCHANGED <<mu, queue, contents, arena, io_bufs, bufs, call>>  BY DEF xvars, deviceVars
  <1>2. Memory' = Memory /\ Settled' = Settled  BY <1>1 DEF Memory, Settled
  <1>3. \A c : Given(c)' = Given(c) /\ (\A id, m : Bound(c, id, m)' = Bound(c, id, m))
    BY <1>1 DEF Given, Bound
  <1>4. /\ ValuesTyped /\ Locked /\ ArgsLive /\ ConstsKept /\ BuffersSettled
        /\ \A t \in Threads : Prepared(call[t])
    BY DEF Values
  <1>5. ValuesTyped'  BY <1>1, <1>2, <1>4 DEF ValuesTyped
  <1>6. Locked' /\ ConstsKept'  BY <1>1, <1>2, <1>4 DEF Locked, ConstsKept
  <1>7. ArgsLive'  BY <1>1, <1>4 DEF ArgsLive, Live, Given
  <1>8. BuffersSettled'  BY <1>1, <1>2, <1>4 DEF BuffersSettled, Live
  <1>9. ASSUME NEW t \in Threads PROVE Prepared(call[t])'
    <2>1. Prepared(call[t]) /\ call'[t] = call[t]  BY <1>1, <1>4
    <2>2. Given(call[t])' = Given(call[t])  BY <1>1 DEF Given
    <2> QED  BY <1>1, <1>2, <2>1, <2>2 DEF Prepared, Bound
  <1> QED  BY <1>5, <1>6, <1>7, <1>8, <1>9 DEF Values

LEMMA ValuesStep == ASSUME Tidy, OwnInv, Values, [XNext]_xvars PROVE Values'
  <1>1. CASE DeviceStep  BY <1>1, DeviceValues
  <1>2. ASSUME NEW t \in Threads, ThreadStep(t) PROVE Values'
    <2>1. CASE PutAlloc(t) \/ PutWrite(t) \/ PutDone(t)  BY <2>1, PutValues
    <2>2. CASE \E b \in BufNames : Delete(t, b) \/ Destroy(t, b)  BY <2>2, BufferValues
    <2>3. CASE ExecStart(t)   BY <2>3, StartValues
    <2>4. CASE ExecBind(t)    BY <2>4, BindValues
    <2>5. CASE ExecInput(t)   BY <2>5, InputValues
    <2>6. CASE ExecAlloc(t)   BY <2>6, AllocValues
    <2>7. CASE ExecLaunch(t)  BY <2>7, LaunchValues
    <2>8. CASE ExecCopy(t)    BY <2>8, CopyValues
    <2>9. CASE ExecFinish(t)  BY <2>9, FinishValues
    <2>10. CASE ExecInputFails(t) \/ ExecAllocFails(t) \/ ExecLaunchFails(t) \/ ExecCopyFails(t)
      <3>1. Fails(t) /\ UNCHANGED <<queue, io_bufs>>
        BY <2>10 DEF ExecInputFails, ExecAllocFails, ExecLaunchFails, ExecCopyFails
      <3> QED  BY <3>1, FailValues
    <2> QED
      BY <1>2, <2>1, <2>2, <2>3, <2>4, <2>5, <2>6, <2>7, <2>8, <2>9, <2>10 DEF ThreadStep
  <1>3. CASE UNCHANGED xvars  BY <1>3, StutterValues
  <1> QED  BY <1>1, <1>2, <1>3 DEF XNext

LEMMA ValuesInit == ASSUME Tidy, XInit PROVE Values
  <1>1. /\ mu = None /\ queue = <<>> /\ contents = [m \in Mems |-> Junk]
        /\ arena = [p \in Programs |->
                      [id \in Ids(p) |-> IF id \in DOMAIN p.consts THEN p.consts[id] ELSE Junk]]
        /\ io_bufs = [p \in Programs |-> NoPorts(p)] /\ bufs = [b \in BufNames |-> Gone]
        /\ call = [t \in Threads |-> Idle]
    BY DEF XInit
  <1>2. \A p \in Programs : arena[p] \in [Ids(p) -> Vals]
    <2>1. ASSUME NEW p \in Programs PROVE p.consts \in [DOMAIN p.consts -> Vals]
      BY ProgramShape DEF Vals
    <2>2. Junk \in Vals  BY DEF Vals
    <2> QED  BY <1>1, <2>1, <2>2
  <1>3. Memory \in States
    <2>1. arena \in [Programs -> UNION {[Ids(p) -> Vals] : p \in Programs}]
      <3>1. DOMAIN arena = Programs /\ arena = [p \in Programs |-> arena[p]]  BY <1>1
      <3> QED  BY <1>2, <3>1
    <2>2. contents \in [Mems -> Vals]  BY <1>1 DEF Vals
    <2> QED  BY <1>2, <2>1, <2>2 DEF Memory, States, Arenas
  <1>4. Settled = Memory  BY <1>1, <1>3, EndEmpty DEF Settled
  <1>5. ValuesTyped
    <2>1. \A p \in Programs : NoPorts(p) \in [Ported(p) -> Mems \cup {None}]  BY DEF NoPorts
    <2>2. queue \in Seq(Commands)  BY <1>1
    <2>3. \A b \in BufNames : bufs[b].value \in Vals  BY <1>1 DEF Gone, Vals
    <2>4. /\ io_bufs = [p \in Programs |-> io_bufs[p]]
          /\ \A p \in Programs : io_bufs[p] \in [Ported(p) -> Mems \cup {None}]
      BY <1>1, <2>1
    <2> QED  BY <1>3, <2>2, <2>3, <2>4 DEF ValuesTyped
  <1>6. \A t \in Threads : call[t] = Idle /\ call[t].at = "idle"  BY <1>1 DEF Idle
  <1>7. Locked /\ ArgsLive /\ \A t \in Threads : Prepared(call[t])
    BY <1>1, <1>6, JunkApart DEF Locked, ArgsLive, Executes, Prepared
  <1>8. ConstsKept
    <2>1. ASSUME NEW p \in Programs, NEW id \in DOMAIN p.consts PROVE arena[p][id] = p.consts[id]
      <3>1. id \in Ids(p)  BY DEF Ids
      <3> QED  BY <1>1, <3>1
    <2> QED  BY <1>4, <2>1 DEF ConstsKept, Memory
  <1>9. BuffersSettled
    <2>1. \A b \in BufNames : bufs[b].state = "gone"  BY <1>1 DEF Gone
    <2> QED  BY <2>1 DEF BuffersSettled, Live
  <1> QED  BY <1>5, <1>7, <1>8, <1>9 DEF Values

\* From the moment a call returns it, a live buffer's memory holds the value it stands
\* for: results are the programs' meanings of their arguments, whatever other threads
\* upload, execute, delete and let fail meanwhile (plugin.cc, runtime.cc ExecuteDevice),
\* and however few cl_mems there are.  Of programs no argument or result of which comes
\* twice and which write neither arguments nor constants.
THEOREM ValuesHeld == (\A p \in Programs : Regular(p)) => (XSpec => []BuffersHold)
  <1> SUFFICES ASSUME Tidy PROVE XSpec => []BuffersHold  BY DEF Tidy
  <1>1. XInit => Values  BY ValuesInit
  <1>2. OwnInv /\ Values /\ [XNext]_xvars => Values'  BY ValuesStep
  <1>3. Values => BuffersHold  BY DEF Values, BuffersSettled, BuffersHold
  <1>4. XSpec => []OwnInv  BY Hands
  <1> QED  BY <1>1, <1>2, <1>3, <1>4, PTL DEF XSpec
=============================================================================
