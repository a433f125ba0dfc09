---------------------------- MODULE LowerProcess ----------------------------
(***************************************************************************)
(* RunLoweringSubprocess (runtime.cc) and the service at the other end     *)
(* (lower_service.py): every PJRT_Client_Compile forks a Python process,   *)
(* writes it the program through one pipe and reads the answer and the     *)
(* error text from two others, in one poll loop.                           *)
(*                                                                         *)
(* Several threads may compile at once.  A child starts with a copy of     *)
(* every descriptor its parent has open at the fork, those of other        *)
(* threads' pipes among them, and a pipe ends only when nobody holds its   *)
(* write end any more.                                                     *)
(***************************************************************************)
EXTENDS Integers

CONSTANTS
  Callers,     \* threads, each compiling once; a caller's name is its child's too
  Host,        \* the client process
  InSize,      \* chunks of the program
  OutSize,     \* chunks of the answer
  PipeCap      \* chunks a pipe holds

ASSUME HostIsNoChild   == Host \notin Callers
ASSUME SizesNat        == InSize \in Nat /\ OutSize \in Nat
ASSUME PipeCapPositive == PipeCap \in Nat \ {0}

VARIABLES
  at,          \* at[c]: where the calling thread is
  fds,         \* <<q, c, p, e>>: process q has end e of c's pipe p open
  held,        \* held[c][p]: chunks in the pipe
  written,     \* written[c]: chunks of the program written
  got,         \* got[c]: chunks of the answer read
  child,       \* child[c]: what the service does
  left,        \* left[c][p]: chunks the service has still to write
  status,      \* status[c]: the exit status the service has or will have; -1: none yet
  late,        \* late[c]: poll had given up
  answer       \* answer[c]: what the compile returns

procVars == <<at, fds, held, written, got, child, left, status, late, answer>>

Pipes == {"in", "out", "err"}

PInit ==
  /\ at = [c \in Callers |-> "start"]
  /\ fds = {}
  /\ held = [c \in Callers |-> [p \in Pipes |-> 0]]
  /\ written = [c \in Callers |-> 0]
  /\ got = [c \in Callers |-> 0]
  /\ child = [c \in Callers |-> "none"]
  /\ left = [c \in Callers |-> [p \in {"out", "err"} |-> 0]]
  /\ status = [c \in Callers |-> -1]
  /\ late = [c \in Callers |-> FALSE]
  /\ answer = [c \in Callers |-> "none"]

Move(c, from, to) == at[c] = from /\ at' = [at EXCEPT ![c] = to]

Ends == {"read", "write"}

\* The ends of its own pipes a service keeps, as descriptors 0, 1 and 2.
ServiceEnd(p) == IF p = "in" THEN "read" ELSE "write"
HostEnd(p)    == IF p = "in" THEN "write" ELSE "read"

HostFd(c, p)  == <<Host, c, p, HostEnd(p)>>
Opened(c, p)  == HostFd(c, p) \in fds
AtEnd(c, p)   == ~\E q \in Callers \cup {Host} : <<q, c, p, "write">> \in fds
Unread(c, p)  == ~\E q \in Callers \cup {Host} : <<q, c, p, "read">> \in fds
OfProcess(q)  == {fd \in fds : fd[1] = q}
------------------------------------------------------------------------------
(* The calling thread *)

OpenPipes(c) ==
  /\ Move(c, "start", "fork")
  /\ fds' = fds \cup ({Host} \X {c} \X Pipes \X Ends)
  /\ UNCHANGED <<held, written, got, child, left, status, late, answer>>

\* The child inherits whatever the client has open, and closes what it does not
\* need of its own six before it runs the service.
Fork(c) ==
  /\ Move(c, "fork", "forked")
  /\ LET kept == {fd \in OfProcess(Host) : fd[2] = c => fd[4] = ServiceEnd(fd[3])}
     IN fds' = fds \cup {<<c, fd[2], fd[3], fd[4]>> : fd \in kept}
  /\ child' = [child EXCEPT ![c] = "reading"]
  /\ UNCHANGED <<held, written, got, left, status, late, answer>>

\* fork fails: all six stay open.
ForkFails(c) ==
  /\ Move(c, "fork", "done")
  /\ answer' = [answer EXCEPT ![c] = "internal"]
  /\ UNCHANGED <<fds, held, written, got, child, left, status, late>>

CloseServiceEnds(c) ==
  /\ Move(c, "forked", "poll")
  /\ fds' = fds \ {<<Host, c, p, ServiceEnd(p)>> : p \in Pipes}
  /\ UNCHANGED <<held, written, got, child, left, status, late, answer>>

\* What poll reports of a pipe that is still open.
Ready(c, p) ==
  /\ Opened(c, p)
  /\ IF p = "in" THEN held[c][p] < PipeCap \/ Unread(c, p)
                 ELSE held[c][p] > 0 \/ AtEnd(c, p)

\* Write a chunk; close after the last, or when nobody reads.
PollIn(c) ==
  /\ at[c] = "poll" /\ Ready(c, "in")
  /\ LET n == IF Unread(c, "in") \/ written[c] = InSize THEN 0 ELSE 1
     IN /\ written' = [written EXCEPT ![c] = @ + n]
        /\ held' = [held EXCEPT ![c]["in"] = @ + n]
        /\ fds' = IF n = 0 \/ written[c] + n = InSize THEN fds \ {HostFd(c, "in")} ELSE fds
  /\ UNCHANGED <<at, got, child, left, status, late, answer>>

\* Read what there is; close at the end of the pipe.
PollRead(c, p) ==
  /\ at[c] = "poll" /\ Ready(c, p)
  /\ got' = IF p = "out" THEN [got EXCEPT ![c] = @ + held[c][p]] ELSE got
  /\ held' = [held EXCEPT ![c][p] = 0]
  /\ fds' = IF held[c][p] = 0 THEN fds \ {HostFd(c, p)} ELSE fds
  /\ UNCHANGED <<at, written, child, left, status, late, answer>>

AllRead(c) ==
  /\ \A p \in Pipes : ~Opened(c, p)
  /\ Move(c, "poll", "wait")
  /\ UNCHANGED <<fds, held, written, got, child, left, status, late, answer>>

TimeOut_Never(c) ==
  /\ at[c] = "kill"
  /\ UNCHANGED procVars

\* Nothing was ready for a minute ...
TimeOut(c) ==
  /\ \E p \in Pipes : Opened(c, p)
  /\ \A p \in Pipes : ~Ready(c, p)
  /\ Move(c, "poll", "kill")
  /\ UNCHANGED <<fds, held, written, got, child, left, status, late, answer>>

\* ... so kill the service, unless it has ended since, and close what is open.
Kill(c) ==
  /\ Move(c, "kill", "wait")
  /\ late' = [late EXCEPT ![c] = TRUE]
  /\ fds' = (fds \ OfProcess(c)) \ {HostFd(c, p) : p \in Pipes}
  /\ child' = [child EXCEPT ![c] = "ended"]
  /\ status' = IF child[c] = "ended" THEN status ELSE [status EXCEPT ![c] = 137]
  /\ UNCHANGED <<held, written, got, left, answer>>

Parses_Unchecked(c) == TRUE

\* VmProgram::Parse reads section after section, each within what it was given:
\* it refuses an answer that was cut off.
Parses(c) == got[c] = OutSize

\* waitpid; then the exit status decides, after a timeout too: a service that
\* had ended in time to say 0 is believed, and its answer parsed.
Wait(c) ==
  /\ child[c] = "ended"
  /\ Move(c, "wait", "done")
  /\ answer' = [answer EXCEPT ![c] =
       CASE status[c] = 0 /\ Parses(c) -> "program"
         [] status[c] = 2              -> "unimplemented"
         [] OTHER                      -> "internal"]
  /\ child' = [child EXCEPT ![c] = "none"]
  /\ UNCHANGED <<fds, held, written, got, left, status, late>>

CallerStep(c) ==
  \/ OpenPipes(c) \/ Fork(c) \/ ForkFails(c) \/ CloseServiceEnds(c)
  \/ PollIn(c) \/ (\E p \in {"out", "err"} : PollRead(c, p))
  \/ AllRead(c) \/ TimeOut(c) \/ Kill(c) \/ Wait(c)
------------------------------------------------------------------------------
(* The service *)

\* sys.stdin.buffer.read() takes all there is ...
ReadInput(c) ==
  /\ child[c] = "reading" /\ held[c]["in"] > 0
  /\ held' = [held EXCEPT ![c]["in"] = 0]
  /\ UNCHANGED <<at, fds, written, got, child, left, status, late, answer>>

\* ... up to the end of the pipe.  Then the program is lowered: an answer on
\* stdout and 0, or a line on stderr and 2 (not supported) or 3.
Lower(c) ==
  /\ child[c] = "reading" /\ held[c]["in"] = 0 /\ AtEnd(c, "in")
  /\ \E result \in {0, 2, 3} :
       /\ written[c] < InSize => result # 0
       /\ status' = [status EXCEPT ![c] = result]
       /\ left' = [left EXCEPT ![c]["out"] = IF result = 0 THEN OutSize ELSE 0,
                               ![c]["err"] = IF result = 0 THEN 0 ELSE 1]
  /\ child' = [child EXCEPT ![c] = "writing"]
  /\ UNCHANGED <<at, fds, held, written, got, late, answer>>

WriteAnswer(c, p) ==
  /\ child[c] = "writing" /\ left[c][p] > 0
  /\ held[c][p] < PipeCap /\ ~Unread(c, p)
  /\ held' = [held EXCEPT ![c][p] = @ + 1]
  /\ left' = [left EXCEPT ![c][p] = @ - 1]
  /\ UNCHANGED <<at, fds, written, got, child, status, late, answer>>

Ended(c) ==
  /\ child' = [child EXCEPT ![c] = "ended"]
  /\ fds' = fds \ OfProcess(c)
  /\ UNCHANGED <<at, held, written, got, left, late, answer>>

ExitService(c) ==
  /\ child[c] = "writing" /\ \A p \in {"out", "err"} : left[c][p] = 0
  /\ Ended(c) /\ UNCHANGED status

\* The client has closed its end: an error that nobody catches.
BrokenPipe(c) ==
  /\ child[c] = "writing" /\ \E p \in {"out", "err"} : left[c][p] > 0 /\ Unread(c, p)
  /\ Ended(c) /\ status' = [status EXCEPT ![c] = 1]

\* execlp fails, with nothing read yet: 127.
ExecFails(c) ==
  /\ child[c] = "reading" /\ held[c]["in"] = written[c]
  /\ Ended(c) /\ status' = [status EXCEPT ![c] = 127]

ServiceStep(c) ==
  \/ ReadInput(c) \/ Lower(c) \/ (\E p \in {"out", "err"} : WriteAnswer(c, p))
  \/ ExitService(c) \/ BrokenPipe(c)

PNext == \E c \in Callers : CallerStep(c) \/ ServiceStep(c) \/ ExecFails(c)

PSpec == PInit /\ [][PNext]_procVars

AllAnswered == \A c \in Callers : at[c] = "done"
------------------------------------------------------------------------------
(* Properties *)

\* A compile returns what its own service made of the whole program, whatever
\* ends the other threads' children hold.  Given up or not: whoever finds anything
\* has read all of the program, and what is returned as the program is all of what
\* a service wrote that ended well.  If it was not given up, such an answer does
\* come back.
AnswersOwnProgram ==
  \A c \in Callers : at[c] = "done" =>
    /\ status[c] \in {0, 2, 3} => written[c] = InSize
    /\ answer[c] = "program" => status[c] = 0 /\ got[c] = OutSize
    /\ status[c] = 0 /\ ~late[c] => answer[c] = "program"

\* "poll-driven write-stdin / read-stdout+stderr to avoid pipe deadlocks"
\* (runtime.cc): no two services wait for the end of inputs of which each holds
\* the other's write end, when both programs have been written.
NoPipeDeadlock ==
  ~\E c, d \in Callers :
     /\ c # d
     /\ \A x \in {c, d} : child[x] = "reading" /\ ~Opened(x, "in") /\ held[x]["in"] = 0
     /\ <<c, d, "in", "write">> \in fds /\ <<d, c, "in", "write">> \in fds
==============================================================================
