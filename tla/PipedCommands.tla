---------------------------- MODULE PipedCommands ----------------------------
(***************************************************************************)
(* RunPipedCommands of pkg/utils/util.go: "cmd1 | cmd2" run for            *)
(* unmountdevice, which looks a mount up with "mount | grep -w directory". *)
(* The two commands are joined by an io.Pipe, which holds nothing: a write *)
(* to it waits for its reader.  As neither end is a file, os/exec puts a   *)
(* goroutine and a pipe of the system between each end and its command,    *)
(* and one more behind the output of cmd2:                                 *)
(*                                                                         *)
(*   cmd1 =pipe=> copier -io.Pipe- feeder =pipe=> cmd2 =pipe=> collector   *)
(*                                                                         *)
(* Starting the commands, waiting for them and closing the io.Pipe is the  *)
(* code's; the rest is os/exec and the system, modelled from that use.     *)
(***************************************************************************)
EXTENDS Naturals

CONSTANTS
    N,          \* lines that cmd1 writes; all pass cmd2
    Capacity,   \* lines that a pipe of the system holds
    Faults      \* what may go wrong, a subset of FaultKinds

FaultKinds == {"start1", "start2",  \* a command does not start
               "kill1", "kill2"}    \* a command dies before its end

ASSUME ConstantsAssumption ==
    /\ N \in Nat
    /\ Capacity \in Nat \ {0}
    /\ Faults \subseteq FaultKinds

VARIABLES
    main,       \* what RunPipedCommands does next
    cmd,        \* state of the two commands
    routine,    \* state of the three goroutines
    closed,     \* whether wPipe is closed
    got         \* place -> how many lines have come as far as that

vars == <<main, cmd, routine, closed, got>>

Commands == {"cmd1", "cmd2"}
Routines == {"copier", "feeder", "collector"}
\* Written by cmd1, read by copier, taken over by feeder, written to cmd2, read
\* by cmd2, put into cmdOutput.
Places   == {"written", "copied", "passed", "fed", "read", "collected"}
Steps    == {"start1", "start2", "wait1", "close", "wait2", "done"}

TypeOK ==
    /\ main \in Steps
    /\ cmd \in [Commands -> {"new", "running", "exited", "killed", "failed"}]
    /\ routine \in [Routines -> {"new", "running", "done"}]
    /\ closed \in BOOLEAN
    /\ closed <=> (main \in {"wait2", "done"})
    /\ got \in [Places -> 0 .. N]

Init ==
    /\ main = "start1"
    /\ cmd = [c \in Commands |-> "new"]
    /\ routine = [r \in Routines |-> "new"]
    /\ closed = FALSE
    /\ got = [p \in Places |-> 0]

-----------------------------------------------------------------------------
\* RunPipedCommands.  A command that does not start has no goroutines either;
\* the error of Start is not looked at.
StartCommand(c, helpers, fault, next) ==
    /\ \/ /\ cmd' = [cmd EXCEPT ![c] = "running"]
          /\ routine' = [r \in Routines |-> IF r \in helpers THEN "running" ELSE routine[r]]
       \/ /\ fault \in Faults
          /\ cmd' = [cmd EXCEPT ![c] = "failed"]
          /\ UNCHANGED routine
    /\ main' = next
    /\ UNCHANGED <<closed, got>>

Start1 == main = "start1" /\ StartCommand("cmd1", {"copier"}, "start1", "start2")
Start2 == main = "start2" /\ StartCommand("cmd2", {"feeder", "collector"}, "start2", "wait1")

\* Wait returns once the command and its goroutines have ended, and at once for
\* one that was not started.
Ended(c, helpers) ==
    \/ cmd[c] = "failed"
    \/ /\ cmd[c] \in {"exited", "killed"}
       /\ \A r \in helpers : routine[r] = "done"

\* Variants: wait for the processes alone.
Wait1ProcessOnly ==
    /\ main = "wait1" /\ Ended("cmd1", {})
    /\ main' = "close"
    /\ UNCHANGED <<cmd, routine, closed, got>>

Wait2ProcessOnly ==
    /\ main = "wait2" /\ Ended("cmd2", {})
    /\ main' = "done"
    /\ UNCHANGED <<cmd, routine, closed, got>>

\* A variant that starts over when the first command did not get to its end.
Wait1StartsOver ==
    /\ main = "wait1" /\ Ended("cmd1", {"copier"})
    /\ main' = IF cmd["cmd1"] = "exited" THEN "close" ELSE "start1"
    /\ UNCHANGED <<cmd, routine, closed, got>>

Wait1 ==
    /\ main = "wait1" /\ Ended("cmd1", {"copier"})
    /\ main' = "close"
    /\ UNCHANGED <<cmd, routine, closed, got>>

\* A variant that leaves wPipe open.
CloseForgotten ==
    /\ main = "close"
    /\ main' = "wait2"
    /\ UNCHANGED <<cmd, routine, closed, got>>

Close ==
    /\ main = "close"
    /\ closed' = TRUE
    /\ main' = "wait2"
    /\ UNCHANGED <<cmd, routine, got>>

\* c2.Wait, and the reading of cmdOutput and cmdError.
Wait2 ==
    /\ main = "wait2" /\ Ended("cmd2", {"feeder", "collector"})
    /\ main' = "done"
    /\ UNCHANGED <<cmd, routine, closed, got>>

-----------------------------------------------------------------------------
\* Where a line can move on to, given what came through so far:
\* the first command writes while its pipe has room;
\* copier reads the next line once the last one has been taken over;
\* feeder takes a line over from copier unless the pipe was closed, and writes it
\* while the second command has room for it;
\* the second command reads a line and writes it, and collector keeps it.
CanMove(p) ==
    CASE p = "written" ->
            cmd["cmd1"] = "running" /\ got["written"] < N
            /\ got["written"] - got["copied"] < Capacity
      [] p = "copied" ->
            routine["copier"] = "running"
            /\ got["copied"] < got["written"] /\ got["passed"] = got["copied"]
      [] p = "passed" ->
            routine["feeder"] = "running" /\ ~closed
            /\ got["passed"] < got["copied"] /\ got["fed"] = got["passed"]
      [] p = "fed" ->
            routine["feeder"] = "running" /\ cmd["cmd2"] = "running"
            /\ got["fed"] < got["passed"] /\ got["fed"] - got["read"] < Capacity
      [] p = "read" ->
            cmd["cmd2"] = "running"
            /\ got["read"] < got["fed"] /\ got["read"] - got["collected"] < Capacity
      [] p = "collected" ->
            routine["collector"] = "running" /\ got["collected"] < got["read"]

\* When a command or a goroutine is through:
\* the first command after its last line, copier after the last line of a
\* command that has ended;
\* feeder at the end of the pipe, or when nobody reads what it has (EPIPE, which
\* os/exec does not report);
\* the second command at the end of its input, collector after its last line.
CanEnd(x) ==
    CASE x = "cmd1" -> cmd["cmd1"] = "running" /\ got["written"] = N
      [] x = "copier" ->
            routine["copier"] = "running" /\ cmd["cmd1"] # "running"
            /\ got["copied"] = got["written"] /\ got["passed"] = got["copied"]
      [] x = "feeder" ->
            routine["feeder"] = "running"
            /\ \/ closed /\ got["fed"] = got["passed"]
               \/ cmd["cmd2"] # "running" /\ got["fed"] < got["passed"]
      [] x = "cmd2" ->
            cmd["cmd2"] = "running" /\ routine["feeder"] = "done" /\ got["read"] = got["fed"]
      [] x = "collector" ->
            routine["collector"] = "running"
            /\ cmd["cmd2"] # "running" /\ got["collected"] = got["read"]

Move(p) ==
    /\ CanMove(p)
    /\ got' = [got EXCEPT ![p] = @ + 1]
    /\ UNCHANGED <<main, cmd, routine, closed>>

EndCommand(c, how) ==
    /\ cmd' = [cmd EXCEPT ![c] = how]
    /\ UNCHANGED <<main, routine, closed, got>>

EndRoutine(r) ==
    /\ CanEnd(r)
    /\ routine' = [routine EXCEPT ![r] = "done"]
    /\ UNCHANGED <<main, cmd, closed, got>>

Kill(c, fault) ==
    /\ fault \in Faults
    /\ cmd[c] = "running"
    /\ EndCommand(c, "killed")

Write   == Move("written")
Copy    == Move("copied")
Pass    == Move("passed")
Feed    == Move("fed")
Read    == Move("read")
Collect == Move("collected")

Exit1       == CanEnd("cmd1") /\ EndCommand("cmd1", "exited")
CopyEnds    == EndRoutine("copier")
FeedEnds    == EndRoutine("feeder")
Exit2       == CanEnd("cmd2") /\ EndCommand("cmd2", "exited")
CollectEnds == EndRoutine("collector")

Kill1 == Kill("cmd1", "kill1")
Kill2 == Kill("cmd2", "kill2")

RunPipedCommands == Start1 \/ Start2 \/ Wait1 \/ Close \/ Wait2
Lines    == Write \/ Copy \/ Pass \/ Feed \/ Read \/ Collect
Endings  == Exit1 \/ CopyEnds \/ FeedEnds \/ Exit2 \/ CollectEnds

Next == RunPipedCommands \/ Lines \/ Endings \/ Kill1 \/ Kill2

Spec == Init /\ [][Next]_vars

\* Processes and goroutines run on; nobody has to be killed.
FairSpec ==
    /\ Spec
    /\ WF_vars(RunPipedCommands)
    /\ WF_vars(Write) /\ WF_vars(Copy) /\ WF_vars(Pass) /\ WF_vars(Feed)
    /\ WF_vars(Read) /\ WF_vars(Collect)
    /\ WF_vars(Exit1) /\ WF_vars(CopyEnds) /\ WF_vars(FeedEnds)
    /\ WF_vars(Exit2) /\ WF_vars(CollectEnds)

-----------------------------------------------------------------------------
\* When both commands run to their ends, every line has come through by the time
\* cmdOutput is read (util.go:296-304): a line lost on the way would be a mount
\* that unmountdevice does not see.
OutputComplete ==
    (main = "done" /\ \A c \in Commands : cmd[c] = "exited") => got["collected"] = N

\* When RunPipedCommands returns, no command and no goroutine is left, and none
\* of them writes to the buffers any more (util.go:296-304).
NothingLeft ==
    main = "done" =>
        /\ \A c \in Commands : cmd[c] # "running"
        /\ \A r \in Routines : routine[r] # "running"

\* Whether anything can still happen by itself: a statement of RunPipedCommands, a
\* line, an end.
CanGoOn ==
    \/ main \in {"start1", "start2", "close"}
    \/ main = "wait1" /\ Ended("cmd1", {"copier"})
    \/ main = "wait2" /\ Ended("cmd2", {"feeder", "collector"})
    \/ \E p \in Places : CanMove(p)
    \/ \E x \in Commands \cup Routines : CanEnd(x)

Unread == cmd["cmd2"] \in {"killed", "failed"} /\ got["passed"] < got["copied"]

\* The two commands, the goroutines and the two waits never wait for each other in
\* a circle: nothing goes on any more only when the call has returned, or when a
\* line waits in the io.Pipe for a second command that is gone (util.go:296-300).
NoCircularWait == CanGoOn \/ main = "done" \/ Unread

\* What is left to do: statements, starts and ends, and moves of lines.
StepsLeft ==
    CASE main = "start1" -> 5 [] main = "start2" -> 4 [] main = "wait1" -> 3
      [] main = "close" -> 2 [] main = "wait2" -> 1 [] main = "done" -> 0

ToEnd(s) == CASE s = "new" -> 2 [] s = "running" -> 1 [] OTHER -> 0

LinesLeft ==
    (N - got["written"]) + (N - got["copied"]) + (N - got["passed"])
    + (N - got["fed"]) + (N - got["read"]) + (N - got["collected"])

WorkLeft ==
    StepsLeft + LinesLeft + ToEnd(cmd["cmd1"]) + ToEnd(cmd["cmd2"])
    + ToEnd(routine["copier"]) + ToEnd(routine["feeder"]) + ToEnd(routine["collector"])

\* Whatever happens brings the call nearer to its end: no step is made again, so
\* that a call is through, or stuck as above, after 15 + 6N steps (util.go:296-304).
WorkGoesDown == [][WorkLeft' < WorkLeft]_vars

\* The call returns, unless the second command is gone while a line waits in the
\* io.Pipe that has no reader then (util.go:298-299): the order of the two waits
\* leaves no other way to hang, however small the pipes are.
Returns ==
    <>(\/ main = "done"
       \/ Unread)
=============================================================================
