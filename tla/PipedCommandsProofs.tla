-------------------------- MODULE PipedCommandsProofs --------------------------
(* What RunPipedCommands returns, for any output and pipes of any size. *)
EXTENDS PipedCommands, TLAPS

Started(c) == cmd[c] \in {"running", "exited", "killed"}

\* Lines keep their order on the way, and a goroutine holds one at most.
InOrder ==
    /\ got["collected"] <= got["read"]
    /\ got["read"] <= got["fed"]
    /\ got["fed"] <= got["passed"]
    /\ got["passed"] <= got["copied"]
    /\ got["copied"] <= got["written"]

\* A goroutine is there when its command was started.
HelpersMatch ==
    /\ routine["copier"] # "new" <=> Started("cmd1")
    /\ routine["feeder"] # "new" <=> Started("cmd2")
    /\ routine["collector"] # "new" <=> Started("cmd2")

\* What RunPipedCommands knows where it stands.
Position ==
    /\ cmd["cmd1"] = "new" <=> main = "start1"
    /\ cmd["cmd2"] = "new" <=> main \in {"start1", "start2"}
    /\ closed <=> main \in {"wait2", "done"}
    /\ main \in {"close", "wait2", "done"} => Ended("cmd1", {"copier"})
    /\ main = "done" => Ended("cmd2", {"feeder", "collector"})

\* What has come through where an end was reached.
EndsClean ==
    /\ cmd["cmd1"] = "exited" => got["written"] = N
    /\ routine["copier"] = "done" =>
        /\ cmd["cmd1"] # "running"
        /\ got["copied"] = got["written"] /\ got["passed"] = got["copied"]
    /\ routine["feeder"] = "done" =>
        cmd["cmd2"] = "killed" \/ (closed /\ got["fed"] = got["passed"])
    /\ cmd["cmd2"] = "exited" => routine["feeder"] = "done" /\ got["read"] = got["fed"]
    /\ routine["collector"] = "done" =>
        cmd["cmd2"] # "running" /\ got["collected"] = got["read"]

IInv == TypeOK /\ InOrder /\ HelpersMatch /\ Position /\ EndsClean

LEMMA MainInvariant ==
    ASSUME IInv, RunPipedCommands PROVE IInv'
<1> USE ConstantsAssumption DEF IInv, TypeOK, Commands, Routines, Places, Steps
<1>1. CASE Start1
    BY <1>1 DEF Start1, StartCommand, InOrder, HelpersMatch, Position, EndsClean, Ended, Started
<1>2. CASE Start2
    BY <1>2 DEF Start2, StartCommand, InOrder, HelpersMatch, Position, EndsClean, Ended, Started
<1>3. CASE Wait1
    BY <1>3 DEF Wait1, InOrder, HelpersMatch, Position, EndsClean, Ended, Started
<1>4. CASE Close
    BY <1>4 DEF Close, InOrder, HelpersMatch, Position, EndsClean, Ended, Started
<1>5. CASE Wait2
    BY <1>5 DEF Wait2, InOrder, HelpersMatch, Position, EndsClean, Ended, Started
<1> QED BY <1>1, <1>2, <1>3, <1>4, <1>5 DEF RunPipedCommands

LEMMA LinesInvariant ==
    ASSUME IInv, Lines PROVE IInv'
<1> USE ConstantsAssumption DEF IInv, TypeOK, Commands, Routines, Places, Move, CanMove,
        InOrder, HelpersMatch, Position, EndsClean, Ended, Started
<1>1. CASE Write   BY <1>1 DEF Write
<1>2. CASE Copy    BY <1>2 DEF Copy
<1>3. CASE Pass    BY <1>3 DEF Pass
<1>4. CASE Feed    BY <1>4 DEF Feed
<1>5. CASE Read    BY <1>5 DEF Read
<1>6. CASE Collect BY <1>6 DEF Collect
<1> QED BY <1>1, <1>2, <1>3, <1>4, <1>5, <1>6 DEF Lines

LEMMA EndingsInvariant ==
    ASSUME IInv, Endings \/ Kill1 \/ Kill2 PROVE IInv'
<1> USE DEF IInv, TypeOK, Commands, Routines, Places, CanEnd, EndCommand, EndRoutine, Kill,
        InOrder, HelpersMatch, Position, EndsClean, Ended, Started
<1>1. CASE Exit1 \/ Kill1   BY <1>1 DEF Exit1, Kill1
<1>2. CASE CopyEnds         BY <1>2 DEF CopyEnds
<1>3. CASE FeedEnds         BY <1>3 DEF FeedEnds
<1>4. CASE Exit2 \/ Kill2   BY <1>4 DEF Exit2, Kill2
<1>5. CASE CollectEnds      BY <1>5 DEF CollectEnds
<1> QED BY <1>1, <1>2, <1>3, <1>4, <1>5 DEF Endings

\* IInv holds in every reachable state.
THEOREM InductiveInvariant == Spec => []IInv
<1>1. Init => IInv
  <2> SUFFICES ASSUME Init PROVE IInv
      OBVIOUS
  <2>1. TypeOK
    <3>1. 0 \in 0 .. N
      BY ConstantsAssumption
    <3>2. got \in [Places -> 0 .. N]
      BY <3>1 DEF Init
    <3>3. cmd \in [Commands -> {"new", "running", "exited", "killed", "failed"}]
      BY DEF Init
    <3>4. routine \in [Routines -> {"new", "running", "done"}]
      BY DEF Init
    <3> QED BY <3>2, <3>3, <3>4 DEF Init, TypeOK, Steps
  <2>2. InOrder
      BY DEF Init, InOrder, Places
  <2>3. HelpersMatch /\ Position /\ EndsClean
      BY DEF Init, Commands, Routines, HelpersMatch, Position, EndsClean, Ended, Started
  <2> QED BY <2>1, <2>2, <2>3 DEF IInv
<1>2. IInv /\ [Next]_vars => IInv'
  <2> SUFFICES ASSUME IInv, [Next]_vars PROVE IInv'
      OBVIOUS
  <2>1. CASE RunPipedCommands BY <2>1, MainInvariant
  <2>2. CASE Lines BY <2>2, LinesInvariant
  <2>3. CASE Endings \/ Kill1 \/ Kill2 BY <2>3, EndingsInvariant
  <2>4. CASE UNCHANGED vars
      BY <2>4 DEF vars, IInv, TypeOK, InOrder, HelpersMatch, Position, EndsClean, Ended, Started
  <2> QED BY <2>1, <2>2, <2>3, <2>4 DEF Next
<1> QED BY <1>1, <1>2, PTL DEF Spec

\* Every variable keeps its type; no line is counted that was not written.
THEOREM TypeCorrect == Spec => []TypeOK
<1>1. IInv => TypeOK BY DEF IInv
<1> QED BY <1>1, InductiveInvariant, PTL

\* No line is lost between two commands that run to their ends.
THEOREM NoLineLost == Spec => []OutputComplete
<1>1. IInv => OutputComplete
    BY DEF IInv, TypeOK, Commands, Routines, Places, HelpersMatch, Position, EndsClean, Ended,
        Started, OutputComplete
<1> QED BY <1>1, InductiveInvariant, PTL

\* The call leaves nothing running behind it.
THEOREM NothingRunsOn == Spec => []NothingLeft
<1>1. IInv => NothingLeft
    BY DEF IInv, TypeOK, Commands, Routines, HelpersMatch, Position, EndsClean, Ended, Started,
        NothingLeft
<1> QED BY <1>1, InductiveInvariant, PTL

-----------------------------------------------------------------------------
\* No line, command or goroutine can go on.
Quiet ==
    /\ \A p \in Places : ~CanMove(p)
    /\ \A x \in Commands \cup Routines : ~CanEnd(x)

\* As long as copier has got rid of what it read, the first command and its output
\* come to their ends.
LEMMA FirstComesToAnEnd ==
    ASSUME IInv, Quiet, cmd["cmd1"] # "new", got["passed"] = got["copied"]
    PROVE  Ended("cmd1", {"copier"})
<1> USE ConstantsAssumption DEF IInv, TypeOK, Commands, Routines, Places
<1>1. CASE cmd["cmd1"] = "failed"
    BY <1>1 DEF Ended
<1>2. CASE cmd["cmd1"] = "running"
  <2>1. routine["copier"] = "running"
      BY <1>2 DEF HelpersMatch, Started, EndsClean
  <2>2. got["copied"] = got["written"]
      BY <2>1, ~CanMove("copied") DEF Quiet, CanMove, InOrder
  <2>3. got["written"] = N
      BY <1>2, <2>2, ~CanMove("written") DEF Quiet, CanMove
  <2> QED BY <1>2, <2>3, ~CanEnd("cmd1") DEF Quiet, CanEnd
<1>3. CASE cmd["cmd1"] \in {"exited", "killed"}
  <2>1. routine["copier"] # "new"
      BY <1>3 DEF HelpersMatch, Started
  <2>2. routine["copier"] # "running"
    <3> SUFFICES ASSUME routine["copier"] = "running" PROVE FALSE
        OBVIOUS
    <3>1. got["copied"] = got["written"]
        BY ~CanMove("copied") DEF Quiet, CanMove, InOrder
    <3> QED BY <1>3, <3>1, ~CanEnd("copier") DEF Quiet, CanEnd
  <2> QED BY <1>3, <2>1, <2>2 DEF Ended
<1> QED BY <1>1, <1>2, <1>3

\* While the second command runs, lines come through to cmdOutput, and only the
\* open io.Pipe keeps it from ending.
LEMMA SecondTakesAll ==
    ASSUME IInv, Quiet, cmd["cmd2"] = "running"
    PROVE  ~closed /\ got["passed"] = got["copied"]
<1> USE ConstantsAssumption DEF IInv, TypeOK, Commands, Routines, Places
<1>1. routine["collector"] = "running"
    BY DEF HelpersMatch, Started, EndsClean
<1>2. got["collected"] = got["read"]
    BY <1>1, ~CanMove("collected") DEF Quiet, CanMove, InOrder
<1>3. got["read"] = got["fed"]
    BY <1>2, ~CanMove("read") DEF Quiet, CanMove, InOrder
<1>4. routine["feeder"] = "running"
    BY <1>3, ~CanEnd("cmd2") DEF Quiet, CanEnd, HelpersMatch, Started
<1>5. got["fed"] = got["passed"]
    BY <1>3, <1>4, ~CanMove("fed") DEF Quiet, CanMove, InOrder
<1>6. ~closed
    BY <1>4, <1>5, ~CanEnd("feeder") DEF Quiet, CanEnd
<1>7. got["passed"] = got["copied"]
    BY <1>4, <1>5, <1>6, ~CanMove("passed") DEF Quiet, CanMove, InOrder
<1> QED BY <1>6, <1>7

\* Once the io.Pipe is closed, a second command that has ended, however it ended,
\* is followed by its goroutines.
LEMMA SecondComesToAnEnd ==
    ASSUME IInv, Quiet, closed, cmd["cmd2"] \in {"exited", "killed", "failed"}
    PROVE  Ended("cmd2", {"feeder", "collector"})
<1> USE ConstantsAssumption DEF IInv, TypeOK, Commands, Routines, Places
<1>1. CASE cmd["cmd2"] = "failed"
    BY <1>1 DEF Ended
<1>2. CASE cmd["cmd2"] \in {"exited", "killed"}
  <2>1. routine["feeder"] # "new" /\ routine["collector"] # "new"
      BY <1>2 DEF HelpersMatch, Started
  <2>2. routine["collector"] # "running"
    <3> SUFFICES ASSUME routine["collector"] = "running" PROVE FALSE
        OBVIOUS
    <3>1. got["collected"] = got["read"]
        BY ~CanMove("collected") DEF Quiet, CanMove, InOrder
    <3> QED BY <1>2, <3>1, ~CanEnd("collector") DEF Quiet, CanEnd
  <2>3. routine["feeder"] # "running"
      BY <1>2, ~CanEnd("feeder") DEF Quiet, CanEnd, InOrder
  <2> QED BY <1>2, <2>1, <2>2, <2>3 DEF Ended
<1> QED BY <1>1, <1>2

\* The call hangs in one way only: the second command is gone, with a line before
\* it in the io.Pipe.
THEOREM NeverWaitsInACircle == Spec => []NoCircularWait
<1>1. IInv => NoCircularWait
  <2> SUFFICES ASSUME IInv, ~CanGoOn, main # "done", ~Unread PROVE FALSE
      BY DEF NoCircularWait
  <2>1. Quiet
      BY DEF CanGoOn, Quiet
  <2>2. main \in {"wait1", "wait2"}
      BY DEF CanGoOn, IInv, TypeOK, Steps
  <2>3. cmd["cmd1"] # "new" /\ cmd["cmd2"] # "new"
      BY <2>2 DEF IInv, Position
  <2>4. CASE main = "wait1"
    <3>1. got["passed"] = got["copied"]
      <4>1. CASE cmd["cmd2"] = "running"
          BY <2>1, <4>1, SecondTakesAll
      <4>2. CASE cmd["cmd2"] \in {"killed", "failed"}
          BY <4>2 DEF Unread, IInv, TypeOK, Places, InOrder
      <4>3. cmd["cmd2"] # "exited"
          BY <2>4 DEF IInv, Position, EndsClean
      <4> QED BY <2>3, <4>1, <4>2, <4>3 DEF IInv, TypeOK, Commands
    <3> QED BY <2>1, <2>3, <2>4, <3>1, FirstComesToAnEnd DEF CanGoOn
  <2>5. CASE main = "wait2"
    <3>1. closed
        BY <2>5 DEF IInv, Position
    <3>2. cmd["cmd2"] \in {"exited", "killed", "failed"}
        BY <2>1, <2>3, <3>1, SecondTakesAll DEF IInv, TypeOK, Commands
    <3> QED BY <2>1, <2>5, <3>1, <3>2, SecondComesToAnEnd DEF CanGoOn
  <2> QED BY <2>2, <2>4, <2>5
<1> QED BY <1>1, InductiveInvariant, PTL

-----------------------------------------------------------------------------
LEMMA CountsAreNumbers ==
    ASSUME TypeOK
    PROVE  /\ StepsLeft \in Nat
           /\ LinesLeft \in Nat
           /\ \A c \in Commands : ToEnd(cmd[c]) \in Nat
           /\ \A r \in Routines : ToEnd(routine[r]) \in Nat
BY ConstantsAssumption DEF TypeOK, Places, Steps, StepsLeft, LinesLeft, ToEnd

\* A step of the lines takes one move from those that are left, and nothing else.
LEMMA LinesCount ==
    ASSUME TypeOK, TypeOK', Lines
    PROVE  /\ LinesLeft' = LinesLeft - 1
           /\ UNCHANGED <<main, cmd, routine>>
<1> USE ConstantsAssumption DEF TypeOK, Places, LinesLeft, Move
<1>1. CASE Write \/ Copy \/ Pass
    BY <1>1 DEF Write, Copy, Pass
<1>2. CASE Feed \/ Read \/ Collect
    BY <1>2 DEF Feed, Read, Collect
<1> QED BY <1>1, <1>2 DEF Lines

\* Every other step leaves the lines where they are and ends something, or is a
\* statement that begins less than was to begin.
LEMMA OthersCount ==
    ASSUME IInv, RunPipedCommands \/ Endings \/ Kill1 \/ Kill2
    PROVE  /\ LinesLeft' = LinesLeft
           /\ StepsLeft' + ToEnd(cmd["cmd1"])' + ToEnd(cmd["cmd2"])'
                + ToEnd(routine["copier"])' + ToEnd(routine["feeder"])'
                + ToEnd(routine["collector"])'
              < StepsLeft + ToEnd(cmd["cmd1"]) + ToEnd(cmd["cmd2"])
                + ToEnd(routine["copier"]) + ToEnd(routine["feeder"])
                + ToEnd(routine["collector"])
<1> USE DEF IInv, TypeOK, Commands, Routines, Steps, StepsLeft, ToEnd
<1>1. LinesLeft' = LinesLeft
    BY DEF LinesLeft, RunPipedCommands, Endings, Start1, Start2, StartCommand, Wait1, Close, Wait2,
        Exit1, Exit2, EndCommand, CopyEnds, FeedEnds, CollectEnds, EndRoutine, Kill1, Kill2, Kill
<1>2. CASE Start1
    BY <1>1, <1>2 DEF Start1, StartCommand, Position, HelpersMatch, Started
<1>3. CASE Start2
    BY <1>1, <1>3 DEF Start2, StartCommand, Position, HelpersMatch, Started
<1>4. CASE Wait1 \/ Close \/ Wait2
    BY <1>1, <1>4 DEF Wait1, Close, Wait2
<1>5. CASE Exit1 \/ Exit2 \/ Kill1 \/ Kill2
    BY <1>1, <1>5 DEF Exit1, Exit2, Kill1, Kill2, Kill, EndCommand, CanEnd
<1>6. CASE CopyEnds \/ FeedEnds \/ CollectEnds
    BY <1>1, <1>6 DEF CopyEnds, FeedEnds, CollectEnds, EndRoutine, CanEnd
<1> QED BY <1>2, <1>3, <1>4, <1>5, <1>6 DEF RunPipedCommands, Endings

\* No step is made a second time: the work that is left is a number that every
\* step makes smaller, so a call makes 15 + 6N steps at most.
THEOREM EveryStepCounts == Spec => WorkGoesDown
<1>1. IInv /\ IInv' /\ [Next]_vars => [WorkLeft' < WorkLeft]_vars
  <2> SUFFICES ASSUME IInv, IInv', Next PROVE WorkLeft' < WorkLeft
      OBVIOUS
  <2>1. TypeOK /\ TypeOK'
      BY DEF IInv
  <2>2. /\ StepsLeft \in Nat /\ StepsLeft' \in Nat
        /\ LinesLeft \in Nat /\ LinesLeft' \in Nat
        /\ \A c \in Commands : ToEnd(cmd[c]) \in Nat /\ ToEnd(cmd[c])' \in Nat
        /\ \A r \in Routines : ToEnd(routine[r]) \in Nat /\ ToEnd(routine[r])' \in Nat
      <3>1. /\ StepsLeft' \in Nat
            /\ LinesLeft' \in Nat
            /\ \A c \in Commands : ToEnd(cmd[c])' \in Nat
            /\ \A r \in Routines : ToEnd(routine[r])' \in Nat
          BY <2>1, ConstantsAssumption
             DEF TypeOK, Places, Steps, StepsLeft, LinesLeft, ToEnd
      <3> QED BY <2>1, <3>1, CountsAreNumbers
  <2>3. CASE Lines
    <3>1. LinesLeft' = LinesLeft - 1 /\ UNCHANGED <<main, cmd, routine>>
        BY <2>1, <2>3, LinesCount
    <3>2. StepsLeft' = StepsLeft
        BY <3>1 DEF StepsLeft
    <3> QED BY <2>2, <3>1, <3>2 DEF WorkLeft, Commands, Routines
  <2>4. CASE RunPipedCommands \/ Endings \/ Kill1 \/ Kill2
      BY <2>2, <2>4, OthersCount DEF WorkLeft, Commands, Routines
  <2> QED BY <2>3, <2>4 DEF Next
<1> QED BY <1>1, InductiveInvariant, PTL DEF Spec, WorkGoesDown
=============================================================================
