---------------------------- MODULE Sidecar_proofs ----------------------------
(* Theorems about the agent process behind its two pipes, for any number of *)
(* commands read from stdin and of events a run emits.                       *)
EXTENDS Sidecar, FiniteSetTheorems, SequenceTheorems, TLAPS

(***************************************************************************)
(* The inductive invariant.                                                *)
(*                                                                         *)
(* One thread of a run is between its start and the clearing of `_active`  *)
(* at a time, because the main thread starts a run, or pings the engine,   *)
(* only after it has seen `_active` cleared, and only the main thread sets *)
(* it again.  A run whose start failed, or whose thread died, stays in     *)
(* `_active` for good, so that no other begins after it.  Everything else  *)
(* follows from there: who calls the engine, which frames a run has, and   *)
(* that a shutdown which finds no live run, or waits for the one it found, *)
(* leaves none behind.                                                     *)
(***************************************************************************)

\* The command being handled has not been answered yet ...
Unanswered == {"handle", "task", "rpc", "activate", "ack", "probe"}

\* ... or has been accepted, and its handler goes on.
AfterAck == {"event", "announce", "start"}

\* The main thread is at a command, rather than reading or on its way out.
AtCommand == Unanswered \cup AfterAck

\* The command n is still to be answered.
Ahead(n) == n > read \/ (n = read /\ main \in Unanswered)

\* The commands read so far have an answer each, except the one at hand, and a second
\* one at most behind an "ok"; the one a handler goes on after, and every run with a
\* thread, have been accepted and no more.
AcksOf(n) ==
  /\ Ahead(n) => acks[n] = <<>>
  /\ ~Ahead(n) => acks[n] \in {<<"ok">>, <<"error">>, <<"ok", "error">>}
  /\ n = read /\ main \in AfterAck => acks[n] = <<"ok">>
  /\ run_thread[n] # "none" => acks[n] = <<"ok">>

AcksInv ==
  /\ main \in AtCommand => read \in Runs
  /\ \A n \in Runs : AcksOf(n)

\* Where the handlers of run and report are is no other command's place.
CommandInv ==
  /\ main \in {"task", "rpc"} => command \in {"run", "report"}
  /\ main \in {"activate", "ack", "announce", "start"} => command = "run"

\* Who is inside the engine client, and who holds its lock.
LockInv ==
  /\ \A r \in Runs : (run_thread[r] = "rpc" <=> rpc_lock = r)
                     /\ (r \in calling <=> run_thread[r] = "rpc")
  /\ main = "rpc" <=> rpc_lock = MainThread
  /\ MainThread \in calling <=> main \in {"rpc", "probe"}

\* The run a thread works for, or died for, is the one in `_active` until it clears it.
ActiveInv ==
  /\ \A r \in Runs :
       /\ run_thread[r] \in {"working", "rpc", "clearing", "dead"} => active = r
       /\ active = r => run_thread[r] \notin {"setting", "over"}
       /\ done[r] <=> run_thread[r] = "over"
       /\ r > read \/ (r = read /\ main \in AtCommand) => run_thread[r] = "none"
  /\ main \in {"ack", "announce", "start"} => active = read
  /\ main = "probe" \/ (main \in {"task", "rpc", "activate"} /\ command = "run")
       => active = NoRun

\* So is the run that has frames but no thread: it is being begun, or its start failed.
HalfBegun(r) == run_thread[r] = "none" /\ frames[r] # <<>>

HalfBegunInv == \A r \in Runs : HalfBegun(r) => active = r

\* The frames of a run, by where the main thread or its own thread is.
FramesOf(r) ==
  /\ run_thread[r] = "none" =>
       /\ frames[r] \in {<<>>, <<"ack">>, <<"ack", "started">>}
       /\ Ahead(r) => frames[r] = <<>>
       /\ r = read /\ main = "announce" => frames[r] = <<"ack">>
       /\ r = read /\ main = "start" => frames[r] = <<"ack", "started">>
  /\ run_thread[r] # "none" =>
       /\ Len(frames[r]) >= 2 /\ frames[r][1] = "ack" /\ frames[r][2] = "started"
       /\ \A i \in 3 .. Len(frames[r]) :
            /\ frames[r][i] \in {"event", "finished"}
            /\ frames[r][i] = "finished" => i = Len(frames[r])
       /\ run_thread[r] \in {"working", "rpc", "dead"} <=> frames[r][Len(frames[r])] # "finished"

FramesInv == \A r \in Runs : FramesOf(r)

\* A shutdown leaves no unfinished run behind, but for the one it is waiting for.
Unfinished(r) == run_thread[r] \in {"working", "rpc", "dead"} \/ HalfBegun(r)

ShutdownInv ==
  /\ engine <=> main \notin {"exit", "exited"}
  /\ main = "grace" => seen_active \in Runs /\ \A r \in Runs : Unfinished(r) => r = seen_active
  /\ main \in {"close", "exit", "exited"} /\ ~late => \A r \in Runs : ~Unfinished(r)

SidecarInv ==
  /\ TypeOK /\ AcksInv /\ CommandInv /\ LockInv /\ ActiveInv /\ HalfBegunInv /\ FramesInv
  /\ ShutdownInv

-----------------------------------------------------------------------------
(* What the parts of a step do *)

Kinds == {"ack", "started", "event", "finished"}

Answers == {"ok", "error"}

\* An answer counts for the command at hand and for no other.
LEMMA AckCounts ==
  ASSUME acks \in [Runs -> Seq(Answers)], read \in Runs, NEW kind \in Answers, Ack(kind)
  PROVE  /\ acks' \in [Runs -> Seq(Answers)] /\ acks'[read] = Append(acks[read], kind)
         /\ \A n \in Runs \ {read} : acks'[n] = acks[n]
  <1>1. Append(acks[read], kind) \in Seq(Answers)
    OBVIOUS
  <1>2. QED
    BY <1>1 DEF Ack

\* A frame is written after those the run has, and leaves the other runs' alone.
LEMMA WroteAppends ==
  ASSUME frames \in [Runs -> Seq(Kinds)], NEW r \in Runs, NEW kind \in Kinds, Wrote(r, kind)
  PROVE  /\ frames' \in [Runs -> Seq(Kinds)]
         /\ Len(frames'[r]) = Len(frames[r]) + 1
         /\ frames'[r][Len(frames[r]) + 1] = kind
         /\ \A i \in 1 .. Len(frames[r]) : frames'[r][i] = frames[r][i]
         /\ \A q \in Runs \ {r} : frames'[q] = frames[q]
  <1>1. frames[r] \in Seq(Kinds) /\ Append(frames[r], kind) \in Seq(Kinds)
    OBVIOUS
  <1>2. frames' = [frames EXCEPT ![r] = Append(@, kind)]
    BY DEF Wrote
  <1>3. frames'[r] = Append(frames[r], kind) /\ \A q \in Runs \ {r} : frames'[q] = frames[q]
    BY <1>2
  <1>4. frames' \in [Runs -> Seq(Kinds)]
    BY <1>1, <1>2
  <1>5. QED
    BY <1>1, <1>3, <1>4

\* What is appended to a sequence of one is its second element.
LEMMA AppendedToOne ==
  ASSUME NEW S, NEW s \in Seq(S), NEW b \in S, Len(s) = 1
  PROVE  Append(s, b) = <<s[1], b>>
  <1>1. PICK t : t = Append(s, b)
    OBVIOUS
  <1>2. t \in Seq(S)
    BY <1>1, AppendProperties
  <1>3. t[1] = s[1]
    BY <1>1, AppendProperties
  <1>4. Len(t) = Len(s) + 1
    BY <1>1, AppendProperties
  <1>5. t[Len(s) + 1] = b
    BY <1>1, AppendProperties
  <1>6. Len(t) = 2 /\ t[2] = b
    BY <1>4, <1>5
  <1>7. t = <<t[1], t[2]>>
    BY <1>2, <1>6
  <1>8. QED
    BY <1>1, <1>3, <1>6, <1>7

\* An error behind an "ok", and run_started behind the ack of a run.
LEMMA AppendedPairs ==
  /\ Append(<<"ok">>, "error") = <<"ok", "error">>
  /\ Append(<<"ack">>, "started") = <<"ack", "started">>
  <1>1. <<"ok">> \in Seq({"ok", "error"}) /\ Len(<<"ok">>) = 1 /\ <<"ok">>[1] = "ok"
    OBVIOUS
  <1>2. <<"ack">> \in Seq({"ack", "started"}) /\ Len(<<"ack">>) = 1 /\ <<"ack">>[1] = "ack"
    OBVIOUS
  <1>3. Append(<<"ok">>, "error") = <<"ok", "error">>
    BY <1>1, AppendedToOne
  <1>4. Append(<<"ack">>, "started") = <<"ack", "started">>
    BY <1>2, AppendedToOne
  <1>5. QED
    BY <1>3, <1>4

\* The answer a handler writes counts for the command it handles.
LEMMA AnswerCounts ==
  ASSUME SidecarInv, main \in AtCommand, NEW kind \in {"ok", "error"}, Ack(kind)
  PROVE  /\ read \in Runs /\ acks' \in [Runs -> Seq({"ok", "error"})]
         /\ acks'[read] = Append(acks[read], kind)
         /\ \A n \in Runs \ {read} : acks'[n] = acks[n]
  BY AckCounts DEF SidecarInv, TypeOK, AcksInv, Answers

-----------------------------------------------------------------------------
(* Types *)

\* The main thread keeps the types.
LEMMA MainTypeOK ==
  ASSUME SidecarInv, ReadCommand \/ EndOfInput \/ Main PROVE TypeOK'
  <1> USE SidecarAssumption DEF SidecarInv, TypeOK, Runs, NoRun, MainThread, session, runs, rpc, output,
           Commands, LockInv
  <1>1. CASE ReadCommand
    BY <1>1 DEF ReadCommand
  <1>2. CASE EndOfInput
    BY <1>2 DEF EndOfInput
  <1>3. CASE Refuse
    BY ZenonT(60), <1>3, AnswerCounts DEF Refuse, Refused, AtCommand, AfterAck, Unanswered
  <1>4. CASE Mismatch
    BY <1>4, AnswerCounts DEF Mismatch, Refused, AtCommand, AfterAck, Unanswered
  <1>5. CASE Hello
    BY <1>5, AnswerCounts DEF Hello, AtCommand, AfterAck, Unanswered
  <1>6. CASE StartRun
    BY <1>6, AnswerCounts DEF StartRun, Accepted, Live, AtCommand, AfterAck, Unanswered
  <1>7. CASE MainLock
    BY <1>7 DEF MainLock
  <1>8. CASE MainUnlock
    <2>1. acks' \in [Runs -> Seq({"ok", "error"})]
      BY <1>8, AnswerCounts DEF MainUnlock, AtCommand, AfterAck, Unanswered
    <2>2. QED
      BY <1>8, <2>1 DEF MainUnlock
  <1>9. CASE Activate
    BY <1>9 DEF Activate
  <1>10. CASE AckRun
    <2>1. read \in Runs /\ acks' \in [Runs -> Seq({"ok", "error"})]
      BY <1>10, AnswerCounts DEF AckRun, AtCommand, AfterAck, Unanswered
    <2>2. frames' \in [Runs -> Seq(Kinds)]
      BY <1>10, <2>1, WroteAppends DEF AckRun, Kinds
    <2>3. QED
      BY SMTT(30), <1>10, <2>1, <2>2 DEF AckRun, Kinds
  <1>11. CASE Announce
    <2>1. read \in Runs /\ (UNCHANGED acks \/ Ack("error"))
      BY <1>11 DEF AcksInv, AtCommand, AfterAck, Announce
    <2>2. frames' \in [Runs -> Seq(Kinds)]
      BY <1>11, <2>1, WroteAppends DEF Announce, Kinds
    <2>3. acks' \in [Runs -> Seq({"ok", "error"})]
      BY <1>11, <2>1, AnswerCounts DEF Announce, AtCommand, AfterAck
    <2>4. main' \in {"start", "read"}
          /\ UNCHANGED <<command, read, session, runs, rpc, engine, late>>
      BY <1>11 DEF Announce
    <2>5. QED
      BY <2>2, <2>3, <2>4 DEF Kinds
  <1>12. CASE StartThread
    <2>1. UNCHANGED acks \/ Ack("error")
      BY <1>12 DEF StartThread
    <2>2. acks' \in [Runs -> Seq({"ok", "error"})]
      BY <1>12, <2>1, AnswerCounts DEF StartThread, AtCommand, AfterAck
    <2>3. run_thread' \in [Runs -> {"none", "working", "rpc", "clearing", "setting", "over",
                                    "dead"}]
      BY <1>12 DEF StartThread
    <2>4. main' = "read"
          /\ UNCHANGED <<command, read, session, done, finalize, rpc, engine, frames, late>>
      BY <1>12 DEF StartThread
    <2>5. QED
      BY <2>2, <2>3, <2>4
  <1>13. CASE Cancel
    <2>1. acks' \in [Runs -> Seq({"ok", "error"})]
      BY <1>13, AnswerCounts DEF Cancel, Accepted, AtCommand, AfterAck, Unanswered
    <2>2. PICK r \in Runs \cup {NoRun} :
            finalize' = IF r = active /\ Live(r) THEN [finalize EXCEPT ![r] = TRUE] ELSE finalize
      BY <1>13 DEF Cancel
    <2>3. finalize' \in [Runs -> BOOLEAN]
      BY <2>2
    <2>4. QED
      BY <1>13, <2>1, <2>3 DEF Cancel, Accepted
  <1>14. CASE Status
    BY <1>14, AnswerCounts DEF Status, Accepted, Live, AtCommand, AfterAck, Unanswered
  <1>15. CASE StatusProbed
    <2>1. acks' \in [Runs -> Seq({"ok", "error"})]
      BY <1>15, AnswerCounts DEF StatusProbed, AtCommand, AfterAck, Unanswered
    <2>2. QED
      BY <1>15, <2>1 DEF StatusProbed
  <1>16. CASE Report
    BY <1>16 DEF Report, Accepted
  <1>17. CASE Shutdown
    BY <1>17, AnswerCounts DEF Shutdown, AtCommand, AfterAck, Unanswered
  <1>18. CASE AskToFinish
    <2>1. finalize' \in [Runs -> BOOLEAN]
      BY <1>18 DEF AskToFinish, Live
    <2>2. QED
      BY <1>18, <2>1 DEF AskToFinish
  <1>19. CASE EndOfGrace
    BY <1>19 DEF EndOfGrace
  <1>20. CASE CloseEngine
    BY <1>20 DEF CloseEngine
  <1>21. CASE Exit
    BY <1>21 DEF Exit
  <1>22. CASE EmitAfterAck
    <2>1. acks' \in [Runs -> Seq({"ok", "error"})]
      BY <1>22, AnswerCounts DEF EmitAfterAck, AtCommand, AfterAck, Unanswered
    <2>2. QED
      BY <1>22, <2>1 DEF EmitAfterAck
  <1>23. QED
    BY <1>1, <1>2, <1>3, <1>4, <1>5, <1>6, <1>7, <1>8, <1>9, <1>10, <1>11, <1>12, <1>13, <1>14,
       <1>15, <1>16, <1>17, <1>18, <1>19, <1>20, <1>21, <1>22
    DEF Main

\* The thread of a run keeps the types.
LEMMA RunnerTypeOK ==
  ASSUME SidecarInv, NEW r \in Runs, Runner(r) PROVE TypeOK'
  <1> USE SidecarAssumption DEF SidecarInv, TypeOK, Runs, NoRun, MainThread, session, runs, rpc, output,
           Running, LockInv
  <1>1. CASE RunLock(r)
    BY <1>1 DEF RunLock
  <1>2. CASE RunUnlock(r)
    BY <1>2 DEF RunUnlock
  <1>3. CASE Event(r)
    <2>1. frames' \in [Runs -> Seq(Kinds)]
      BY <1>3, WroteAppends DEF Event, Kinds
    <2>2. QED
      BY <1>3, <2>1 DEF Event, Kinds
  <1>4. CASE Finish(r)
    <2>1. frames' \in [Runs -> Seq(Kinds)]
      BY <1>4, WroteAppends DEF Finish, Kinds
    <2>2. QED
      BY <1>4, <2>1 DEF Finish, Kinds
  <1>5. CASE Clear(r)
    BY <1>5 DEF Clear
  <1>6. CASE SetDone(r)
    BY <1>6 DEF SetDone
  <1>7. CASE Die(r)
    BY <1>7 DEF Die
  <1>8. QED
    BY <1>1, <1>2, <1>3, <1>4, <1>5, <1>6, <1>7 DEF Runner

-----------------------------------------------------------------------------
(* Answers *)

\* The handler answers the command as it leaves it, or goes on after an "ok" ...
LEMMA FirstAnswer ==
  ASSUME SidecarInv, UNCHANGED <<read, run_thread>>, main \in Unanswered,
         main' \notin Unanswered, NEW kind \in {"ok", "error"}, Ack(kind),
         kind = "ok" \/ main' \notin AfterAck
  PROVE  AcksInv'
  <1>1. /\ read \in Runs /\ read' = read /\ run_thread' = run_thread /\ main \in AtCommand
        /\ acks'[read] = Append(acks[read], kind)
        /\ \A n \in Runs \ {read} : acks'[n] = acks[n]
    BY AnswerCounts DEF AtCommand
  <1>2. acks[read] = <<>> /\ run_thread[read] = "none"
    BY <1>1 DEF SidecarInv, AcksInv, AcksOf, Ahead, ActiveInv
  <1>3. acks'[read] = <<kind>>
    BY <1>1, <1>2
  <1>4. ASSUME NEW n \in Runs PROVE AcksOf(n)'
    <2>1. CASE n = read
      <3>1. ~Ahead(n)' /\ run_thread'[n] = "none"
        BY <1>1, <1>2, <2>1 DEF Ahead, Runs
      <3>2. acks'[n] \in {<<"ok">>, <<"error">>} /\ (main' \in AfterAck => acks'[n] = <<"ok">>)
        BY <1>3, <2>1
      <3>3. QED
        BY <3>1, <3>2 DEF AcksOf
    <2>2. CASE n # read
      BY <1>1, <2>2 DEF SidecarInv, AcksInv, AcksOf, Ahead
    <2>3. QED
      BY <2>1, <2>2
  <1>5. QED
    BY <1>1, <1>4 DEF AcksInv

\* ... and what fails after that answer is answered with an error.
LEMMA SecondAnswer ==
  ASSUME SidecarInv, UNCHANGED <<read, run_thread>>, main \in AfterAck,
         main' \notin AtCommand, Ack("error")
  PROVE  AcksInv'
  <1>1. /\ read \in Runs /\ read' = read /\ run_thread' = run_thread /\ main \in AtCommand
        /\ acks'[read] = Append(acks[read], "error")
        /\ \A n \in Runs \ {read} : acks'[n] = acks[n]
    BY AnswerCounts DEF AtCommand
  <1>2. acks[read] = <<"ok">> /\ run_thread[read] = "none"
    BY <1>1 DEF SidecarInv, AcksInv, AcksOf, ActiveInv
  <1>3. acks'[read] = <<"ok", "error">>
    BY <1>1, <1>2, AppendedPairs
  <1>4. ASSUME NEW n \in Runs PROVE AcksOf(n)'
    <2>1. CASE n = read
      <3>1. ~Ahead(n)' /\ run_thread'[n] = "none" /\ main' \notin AfterAck
        BY <1>1, <1>2, <2>1 DEF Ahead, Runs, AtCommand
      <3>2. QED
        BY <1>3, <2>1, <3>1 DEF AcksOf
    <2>2. CASE n # read
      BY <1>1, <2>2 DEF SidecarInv, AcksInv, AcksOf, Ahead
    <2>3. QED
      BY <2>1, <2>2
  <1>5. QED
    BY <1>1, <1>4 DEF AcksInv, AtCommand

\* The answers a step of the main thread gives.
LEMMA MainAcksInv ==
  ASSUME SidecarInv, ReadCommand \/ EndOfInput \/ Main PROVE AcksInv'
  <1> USE DEF session, runs, rpc, output
  <1> DEFINE GoesOn == /\ main \in Unanswered <=> main' \in Unanswered
                       /\ main' \in AfterAck => main \in AfterAck
                       /\ UNCHANGED <<read, acks, run_thread>>
  <1>1. ASSUME GoesOn PROVE AcksInv'
    BY <1>1 DEF SidecarInv, AcksInv, AcksOf, Ahead, AtCommand
  <1>2. CASE ReadCommand
    <2>1. /\ read' = read + 1 /\ read + 1 \in Runs /\ read \in Nat /\ main = "read"
          /\ main' = "handle" /\ UNCHANGED <<acks, run_thread>>
      BY <1>2, SidecarAssumption DEF ReadCommand, SidecarInv, TypeOK, Runs
    <2>2. ASSUME NEW n \in Runs PROVE AcksOf(n)'
      BY <2>1, SidecarAssumption
      DEF SidecarInv, AcksInv, AcksOf, Ahead, AfterAck, Unanswered, Runs
    <2>3. QED
      BY <2>1, <2>2 DEF AcksInv
  <1>3. CASE EndOfInput
    BY <1>3, <1>1 DEF EndOfInput, AfterAck, Unanswered
  <1>4. CASE Refuse \/ Mismatch
    BY <1>4, FirstAnswer DEF Refuse, Mismatch, Refused, AfterAck, Unanswered
  <1>5. CASE Hello \/ AckRun
    BY <1>5, FirstAnswer DEF Hello, AckRun, AfterAck, Unanswered
  <1>6. CASE Cancel \/ StatusProbed \/ Shutdown
    BY <1>6, FirstAnswer DEF Cancel, StatusProbed, Shutdown, Accepted, AfterAck, Unanswered
  <1>7. CASE StartRun \/ Status \/ MainUnlock
    <2>1. \/ main \in Unanswered /\ main' = "read" /\ Ack("error") /\ UNCHANGED <<read, run_thread>>
          \/ /\ main \in Unanswered /\ main' \in {"read", "event"}
             /\ Ack("ok") /\ UNCHANGED <<read, run_thread>>
          \/ GoesOn
      BY <1>7 DEF StartRun, Status, MainUnlock, Accepted, AfterAck, Unanswered
    <2>2. QED
      BY <2>1, <1>1, FirstAnswer DEF AfterAck, Unanswered
  <1>8. CASE EmitAfterAck \/ Announce
    <2>1. \/ main \in AfterAck /\ main' = "read" /\ Ack("error") /\ UNCHANGED <<read, run_thread>>
          \/ GoesOn
      BY <1>8 DEF EmitAfterAck, Announce, AfterAck, Unanswered
    <2>2. QED
      BY <2>1, <1>1, SecondAnswer DEF AtCommand, AfterAck, Unanswered
  <1>9. CASE StartThread
    <2>1. main = "start" /\ main' = "read" /\ UNCHANGED read
      BY <1>9 DEF StartThread
    <2>2. CASE Ack("error") /\ UNCHANGED run_thread
      BY <2>1, <2>2, SecondAnswer DEF AtCommand, AfterAck, Unanswered
    <2>3. CASE UNCHANGED acks /\ run_thread' = [run_thread EXCEPT ![read] = "working"]
      <3>1. read \in Runs /\ acks[read] = <<"ok">>
        BY <2>1 DEF SidecarInv, AcksInv, AcksOf, AtCommand, AfterAck
      <3>2. \A q \in Runs \ {read} : run_thread'[q] = run_thread[q]
        BY <2>3 DEF SidecarInv, TypeOK
      <3>3. ASSUME NEW n \in Runs PROVE AcksOf(n)'
        BY <2>1, <2>3, <3>1, <3>2 DEF SidecarInv, AcksInv, AcksOf, Ahead, AfterAck, Unanswered
      <3>4. QED
        BY <2>1, <3>1, <3>3 DEF AcksInv
    <2>4. QED
      BY <1>9, <2>2, <2>3 DEF StartThread
  <1>10. CASE MainLock \/ Activate \/ Report
    BY <1>10, <1>1 DEF MainLock, Activate, Report, Accepted, AfterAck, Unanswered
  <1>11. CASE AskToFinish \/ EndOfGrace \/ CloseEngine \/ Exit
    BY <1>11, <1>1 DEF AskToFinish, EndOfGrace, CloseEngine, Exit, AfterAck, Unanswered
  <1>12. QED
    BY <1>2, <1>3, <1>4, <1>5, <1>6, <1>7, <1>8, <1>9, <1>10, <1>11 DEF Main

\* The thread of a run answers nothing.
LEMMA RunnerAcksInv ==
  ASSUME SidecarInv, NEW r \in Runs, Runner(r) PROVE AcksInv'
  <1>1. UNCHANGED <<read, main, acks>>
    BY DEF Runner, RunLock, RunUnlock, Event, Finish, Die, Clear, SetDone, output
  <1>2. run_thread[r] # "none"
    BY DEF Runner, RunLock, RunUnlock, Event, Finish, Die, Clear, SetDone
  <1>3. \A q \in Runs \ {r} : run_thread'[q] = run_thread[q]
    BY DEF Runner, RunLock, RunUnlock, Event, Finish, Die, Clear, SetDone, runs, SidecarInv, TypeOK
  <1>4. ASSUME NEW n \in Runs PROVE AcksOf(n)'
    BY <1>1, <1>2, <1>3 DEF SidecarInv, AcksInv, AcksOf, Ahead
  <1>5. QED
    BY <1>1, <1>4 DEF SidecarInv, AcksInv

\* A handler is that of its command.
LEMMA NextCommandInv == ASSUME SidecarInv, Next PROVE CommandInv'
  <1> USE DEF SidecarInv, CommandInv
  <1>1. CASE ReadCommand \/ EndOfInput
    BY <1>1 DEF ReadCommand, EndOfInput
  <1>2. CASE Refuse \/ Mismatch \/ Hello \/ EmitAfterAck \/ StartRun \/ Report \/ Shutdown
    BY <1>2 DEF Refuse, Mismatch, Refused, Hello, EmitAfterAck, StartRun, Report, Shutdown, Accepted
  <1>3. CASE MainLock \/ MainUnlock \/ Activate \/ AckRun \/ Announce \/ StartThread
    BY <1>3 DEF MainLock, MainUnlock, Activate, AckRun, Announce, StartThread
  <1>4. CASE Cancel \/ Status \/ StatusProbed
    BY <1>4 DEF Cancel, Status, StatusProbed, Accepted
  <1>5. CASE AskToFinish \/ EndOfGrace \/ CloseEngine \/ Exit
    BY <1>5 DEF AskToFinish, EndOfGrace, CloseEngine, Exit
  <1>6. ASSUME NEW r \in Runs, Runner(r) PROVE CommandInv'
    BY <1>6 DEF Runner, RunLock, RunUnlock, Event, Finish, Die, Clear, SetDone
  <1>7. QED
    BY <1>1, <1>2, <1>3, <1>4, <1>5, <1>6 DEF Next, Main

-----------------------------------------------------------------------------
(* Callers of the engine, and the live run *)

\* The main thread is in the engine client where its handlers call it.
LEMMA MainLockInv ==
  ASSUME SidecarInv, ReadCommand \/ EndOfInput \/ Main PROVE LockInv'
  <1> USE SidecarAssumption DEF SidecarInv, TypeOK, Runs, NoRun, MainThread, session, runs, rpc, output,
           LockInv
  <1>1. CASE ReadCommand
    BY <1>1 DEF ReadCommand
  <1>2. CASE EndOfInput
    BY <1>2 DEF EndOfInput
  <1>3. CASE Refuse
    BY <1>3 DEF Refuse, Refused
  <1>4. CASE Mismatch
    BY <1>4 DEF Mismatch, Refused
  <1>5. CASE Hello
    BY <1>5 DEF Hello
  <1>6. CASE StartRun
    BY <1>6 DEF StartRun, Accepted, Live
  <1>7. CASE MainLock
    BY <1>7 DEF MainLock
  <1>8. CASE MainUnlock
    BY <1>8 DEF MainUnlock
  <1>9. CASE Activate
    BY <1>9 DEF Activate
  <1>10. CASE AckRun
    BY <1>10 DEF AckRun
  <1>11. CASE Announce
    BY <1>11 DEF Announce
  <1>12. CASE StartThread
    <2>1. read \in Runs /\ run_thread[read] = "none"
      BY <1>12 DEF StartThread, AcksInv, ActiveInv, AtCommand, AfterAck
    <2>2. QED
      BY <1>12, <2>1 DEF StartThread
  <1>13. CASE Cancel
    BY <1>13 DEF Cancel, Accepted
  <1>14. CASE Status
    BY <1>14 DEF Status, Accepted, Live
  <1>15. CASE StatusProbed
    BY <1>15 DEF StatusProbed
  <1>16. CASE Report
    BY <1>16 DEF Report, Accepted
  <1>17. CASE Shutdown
    BY <1>17 DEF Shutdown
  <1>18. CASE AskToFinish
    BY <1>18 DEF AskToFinish, Live
  <1>19. CASE EndOfGrace
    BY <1>19 DEF EndOfGrace
  <1>20. CASE CloseEngine
    BY <1>20 DEF CloseEngine
  <1>21. CASE Exit
    BY <1>21 DEF Exit
  <1>22. CASE EmitAfterAck
    BY <1>22 DEF EmitAfterAck
  <1>23. QED
    BY <1>1, <1>2, <1>3, <1>4, <1>5, <1>6, <1>7, <1>8, <1>9, <1>10, <1>11, <1>12, <1>13, <1>14,
       <1>15, <1>16, <1>17, <1>18, <1>19, <1>20, <1>21, <1>22
    DEF Main

\* A run is in the engine client while it has the lock.
LEMMA RunnerLockInv ==
  ASSUME SidecarInv, NEW r \in Runs, Runner(r) PROVE LockInv'
  <1> USE SidecarAssumption DEF SidecarInv, TypeOK, Runs, NoRun, MainThread, session, runs, rpc, output,
           Running, LockInv
  <1>1. CASE RunLock(r)
    BY <1>1 DEF RunLock
  <1>2. CASE RunUnlock(r)
    BY <1>2 DEF RunUnlock
  <1>3. CASE Event(r)
    BY <1>3 DEF Event, Wrote
  <1>4. CASE Finish(r)
    BY <1>4 DEF Finish, Wrote
  <1>5. CASE Clear(r)
    BY <1>5 DEF Clear
  <1>6. CASE SetDone(r)
    BY <1>6 DEF SetDone
  <1>7. CASE Die(r)
    BY <1>7 DEF Die
  <1>8. QED
    BY <1>1, <1>2, <1>3, <1>4, <1>5, <1>6, <1>7 DEF Runner

\* The main thread makes a run the live one only when there is none.
LEMMA MainActiveInv ==
  ASSUME SidecarInv, ReadCommand \/ EndOfInput \/ Main PROVE ActiveInv'
  <1> USE SidecarAssumption DEF SidecarInv, TypeOK, Runs, NoRun, MainThread, session, runs, rpc, output,
           ActiveInv, AtCommand, AfterAck, Unanswered, AcksInv, CommandInv
  <1>1. CASE ReadCommand
    BY <1>1 DEF ReadCommand
  <1>2. CASE EndOfInput
    BY <1>2 DEF EndOfInput
  <1>3. CASE Refuse
    BY <1>3 DEF Refuse, Refused
  <1>4. CASE Mismatch
    BY <1>4 DEF Mismatch, Refused
  <1>5. CASE Hello
    BY <1>5 DEF Hello
  <1>6. CASE StartRun
    BY <1>6 DEF StartRun, Accepted, Live
  <1>7. CASE MainLock
    BY <1>7 DEF MainLock
  <1>8. CASE MainUnlock
    BY <1>8 DEF MainUnlock
  <1>9. CASE Activate
    BY <1>9 DEF Activate
  <1>10. CASE AckRun
    BY <1>10 DEF AckRun
  <1>11. CASE Announce
    BY <1>11 DEF Announce
  <1>12. CASE StartThread
    BY <1>12 DEF StartThread
  <1>13. CASE Cancel
    BY <1>13 DEF Cancel, Accepted
  <1>14. CASE Status
    BY <1>14 DEF Status, Accepted, Live
  <1>15. CASE StatusProbed
    BY <1>15 DEF StatusProbed
  <1>16. CASE Report
    BY <1>16 DEF Report, Accepted
  <1>17. CASE Shutdown
    BY <1>17 DEF Shutdown
  <1>18. CASE AskToFinish
    BY <1>18 DEF AskToFinish, Live
  <1>19. CASE EndOfGrace
    BY <1>19 DEF EndOfGrace
  <1>20. CASE CloseEngine
    BY <1>20 DEF CloseEngine
  <1>21. CASE Exit
    BY <1>21 DEF Exit
  <1>22. CASE EmitAfterAck
    BY <1>22 DEF EmitAfterAck
  <1>23. QED
    BY <1>1, <1>2, <1>3, <1>4, <1>5, <1>6, <1>7, <1>8, <1>9, <1>10, <1>11, <1>12, <1>13, <1>14,
       <1>15, <1>16, <1>17, <1>18, <1>19, <1>20, <1>21, <1>22
    DEF Main

\* A run that is over is not the live one.
LEMMA RunnerActiveInv ==
  ASSUME SidecarInv, NEW r \in Runs, Runner(r) PROVE ActiveInv'
  <1> USE SidecarAssumption DEF SidecarInv, TypeOK, Runs, NoRun, MainThread, session, runs, rpc, output,
           Running, ActiveInv, AtCommand, AfterAck, Unanswered, AcksInv, CommandInv,
           LockInv
  <1>1. CASE RunLock(r)
    BY <1>1 DEF RunLock
  <1>2. CASE RunUnlock(r)
    BY <1>2 DEF RunUnlock
  <1>3. CASE Event(r)
    BY <1>3 DEF Event, Wrote
  <1>4. CASE Finish(r)
    BY <1>4 DEF Finish, Wrote
  <1>5. CASE Clear(r)
    BY <1>5 DEF Clear
  <1>6. CASE SetDone(r)
    BY <1>6 DEF SetDone
  <1>7. CASE Die(r)
    BY <1>7 DEF Die
  <1>8. QED
    BY <1>1, <1>2, <1>3, <1>4, <1>5, <1>6, <1>7 DEF Runner

\* A run is given its first frames while it is the live one ...
LEMMA MainHalfBegunInv ==
  ASSUME SidecarInv, ReadCommand \/ EndOfInput \/ Main PROVE HalfBegunInv'
  <1> USE DEF session, runs, rpc, output
  <1>1. CASE AckRun \/ (Announce /\ Wrote(read, "started"))
    <2>1. /\ read \in Runs /\ active = read /\ UNCHANGED <<active, run_thread>>
          /\ \E kind \in Kinds : frames' = [frames EXCEPT ![read] = Append(@, kind)]
      BY <1>1 DEF AckRun, Announce, Wrote, SidecarInv, AcksInv, ActiveInv, AtCommand, AfterAck,
         Unanswered, Kinds
    <2>2. \A q \in Runs \ {read} : frames'[q] = frames[q]
      BY <2>1 DEF SidecarInv, TypeOK
    <2>3. QED
      BY <2>1, <2>2 DEF SidecarInv, HalfBegunInv, HalfBegun
  <1>2. CASE StartThread
    <2>1. /\ read \in Runs /\ UNCHANGED <<active, frames>>
          /\ UNCHANGED run_thread \/ run_thread' = [run_thread EXCEPT ![read] = "working"]
      BY <1>2 DEF StartThread, SidecarInv, AcksInv, AtCommand, AfterAck
    <2>2. \A q \in Runs : run_thread'[q] = "none" => run_thread[q] = "none"
      BY <2>1 DEF SidecarInv, TypeOK
    <2>3. QED
      BY <2>1, <2>2 DEF SidecarInv, HalfBegunInv, HalfBegun
  <1>3. CASE Activate
    <2>1. active = NoRun /\ UNCHANGED <<frames, run_thread>>
      BY <1>3 DEF Activate, SidecarInv, CommandInv, ActiveInv
    <2>2. QED
      BY <2>1, SidecarAssumption DEF SidecarInv, HalfBegunInv, HalfBegun, NoRun, Runs
  <1>4. ASSUME UNCHANGED <<active, frames, run_thread>> PROVE HalfBegunInv'
    BY <1>4 DEF SidecarInv, HalfBegunInv, HalfBegun
  <1>5. CASE ReadCommand \/ EndOfInput
    BY <1>4, <1>5 DEF ReadCommand, EndOfInput
  <1>6. CASE Refuse \/ Mismatch \/ Hello \/ EmitAfterAck \/ StartRun \/ Report \/ Shutdown
    BY <1>4, <1>6 DEF Refuse, Mismatch, Refused, Hello, EmitAfterAck, StartRun, Report, Shutdown
  <1>7. CASE MainLock \/ MainUnlock \/ Cancel \/ Status \/ StatusProbed
    BY <1>4, <1>7 DEF MainLock, MainUnlock, Cancel, Status, StatusProbed
  <1>8. CASE Announce /\ UNCHANGED frames
    BY <1>4, <1>8 DEF Announce
  <1>9. CASE AskToFinish \/ EndOfGrace \/ CloseEngine \/ Exit
    BY <1>4, <1>9 DEF AskToFinish, EndOfGrace, CloseEngine, Exit
  <1>10. Announce => Wrote(read, "started") \/ UNCHANGED frames
    BY DEF Announce
  <1>11. QED
    BY <1>1, <1>2, <1>3, <1>5, <1>6, <1>7, <1>8, <1>9, <1>10 DEF Main

\* ... and only the live run is cleared.
LEMMA RunnerHalfBegunInv ==
  ASSUME SidecarInv, NEW r \in Runs, Runner(r) PROVE HalfBegunInv'
  <1> USE DEF session, runs, rpc, output
  <1>1. run_thread[r] # "none" /\ run_thread'[r] # "none"
    BY DEF Runner, RunLock, RunUnlock, Event, Finish, Die, Clear, SetDone, SidecarInv, TypeOK
  <1>2. \A q \in Runs \ {r} : run_thread'[q] = run_thread[q] /\ frames'[q] = frames[q]
    BY DEF Runner, RunLock, RunUnlock, Event, Finish, Die, Clear, SetDone, Wrote, SidecarInv, TypeOK
  <1>3. active' = active \/ active = r
    BY DEF Runner, RunLock, RunUnlock, Event, Finish, Die, Clear, SetDone
  <1>4. QED
    BY <1>1, <1>2, <1>3 DEF SidecarInv, HalfBegunInv, HalfBegun

-----------------------------------------------------------------------------
(* Frames *)

\* Frames stay well formed when nothing is written and no run is being begun.
LEMMA FramesUntouched ==
  ASSUME SidecarInv, UNCHANGED <<frames, run_thread>>, main' \notin {"announce", "start"},
         \/ main = "read" /\ read' = read + 1
         \/ UNCHANGED read /\ (main' \in Unanswered => main \in Unanswered)
  PROVE  FramesInv'
  BY DEF SidecarInv, TypeOK, FramesInv, FramesOf, Ahead, Unanswered, Runs

\* The frames of the runs a step leaves alone stay well formed.
LEMMA OthersFramed ==
  ASSUME SidecarInv, NEW r \in Runs, UNCHANGED read,
         \A q \in Runs \ {r} : frames'[q] = frames[q] /\ run_thread'[q] = run_thread[q],
         FramesOf(r)',
         \/ r = read
         \/ UNCHANGED main
  PROVE  FramesInv'
  <1> SUFFICES ASSUME NEW q \in Runs, q # r PROVE FramesOf(q)'
    BY DEF FramesInv
  <1>1. FramesOf(q)
    BY DEF SidecarInv, FramesInv
  <1>2. frames'[q] = frames[q] /\ run_thread'[q] = run_thread[q]
    OBVIOUS
  <1>3. QED
    BY <1>1, <1>2 DEF FramesOf, Ahead

\* Of the command at hand, run_thread and frames are what its handler made them.
LEMMA AtBeginning ==
  ASSUME SidecarInv, main \in {"ack", "announce", "start"}
  PROVE  read \in Runs /\ run_thread[read] = "none" /\ FramesOf(read)
  BY DEF SidecarInv, AcksInv, ActiveInv, AtCommand, AfterAck, Unanswered, FramesInv

\* The histories of the runs are sequences of kinds.
LEMMA FramesAreFunction ==
  ASSUME SidecarInv
  PROVE  frames \in [Runs -> Seq(Kinds)]
  BY DEF SidecarInv, TypeOK, Kinds

\* The main thread writes the first two frames of a run before it starts its thread.
LEMMA MainFramesInv ==
  ASSUME SidecarInv, ReadCommand \/ EndOfInput \/ Main PROVE FramesInv'
  <1> USE DEF runs, output
  <1>1. CASE ReadCommand
    BY <1>1, FramesUntouched DEF ReadCommand, Unanswered
  <1>2. CASE EndOfInput
    BY <1>2, FramesUntouched DEF EndOfInput, Unanswered
  <1>3. CASE Refuse
    BY <1>3, FramesUntouched DEF Refuse, Refused, Unanswered
  <1>4. CASE Mismatch
    BY <1>4, FramesUntouched DEF Mismatch, Refused, Unanswered
  <1>5. CASE Hello
    BY <1>5, FramesUntouched DEF Hello, Unanswered
  <1>6. CASE StartRun
    BY <1>6, FramesUntouched DEF StartRun, Accepted, Live, Unanswered
  <1>7. CASE MainLock
    BY <1>7, FramesUntouched DEF MainLock, Unanswered
  <1>8. CASE MainUnlock
    BY <1>8, FramesUntouched DEF MainUnlock, Unanswered
  <1>9. CASE Activate
    BY <1>9, FramesUntouched DEF Activate, Unanswered
  <1>10. CASE AckRun
    <2>1. /\ UNCHANGED <<read, run_thread>> /\ main = "ack" /\ main' = "announce"
          /\ frames' = [frames EXCEPT ![read] = Append(frames[read], "ack")]
      BY <1>10 DEF AckRun, Wrote, runs
    <2>2. read \in Runs /\ run_thread[read] = "none" /\ frames[read] = <<>>
      BY <2>1, AtBeginning DEF FramesOf, Ahead, Unanswered
    <2>3. frames'[read] = <<"ack">> /\ \A q \in Runs \ {read} : frames'[q] = frames[q]
      BY <2>1, <2>2, FramesAreFunction
    <2>4. FramesOf(read)'
      BY <2>1, <2>2, <2>3, SidecarAssumption DEF FramesOf, Ahead, Unanswered, Runs
    <2>5. QED
      BY <2>1, <2>2, <2>3, <2>4, OthersFramed
  <1>11. CASE Announce
    <2>1. UNCHANGED <<read, run_thread>> /\ main = "announce"
      BY <1>11 DEF Announce, runs
    <2>2. read \in Runs /\ run_thread[read] = "none" /\ frames[read] = <<"ack">>
      BY <2>1, AtBeginning DEF FramesOf
    <2>3. CASE UNCHANGED frames /\ main' = "read"
      BY <2>1, <2>3, FramesUntouched DEF Unanswered
    <2>4. CASE Wrote(read, "started") /\ main' = "start"
      <3>1. frames' = [frames EXCEPT ![read] = Append(<<"ack">>, "started")]
        BY <2>2, <2>4 DEF Wrote
      <3>2. /\ frames'[read] = <<"ack", "started">>
            /\ \A q \in Runs \ {read} : frames'[q] = frames[q]
        BY <2>2, <3>1, FramesAreFunction, AppendedPairs
      <3>3. FramesOf(read)'
        BY <2>1, <2>2, <2>4, <3>2, SidecarAssumption DEF FramesOf, Ahead, Unanswered, Runs
      <3>4. QED
        BY <2>1, <2>2, <3>2, <3>3, OthersFramed
    <2>5. QED
      BY <1>11, <2>3, <2>4 DEF Announce
  <1>12. CASE StartThread
    <2>1. UNCHANGED <<read, frames>> /\ main = "start" /\ main' = "read"
      BY <1>12 DEF StartThread
    <2>2. read \in Runs /\ run_thread[read] = "none" /\ frames[read] = <<"ack", "started">>
      BY <2>1, AtBeginning DEF FramesOf
    <2>3. CASE UNCHANGED run_thread
      BY <2>1, <2>3, FramesUntouched DEF Unanswered
    <2>4. CASE run_thread' = [run_thread EXCEPT ![read] = "working"]
      <3>1. /\ run_thread'[read] = "working"
            /\ \A q \in Runs \ {read} : run_thread'[q] = run_thread[q]
        BY <2>2, <2>4 DEF SidecarInv, TypeOK
      <3>2. FramesOf(read)'
        BY <2>1, <2>2, <3>1 DEF FramesOf
      <3>3. QED
        BY <2>1, <2>2, <3>1, <3>2, OthersFramed
    <2>5. QED
      BY <1>12, <2>3, <2>4 DEF StartThread
  <1>13. CASE Cancel
    BY <1>13, FramesUntouched DEF Cancel, Accepted, Unanswered
  <1>14. CASE Status
    BY <1>14, FramesUntouched DEF Status, Accepted, Live, Unanswered
  <1>15. CASE StatusProbed
    BY <1>15, FramesUntouched DEF StatusProbed, Unanswered
  <1>16. CASE Report
    BY <1>16, FramesUntouched DEF Report, Accepted, Unanswered
  <1>17. CASE Shutdown
    BY <1>17, FramesUntouched DEF Shutdown, Unanswered
  <1>18. CASE AskToFinish
    BY <1>18, FramesUntouched DEF AskToFinish, Live, Unanswered
  <1>19. CASE EndOfGrace
    BY <1>19, FramesUntouched DEF EndOfGrace, Unanswered
  <1>20. CASE CloseEngine
    BY <1>20, FramesUntouched DEF CloseEngine, Unanswered
  <1>21. CASE Exit
    BY <1>21, FramesUntouched DEF Exit, Unanswered
  <1>22. CASE EmitAfterAck
    BY <1>22, FramesUntouched DEF EmitAfterAck, Unanswered
  <1>23. QED
    BY <1>1, <1>2, <1>3, <1>4, <1>5, <1>6, <1>7, <1>8, <1>9, <1>10, <1>11, <1>12, <1>13, <1>14,
       <1>15, <1>16, <1>17, <1>18, <1>19, <1>20, <1>21, <1>22
    DEF Main

\* A run that works emits events, and last that it has finished.
LEMMA RunnerFramesInv ==
  ASSUME SidecarInv, NEW r \in Runs, Runner(r) PROVE FramesInv'
  <1>1. CASE RunLock(r)
    <2>1. UNCHANGED <<read, main, frames>>
      BY <1>1 DEF RunLock, output
    <2>2. run_thread[r] = "working" /\ run_thread' = [run_thread EXCEPT ![r] = "rpc"]
      BY <1>1 DEF RunLock
    <2>3. run_thread'[r] = "rpc" /\ \A q \in Runs \ {r} : run_thread'[q] = run_thread[q]
      BY <2>2 DEF SidecarInv, TypeOK
    <2>4. FramesOf(r)'
      BY <2>1, <2>2, <2>3 DEF SidecarInv, FramesInv, FramesOf, Ahead
    <2>5. QED
      BY <2>1, <2>3, <2>4, OthersFramed
  <1>2. CASE RunUnlock(r)
    <2>1. UNCHANGED <<read, main, frames>>
      BY <1>2 DEF RunUnlock, output
    <2>2. run_thread[r] = "rpc" /\ run_thread' = [run_thread EXCEPT ![r] = "working"]
      BY <1>2 DEF RunUnlock
    <2>3. run_thread'[r] = "working" /\ \A q \in Runs \ {r} : run_thread'[q] = run_thread[q]
      BY <2>2 DEF SidecarInv, TypeOK
    <2>4. FramesOf(r)'
      BY <2>1, <2>2, <2>3 DEF SidecarInv, FramesInv, FramesOf, Ahead
    <2>5. QED
      BY <2>1, <2>3, <2>4, OthersFramed
  <1>3. CASE Event(r)
    <2>1. /\ UNCHANGED <<read, main>> /\ Wrote(r, "event") /\ run_thread[r] = "working"
          /\ run_thread' = [run_thread EXCEPT ![r] = "working"]
      BY <1>3, FramesAreFunction DEF Event, Running, runs, SidecarInv, TypeOK
    <2>2. /\ frames[r] \in Seq(Kinds) /\ frames'[r] \in Seq(Kinds)
          /\ Len(frames'[r]) = Len(frames[r]) + 1
          /\ frames'[r][Len(frames[r]) + 1] = "event"
          /\ \A i \in 1 .. Len(frames[r]) : frames'[r][i] = frames[r][i]
          /\ \A q \in Runs \ {r} : frames'[q] = frames[q]
      BY <2>1, WroteAppends, FramesAreFunction DEF Kinds
    <2>3. /\ Len(frames[r]) >= 2 /\ frames[r][1] = "ack" /\ frames[r][2] = "started"
          /\ \A i \in 3 .. Len(frames[r]) : frames[r][i] = "event"
      BY <2>1, <2>2 DEF SidecarInv, FramesInv, FramesOf, Ahead
    <2>4. run_thread'[r] = "working" /\ \A q \in Runs \ {r} : run_thread'[q] = run_thread[q]
      BY <2>1 DEF SidecarInv, TypeOK
    <2>5. FramesOf(r)'
      <3> DEFINE n == Len(frames[r])
      <3>1. n \in Nat /\ n >= 2 /\ Len(frames'[r]) = n + 1
        BY <2>2, <2>3
      <3>2. frames'[r][1] = "ack" /\ frames'[r][2] = "started" /\ frames'[r][n + 1] = "event"
        BY <2>2, <2>3, <3>1
      <3>3. \A i \in 3 .. n : frames'[r][i] = "event"
        BY <2>2, <2>3, <3>1
      <3> HIDE DEF n
      <3>4. \A i \in 3 .. n + 1 : i = n + 1 \/ i \in 3 .. n
        BY <3>1
      <3>5. \A i \in 3 .. Len(frames'[r]) :
              /\ frames'[r][i] \in {"event", "finished"}
              /\ frames'[r][i] = "finished" => i = Len(frames'[r])
        BY <3>1, <3>2, <3>3, <3>4
      <3>6. QED
        BY <2>4, <3>1, <3>2, <3>5 DEF FramesOf, Ahead
    <2>6. QED
      BY <2>1, <2>2, <2>4, <2>5, OthersFramed
  <1>4. CASE Finish(r)
    <2>1. /\ UNCHANGED <<read, main>> /\ Wrote(r, "finished") /\ run_thread[r] = "working"
          /\ run_thread' = [run_thread EXCEPT ![r] = "clearing"]
      BY <1>4, FramesAreFunction DEF Finish, SidecarInv, TypeOK
    <2>2. /\ frames[r] \in Seq(Kinds) /\ frames'[r] \in Seq(Kinds)
          /\ Len(frames'[r]) = Len(frames[r]) + 1
          /\ frames'[r][Len(frames[r]) + 1] = "finished"
          /\ \A i \in 1 .. Len(frames[r]) : frames'[r][i] = frames[r][i]
          /\ \A q \in Runs \ {r} : frames'[q] = frames[q]
      BY <2>1, WroteAppends, FramesAreFunction DEF Kinds
    <2>3. /\ Len(frames[r]) >= 2 /\ frames[r][1] = "ack" /\ frames[r][2] = "started"
          /\ \A i \in 3 .. Len(frames[r]) : frames[r][i] = "event"
      BY <2>1, <2>2 DEF SidecarInv, FramesInv, FramesOf, Ahead
    <2>4. run_thread'[r] = "clearing" /\ \A q \in Runs \ {r} : run_thread'[q] = run_thread[q]
      BY <2>1 DEF SidecarInv, TypeOK
    <2>5. FramesOf(r)'
      <3> DEFINE n == Len(frames[r])
      <3>1. n \in Nat /\ n >= 2 /\ Len(frames'[r]) = n + 1
        BY <2>2, <2>3
      <3>2. frames'[r][1] = "ack" /\ frames'[r][2] = "started" /\ frames'[r][n + 1] = "finished"
        BY <2>2, <2>3, <3>1
      <3>3. \A i \in 3 .. n : frames'[r][i] = "event"
        BY <2>2, <2>3, <3>1
      <3> HIDE DEF n
      <3>4. \A i \in 3 .. n + 1 : i = n + 1 \/ i \in 3 .. n
        BY <3>1
      <3>5. \A i \in 3 .. Len(frames'[r]) :
              /\ frames'[r][i] \in {"event", "finished"}
              /\ frames'[r][i] = "finished" => i = Len(frames'[r])
        BY <3>1, <3>2, <3>3, <3>4
      <3>6. QED
        BY <2>4, <3>1, <3>2, <3>5 DEF FramesOf, Ahead
    <2>6. QED
      BY <2>1, <2>2, <2>4, <2>5, OthersFramed
  <1>5. CASE Clear(r)
    <2>1. UNCHANGED <<read, main, frames>>
      BY <1>5 DEF Clear, output
    <2>2. run_thread[r] = "clearing" /\ run_thread' = [run_thread EXCEPT ![r] = "setting"]
      BY <1>5 DEF Clear
    <2>3. run_thread'[r] = "setting" /\ \A q \in Runs \ {r} : run_thread'[q] = run_thread[q]
      BY <2>2 DEF SidecarInv, TypeOK
    <2>4. FramesOf(r)'
      BY <2>1, <2>2, <2>3 DEF SidecarInv, FramesInv, FramesOf, Ahead
    <2>5. QED
      BY <2>1, <2>3, <2>4, OthersFramed
  <1>6. CASE SetDone(r)
    <2>1. UNCHANGED <<read, main, frames>>
      BY <1>6 DEF SetDone, output
    <2>2. run_thread[r] = "setting" /\ run_thread' = [run_thread EXCEPT ![r] = "over"]
      BY <1>6 DEF SetDone
    <2>3. run_thread'[r] = "over" /\ \A q \in Runs \ {r} : run_thread'[q] = run_thread[q]
      BY <2>2 DEF SidecarInv, TypeOK
    <2>4. FramesOf(r)'
      BY <2>1, <2>2, <2>3 DEF SidecarInv, FramesInv, FramesOf, Ahead
    <2>5. QED
      BY <2>1, <2>3, <2>4, OthersFramed
  <1>7. CASE Die(r)
    <2>1. UNCHANGED <<read, main, frames>>
      BY <1>7 DEF Die, output
    <2>2. run_thread[r] = "working" /\ run_thread' = [run_thread EXCEPT ![r] = "dead"]
      BY <1>7 DEF Die
    <2>3. run_thread'[r] = "dead" /\ \A q \in Runs \ {r} : run_thread'[q] = run_thread[q]
      BY <2>2 DEF SidecarInv, TypeOK
    <2>4. FramesOf(r)'
      BY <2>1, <2>2, <2>3 DEF SidecarInv, FramesInv, FramesOf
    <2>5. QED
      BY <2>1, <2>3, <2>4, OthersFramed
  <1>8. QED
    BY <1>1, <1>2, <1>3, <1>4, <1>5, <1>6, <1>7 DEF Runner

-----------------------------------------------------------------------------
(* Shutdown *)

\* The engine is closed only when no run works, or the grace ran out.
LEMMA MainShutdownInv ==
  ASSUME SidecarInv, ReadCommand \/ EndOfInput \/ Main PROVE ShutdownInv'
  <1> USE SidecarAssumption DEF SidecarInv, TypeOK, Runs, NoRun, MainThread, session, runs, rpc, output,
           ShutdownInv, Unfinished, HalfBegun, HalfBegunInv, ActiveInv, AtCommand, AfterAck,
           Unanswered
  <1>1. CASE ReadCommand
    BY <1>1 DEF ReadCommand
  <1>2. CASE EndOfInput
    BY <1>2 DEF EndOfInput
  <1>3. CASE Refuse
    BY <1>3 DEF Refuse, Refused
  <1>4. CASE Mismatch
    BY <1>4 DEF Mismatch, Refused
  <1>5. CASE Hello
    BY <1>5 DEF Hello
  <1>6. CASE StartRun
    BY <1>6 DEF StartRun, Accepted, Live
  <1>7. CASE MainLock
    BY <1>7 DEF MainLock
  <1>8. CASE MainUnlock
    BY <1>8 DEF MainUnlock
  <1>9. CASE Activate
    BY <1>9 DEF Activate
  <1>10. CASE AckRun
    BY <1>10 DEF AckRun
  <1>11. CASE Announce
    BY <1>11 DEF Announce
  <1>12. CASE StartThread
    BY <1>12 DEF StartThread
  <1>13. CASE Cancel
    BY <1>13 DEF Cancel, Accepted
  <1>14. CASE Status
    BY <1>14 DEF Status, Accepted, Live
  <1>15. CASE StatusProbed
    BY <1>15 DEF StatusProbed
  <1>16. CASE Report
    BY <1>16 DEF Report, Accepted
  <1>17. CASE Shutdown
    BY <1>17 DEF Shutdown
  <1>18. CASE AskToFinish
    BY <1>18 DEF AskToFinish, Live
  <1>19. CASE EndOfGrace
    BY <1>19 DEF EndOfGrace
  <1>20. CASE CloseEngine
    BY <1>20 DEF CloseEngine
  <1>21. CASE Exit
    BY <1>21 DEF Exit
  <1>22. CASE EmitAfterAck
    BY <1>22 DEF EmitAfterAck
  <1>23. QED
    BY <1>1, <1>2, <1>3, <1>4, <1>5, <1>6, <1>7, <1>8, <1>9, <1>10, <1>11, <1>12, <1>13, <1>14,
       <1>15, <1>16, <1>17, <1>18, <1>19, <1>20, <1>21, <1>22
    DEF Main

\* No run begins to work on its own.
LEMMA RunnerShutdownInv ==
  ASSUME SidecarInv, NEW r \in Runs, Runner(r) PROVE ShutdownInv'
  <1> USE SidecarAssumption DEF SidecarInv, TypeOK, Runs, NoRun, MainThread, session, runs, rpc, output,
           Running, ShutdownInv, Unfinished, HalfBegun, LockInv, ActiveInv, AtCommand, AfterAck,
           Unanswered, AcksInv
  <1>1. CASE RunLock(r)
    BY <1>1 DEF RunLock
  <1>2. CASE RunUnlock(r)
    BY <1>2 DEF RunUnlock
  <1>3. CASE Event(r)
    BY <1>3 DEF Event, Wrote
  <1>4. CASE Finish(r)
    BY <1>4 DEF Finish, Wrote
  <1>5. CASE Clear(r)
    BY <1>5 DEF Clear
  <1>6. CASE SetDone(r)
    BY <1>6 DEF SetDone
  <1>7. CASE Die(r)
    BY <1>7 DEF Die
  <1>8. QED
    BY <1>1, <1>2, <1>3, <1>4, <1>5, <1>6, <1>7 DEF Runner

-----------------------------------------------------------------------------
(* The invariant holds *)

\* Before the first command nothing has begun.
LEMMA InitSidecar == Init => SidecarInv
  <1> SUFFICES ASSUME Init PROVE SidecarInv
    OBVIOUS
  <1> USE SidecarAssumption DEF Init, Runs, NoRun, MainThread, Commands
  <1>1. TypeOK
    <2>1. <<>> \in Seq({"ack", "started", "event", "finished"})
      OBVIOUS
    <2>2. frames \in [Runs -> Seq({"ack", "started", "event", "finished"})]
      BY <2>1
    <2>3. MaxCommands \in Nat /\ finalize \in [Runs -> BOOLEAN]
      OBVIOUS
    <2>4. main = "read" /\ read \in 0 .. MaxCommands /\ acks \in [Runs -> Seq({"ok", "error"})]
      BY <2>3
    <2>5. QED
      BY <2>2, <2>3, <2>4 DEF TypeOK
  <1>2. AcksInv /\ CommandInv /\ LockInv
    BY DEF AcksInv, AcksOf, Ahead, CommandInv, LockInv, AtCommand, AfterAck, Unanswered
  <1>3. ActiveInv /\ HalfBegunInv /\ FramesInv /\ ShutdownInv
    BY DEF ActiveInv, HalfBegunInv, HalfBegun, FramesInv, FramesOf, Ahead, ShutdownInv,
       AtCommand, AfterAck, Unanswered
  <1>4. QED
    BY <1>1, <1>2, <1>3 DEF SidecarInv

\* Every step of the main thread and of a run keeps the invariant.
LEMMA NextSidecar == SidecarInv /\ [Next]_vars => SidecarInv'
  <1> SUFFICES ASSUME SidecarInv, [Next]_vars PROVE SidecarInv'
    OBVIOUS
  <1>1. CASE ReadCommand \/ EndOfInput \/ Main
    BY <1>1, MainTypeOK, MainAcksInv, NextCommandInv, MainLockInv, MainActiveInv,
       MainHalfBegunInv, MainFramesInv, MainShutdownInv
    DEF SidecarInv, Next
  <1>2. ASSUME NEW r \in Runs, Runner(r) PROVE SidecarInv'
    BY <1>2, RunnerTypeOK, RunnerAcksInv, NextCommandInv, RunnerLockInv, RunnerActiveInv,
       RunnerHalfBegunInv, RunnerFramesInv, RunnerShutdownInv
    DEF SidecarInv, Next
  <1>3. CASE UNCHANGED vars
    BY <1>3 DEF vars, session, runs, rpc, output, SidecarInv, TypeOK, AcksInv, AcksOf, Ahead,
       CommandInv, LockInv, ActiveInv, HalfBegunInv, HalfBegun, FramesInv, FramesOf, ShutdownInv,
       Unfinished
  <1>4. QED
    BY <1>1, <1>2, <1>3 DEF Next

\* It holds in every reachable state.
LEMMA SidecarInvariant == Spec => []SidecarInv
  BY InitSidecar, NextSidecar, PTL DEF Spec

-----------------------------------------------------------------------------
(* What follows from it *)

\* Every reachable state has the types of TypeOK, and the holder of the lock is in the
\* engine client.
THEOREM SidecarTypeCorrect == Spec => []TypeOK
  <1>1. SidecarInv => TypeOK
    BY DEF SidecarInv
  <1>2. QED
    BY <1>1, SidecarInvariant, PTL

\* Every command has an answer before the next one is read, at most one more than the
\* "ok" it was accepted with, which is then an error; and no run goes on behind an error,
\* whatever its handler goes through (serve.py, handle_line).
THEOREM CommandsAnswered == Spec => []AnswersHold
  <1>1. ASSUME SidecarInv PROVE AnswersHold
    <2>1. \A n \in Runs : acks[n] \in {<<>>, <<"ok">>, <<"error">>, <<"ok", "error">>}
      BY <1>1 DEF SidecarInv, AcksInv, AcksOf
    <2>2. ASSUME main \in {"read", "closing"}, NEW n \in 1 .. read PROVE acks[n] # <<>>
      <3>1. n \in Runs /\ ~Ahead(n)
        BY <1>1, <2>2, SidecarAssumption DEF SidecarInv, TypeOK, Runs, Ahead, Unanswered
      <3>2. acks[n] \in {<<"ok">>, <<"error">>, <<"ok", "error">>}
        BY <1>1, <3>1 DEF SidecarInv, AcksInv, AcksOf
      <3>3. QED
        BY <3>2
    <2>3. \A r \in Runs : run_thread[r] # "none" => acks[r] = <<"ok">>
      BY <1>1 DEF SidecarInv, AcksInv, AcksOf
    <2>4. QED
      BY <2>1, <2>2, <2>3 DEF AnswersHold
  <1>2. QED
    BY <1>1, SidecarInvariant, PTL

\* The frames of a run are ack, run_started, events and run_finished in this order, for
\* any number of events, and no two runs are between their ends at a time.
THEOREM RunsFramed == Spec => []RunFramed
  <1>1. ASSUME SidecarInv, NEW r \in Runs, NEW i \in DOMAIN frames[r]
        PROVE  /\ i = 1 <=> frames[r][i] = "ack"
               /\ i = 2 <=> frames[r][i] = "started"
               /\ frames[r][i] = "finished" => i = Len(frames[r])
    <2>1. frames[r] \in Seq(Kinds) /\ i \in 1 .. Len(frames[r])
      BY <1>1 DEF SidecarInv, TypeOK, Kinds
    <2>2. CASE run_thread[r] = "none"
      BY <1>1, <2>1, <2>2 DEF SidecarInv, FramesInv, FramesOf
    <2>3. CASE run_thread[r] # "none"
      BY <1>1, <2>1, <2>3 DEF SidecarInv, FramesInv, FramesOf, Ahead
    <2>4. QED
      BY <2>2, <2>3
  <1>2. ASSUME SidecarInv PROVE Cardinality(Ongoing) <= 1
    <2>1. Ongoing \subseteq {active}
      BY <1>2 DEF SidecarInv, FramesInv, FramesOf, Ongoing, ActiveInv, HalfBegunInv, HalfBegun, TypeOK
    <2>2. IsFiniteSet({active}) /\ Cardinality({active}) = 1
      BY FS_Singleton
    <2>3. QED
      BY <2>1, <2>2, FS_Subset
  <1>3. SidecarInv => RunFramed
    BY <1>1, <1>2 DEF RunFramed
  <1>4. QED
    BY <1>3, SidecarInvariant, PTL

\* At no time are two threads inside the engine client, although the ping of status
\* takes no lock (serve.py, LockedClient).
THEOREM OneCaller == Spec => []SingleCaller
  <1>1. ASSUME SidecarInv, NEW x \in calling, NEW y \in calling PROVE x = y
    <2>1. x \in Runs \cup {MainThread} /\ y \in Runs \cup {MainThread}
      BY <1>1 DEF SidecarInv, TypeOK
    <2>2. ASSUME NEW r \in Runs, r \in calling PROVE rpc_lock = r /\ active = r
      BY <1>1, <2>2 DEF SidecarInv, LockInv, ActiveInv
    <2>3. MainThread \in calling => rpc_lock = MainThread \/ active = NoRun
      BY <1>1 DEF SidecarInv, LockInv, ActiveInv
    <2>4. NoRun \notin Runs /\ MainThread \notin Runs
      BY SidecarAssumption DEF NoRun, MainThread, Runs
    <2>5. QED
      BY <1>1, <2>1, <2>2, <2>3, <2>4
  <1>2. ASSUME SidecarInv PROVE SingleCaller
    <2>1. CASE calling = {}
      BY <2>1, FS_EmptySet DEF SingleCaller
    <2>2. CASE calling # {}
      <3>1. PICK x : calling = {x}
        BY <1>1, <1>2, <2>2
      <3>2. QED
        BY <3>1, FS_Singleton DEF SingleCaller
    <2>3. QED
      BY <2>1, <2>2
  <1>3. QED
    BY <1>2, SidecarInvariant, PTL

\* A run writes its run_finished before the engine is closed, unless the grace of the
\* shutdown ran out (serve.py, shutdown).
THEOREM NoRunCutShort == Spec => []FinishedBeforeClose
  <1>1. SidecarInv => FinishedBeforeClose
    BY DEF SidecarInv, ShutdownInv, Unfinished, HalfBegun, FramesInv, FramesOf,
       FinishedBeforeClose, Ongoing, TypeOK
  <1>2. QED
    BY <1>1, SidecarInvariant, PTL
=============================================================================
