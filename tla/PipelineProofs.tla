--------------------------- MODULE PipelineProofs ---------------------------
(***************************************************************************)
(* Proofs about Pipeline, for any feed, any capacities of the queues, any  *)
(* group size, any number of outputs per input, and any interleaving of    *)
(* the threads with one another, with failing writes and with the control  *)
(* handle.                                                                 *)
(***************************************************************************)
EXTENDS Pipeline, TLAPS

USE Zenon

-----------------------------------------------------------------------------
(* Runs of consecutive numbers *)

\* The n numbers that follow a.
Run(a, n) == [k \in 1..n |-> a + k]

\* A run is a sequence of its length.
LEMMA RunType ==
  ASSUME NEW a \in Nat, NEW n \in Nat
  PROVE  Run(a, n) \in Seq(Nat) /\ Len(Run(a, n)) = n
<1>1. Run(a, n) \in [1..n -> Nat]
  BY SMT DEF Run
<1>2. Run(a, n) \in Seq(Nat)
  BY <1>1, SMT
<1> QED  BY <1>1, <1>2, SMT

\* A sequence is a run when its elements count up.
LEMMA IsRun ==
  ASSUME NEW a \in Nat, NEW n \in Nat, NEW s \in Seq(Nat), Len(s) = n,
         \A k \in 1..n : s[k] = a + k
  PROVE  s = Run(a, n)
<1>1. s \in [1..n -> Nat]
  <2>1. \A z \in Seq(Nat) : z \in [1..Len(z) -> Nat]
    BY SMT
  <2> QED  BY <2>1
<1> QED  BY <1>1 DEF Run

\* The elements of a run.
LEMMA RunAt ==
  ASSUME NEW a \in Nat, NEW n \in Nat, NEW k \in 1..n
  PROVE  Run(a, n)[k] = a + k
BY DEF Run

\* The empty run.
LEMMA RunEmpty ==
  ASSUME NEW a \in Nat, NEW n \in Nat
  PROVE  Run(a, 0) = <<>> /\ (Run(a, n) = <<>> <=> n = 0)
<1>1. <<>> \in Seq(Nat) /\ Len(<<>>) = 0 /\ (\A k \in 1..0 : <<>>[k] = a + k) /\ 0 \in Nat
  BY SMT
<1>2. Run(a, 0) = <<>>
  BY <1>1, IsRun
<1> QED  BY <1>1, <1>2, RunType

\* A run of one.
LEMMA RunOne ==
  ASSUME NEW a \in Nat
  PROVE  <<a + 1>> = Run(a, 1)
<1>1. <<a + 1>> \in Seq(Nat) /\ Len(<<a + 1>>) = 1 /\ \A k \in 1..1 : <<a + 1>>[k] = a + k
  BY SMT
<1> QED  BY <1>1, IsRun

\* A run goes on.
LEMMA RunAppend ==
  ASSUME NEW a \in Nat, NEW n \in Nat
  PROVE  Append(Run(a, n), a + n + 1) = Run(a, n + 1)
<1>1. PICK r : r = Run(a, n)
  OBVIOUS
<1>2. r \in Seq(Nat) /\ Len(r) = n /\ \A k \in 1..n : r[k] = a + k
  BY <1>1, RunType, RunAt
<1>3. Append(r, a + n + 1) \in Seq(Nat) /\ Len(Append(r, a + n + 1)) = n + 1
  BY <1>2, SMT
<1>4. \A k \in 1..n + 1 : Append(r, a + n + 1)[k] = a + k
  BY <1>2, SMT
<1>5. n + 1 \in Nat
  BY SMT
<1>6. Append(r, a + n + 1) = Run(a, n + 1)
  BY <1>3, <1>4, <1>5, IsRun
<1> QED  BY <1>1, <1>6

\* Two runs that meet.
LEMMA RunConcat ==
  ASSUME NEW a \in Nat, NEW n \in Nat, NEW m \in Nat
  PROVE  Run(a, n) \o Run(a + n, m) = Run(a, n + m)
<1>0. a + n \in Nat /\ n + m \in Nat
  BY SMT
<1>1. PICK r, s : r = Run(a, n) /\ s = Run(a + n, m)
  OBVIOUS
<1>2. r \in Seq(Nat) /\ Len(r) = n /\ \A k \in 1..n : r[k] = a + k
  BY <1>1, RunType, RunAt
<1>3. s \in Seq(Nat) /\ Len(s) = m /\ \A k \in 1..m : s[k] = a + n + k
  BY <1>0, <1>1, RunType, RunAt
<1>4. \A x, y \in Seq(Nat) :
        /\ x \o y \in Seq(Nat) /\ Len(x \o y) = Len(x) + Len(y)
        /\ \A k \in 1..Len(x) + Len(y) : (x \o y)[k] = IF k <= Len(x) THEN x[k] ELSE y[k - Len(x)]
  BY SMT
<1>5. r \o s \in Seq(Nat) /\ Len(r \o s) = n + m
  BY <1>2, <1>3, <1>4
<1>6. \A k \in 1..n + m : (r \o s)[k] = IF k <= n THEN r[k] ELSE s[k - n]
  BY <1>2, <1>3, <1>4
<1>7. \A k \in 1..n + m : (r \o s)[k] = a + k
  BY <1>2, <1>3, <1>6, SMT
<1>8. r \o s = Run(a, n + m)
  BY <1>0, <1>5, <1>7, IsRun
<1> QED  BY <1>1, <1>8

\* Taking the first of a run.
LEMMA RunTake ==
  ASSUME NEW a \in Nat, NEW n \in Nat, n > 0
  PROVE  /\ Head(Run(a, n)) = a + 1
         /\ Tail(Run(a, n)) = Run(a + 1, n - 1)
<1>0. a + 1 \in Nat /\ n - 1 \in Nat /\ 1 \in 1..n
  BY SMT
<1>1. PICK r : r = Run(a, n)
  OBVIOUS
<1>2. r \in Seq(Nat) /\ Len(r) = n /\ \A k \in 1..n : r[k] = a + k
  BY <1>1, RunType, RunAt
<1>3. Head(r) = a + 1
  BY <1>0, <1>2, SMT
<1>4. Tail(r) \in Seq(Nat) /\ Len(Tail(r)) = n - 1 /\ \A k \in 1..n - 1 : Tail(r)[k] = r[k + 1]
  BY <1>2, SMT
<1>5. \A k \in 1..n - 1 : Tail(r)[k] = a + 1 + k
  BY <1>2, <1>4, SMT
<1>6. Tail(r) = Run(a + 1, n - 1)
  BY <1>0, <1>4, <1>5, IsRun
<1> QED  BY <1>1, <1>3, <1>6

\* A run cut in two.
LEMMA RunCut ==
  ASSUME NEW a \in Nat, NEW n \in Nat, NEW k \in 0..n
  PROVE  /\ SubSeq(Run(a, n), 1, k) = Run(a, k)
         /\ SubSeq(Run(a, n), k + 1, n) = Run(a + k, n - k)
<1>0. k \in Nat /\ n - k \in Nat /\ a + k \in Nat
  BY SMT
<1>1. PICK r : r = Run(a, n)
  OBVIOUS
<1>2. r \in Seq(Nat) /\ Len(r) = n /\ \A i \in 1..n : r[i] = a + i
  BY <1>1, RunType, RunAt
<1>3. /\ SubSeq(r, 1, k) \in Seq(Nat) /\ Len(SubSeq(r, 1, k)) = k
      /\ \A i \in 1..k : SubSeq(r, 1, k)[i] = r[i]
  BY <1>2, SMT
<1>4. \A i \in 1..k : SubSeq(r, 1, k)[i] = a + i
  BY <1>2, <1>3, SMT
<1>5. SubSeq(r, 1, k) = Run(a, k)
  BY <1>0, <1>3, <1>4, IsRun
<1>6. SubSeq(r, k + 1, n) \in Seq(Nat) /\ Len(SubSeq(r, k + 1, n)) = n - k
  BY <1>0, <1>2, SMT
<1>7. \A i \in 1..n - k : SubSeq(r, k + 1, n)[i] = a + k + i
  BY <1>0, <1>2, SMT
<1>8. SubSeq(r, k + 1, n) = Run(a + k, n - k)
  BY <1>0, <1>6, <1>7, IsRun
<1> QED  BY <1>1, <1>5, <1>8

\* A run from 0 and the one that follows it; and what a write moves over when
\* it gets through k of the second.
LEMMA RunJoin ==
  ASSUME NEW f \in Nat, NEW b \in Nat
  PROVE  Run(0, f) \o Run(f, b) = Run(0, f + b)
<1>1. 0 + f = f /\ 0 \in Nat
  BY SMT
<1>2. Run(0, f) \o Run(0 + f, b) = Run(0, f + b)
  BY <1>1, RunConcat
<1> QED  BY <1>1, <1>2

LEMMA RunMove ==
  ASSUME NEW f \in Nat, NEW b \in Nat, NEW k \in 0..b
  PROVE  /\ Run(0, f) \o SubSeq(Run(f, b), 1, k) = Run(0, f + k)
         /\ SubSeq(Run(f, b), k + 1, b) = Run(f + k, b - k)
<1>1. k \in Nat
  BY SMT
<1> QED  BY <1>1, RunCut, RunJoin

-----------------------------------------------------------------------------
(* The inductive invariant *)

Held(v, none) == IF v = none THEN 0 ELSE 1

\* The file, the buffer, the record in hand and the ring are consecutive
\* pieces of the outputs sent.
JournalRuns ==
    LET f == Len(file)
        b == Len(buffer)
        e == Held(event, 0)
        q == Len(output_q)
    IN  /\ file = Run(0, f) /\ buffer = Run(f, b)
        /\ output_pc = "append" => event # 0
        /\ ~journal_error =>
            /\ event # 0 => event = f + b + 1
            /\ output_q = Run(f + b + e, q)
            /\ output_seq = f + b + e + q + to_send

\* The pending input and the ring are consecutive pieces of the inputs fed.
InputRuns ==
    LET p == Held(pending, NoInput)
        i == Len(input_q)
        sent == applied_feed + p + i
    IN  /\ pending # NoInput => pending = applied_feed + 1
        /\ input_q = Run(applied_feed + p, i)
        /\ feed_pc = "check" => fed = sent
        /\ feed_pc \in {"send", "full"} => fed = sent + 1
        /\ feed_pc = "done" => fed = sent \/ (fed = sent + 1 /\ output_lost)

\* Where the engine holds an input, and where it may still have outputs to send.
EngineFlow ==
    /\ engine_pc \in {"recv", "recv_empty", "snapshot"} => pending = NoInput
    /\ engine_pc \in {"check", "kill", "commands", "apply"} => pending # NoInput
    /\ engine_pc \in {"send", "full"} =>
        /\ to_send > 0 /\ resume \in {"commands", "snapshot"}
        /\ pending = NoInput <=> resume = "snapshot"
    /\ engine_pc \notin {"send", "full", "finish", "done"} => to_send = 0
    /\ engine_pc \in {"finish", "done"} /\ ~output_lost =>
        to_send = 0 /\ pending = NoInput /\ input_q = <<>> /\ feed_pc = "done"
    /\ output_lost => engine_pc \in {"finish", "done"} /\ journal_error

\* When the output thread has failed, and when it may stop without.
OutputFlow ==
    /\ output_failed => journal_error
    /\ output_pc \in {"open", "try", "recv", "recv_empty", "append", "commit"} => ~journal_error
    /\ output_pc = "fail" => journal_error
    /\ output_pc \in {"close", "done"} =>
        journal_error \/ (engine_pc = "done" /\ output_q = <<>> /\ event = 0)
    /\ output_pc \in {"open", "try", "recv", "recv_empty", "commit"} => event = 0
    /\ output_pc = "done" /\ ~journal_error => buffer = <<>> /\ ~torn /\ synced = Len(file)

\* An input applied after the failure was the one already past the check.
LateOnce ==
    /\ late \in {0, 1}
    /\ late = 1 => /\ output_failed /\ engine_pc \notin {"kill", "commands", "apply"}
                   /\ engine_pc \in {"send", "full"} => resume = "snapshot"

\* A kill engaged since before the pending input was received reaches the core
\* before the commands are looked at.
KillFlow ==
    /\ due.kill => kill
    /\ (engine_pc \in {"commands", "apply"}
         \/ (engine_pc \in {"send", "full"} /\ resume = "commands")) => (due.kill => global_kill)

\* The commands accepted are applied or queued, and none is queued when the
\* pending input is about to be applied.
CommandFlow ==
    /\ submitted = applied_commands + Len(commands)
    /\ due.commands <= submitted
    /\ engine_pc = "apply" => applied_commands >= due.commands

\* How much the buffer may hold at each point of the output thread.
SyncFlow ==
    /\ output_pc \in {"open", "try", "recv", "recv_empty", "append"} =>
        /\ journal_sync = "GroupCommit" => Len(buffer) <= since_flush /\ since_flush < GroupSize
        /\ journal_sync = "Durable" => buffer = <<>> /\ synced = Len(file)
    /\ output_pc = "commit" /\ journal_sync = "GroupCommit" =>
        Len(buffer) <= since_flush /\ since_flush <= GroupSize
    /\ output_pc \in {"recv", "recv_empty"} /\ journal_sync = "GroupCommit" => buffer = <<>>

IInv ==
    /\ TypeOK /\ JournalRuns /\ InputRuns /\ EngineFlow /\ OutputFlow /\ LateOnce
    /\ KillFlow /\ CommandFlow /\ SyncFlow

-----------------------------------------------------------------------------
(* Who may disturb what: what a thread's step leaves alone, per conjunct *)

USE DEF vars, feed_vars, engine_vars, core_vars, count_vars, output_vars, journal_vars,
        control_vars, snap_vars

LEMMA Steps ==
  ASSUME [Next]_vars
  PROVE  FeedThread \/ EngineThread \/ OutputThread \/ Control \/ UNCHANGED vars
BY DEF Next, Finished

\* An input applied late is counted once and closes the way to the next.
LEMMA LateStep ==
  ASSUME IInv, [Next]_vars
  PROVE  LateOnce'
<1> USE DEF IInv
<1>1. CASE FeedThread \/ Control \/ UNCHANGED vars
  BY <1>1 DEF LateOnce, FeedThread, Control
<1>2. CASE OutputThread
  <2>1. output_failed => output_failed'
    BY <1>2 DEF OutputThread, OutputOpen, OutputTryRecv, OutputRecv, OutputRecvAbandoned,
                OutputAppend, OutputCommit, OutputFail, OutputClose, TypeOK
  <2>2. UNCHANGED <<late, engine_pc, resume>>
    BY <1>2 DEF OutputThread
  <2> QED  BY <2>1, <2>2 DEF LateOnce
<1>3. CASE EngineThread
  <2>1. UNCHANGED output_failed
    BY <1>3 DEF EngineThread
  <2>2. CASE EngineRecv \/ EngineRecvAbandoned \/ EngineSnapshot \/ EngineFinish
    BY <2>1, <2>2 DEF LateOnce, EngineRecv, EngineRecvAbandoned, EngineSnapshot, EngineFinish, Receive
  <2>3. CASE EngineCheckOutput
    BY <2>1, <2>3 DEF LateOnce, EngineCheckOutput
  <2>4. CASE EngineReadKill \/ EngineCommand
    BY <2>1, <2>4, SMT DEF LateOnce, EngineReadKill, EngineCommand
  <2>5. CASE EngineApply
    BY <2>1, <2>5, SMT DEF LateOnce, EngineApply, Apply, TypeOK
  <2>6. CASE EngineSend \/ EngineSendRetry
    <3>1. /\ engine_pc \in {"send", "full"} /\ engine_pc' \in {"send", "full", "finish", resume}
          /\ UNCHANGED <<late, resume>>
      BY <2>6 DEF EngineSend, EngineSendRetry
    <3> QED  BY <2>1, <3>1 DEF LateOnce
  <2> QED  BY <1>3, <2>2, <2>3, <2>4, <2>5, <2>6 DEF EngineThread
<1> QED  BY Steps, <1>1, <1>2, <1>3

\* A kill requested before an input was received is in force before it is applied.
LEMMA KillStep ==
  ASSUME IInv, [Next]_vars
  PROVE  KillFlow'
<1> USE DEF IInv
<1>1. CASE FeedThread \/ OutputThread \/ UNCHANGED vars
  BY <1>1 DEF KillFlow, FeedThread, OutputThread
<1>2. CASE Control
  <2>1. CASE StoreKill
    <3>1. due'.kill = (due.kill /\ ~kill)
      BY <2>1, SMT DEF StoreKill, TypeOK
    <3> QED  BY <1>2, <2>1, <3>1 DEF KillFlow, Control, StoreKill, TypeOK
  <2>2. CASE Submit \/ TakeSnapshot \/ RequestShutdown
    BY <1>2, <2>2 DEF KillFlow, Control, Submit, TakeSnapshot, RequestShutdown
  <2> QED  BY <1>2, <2>1, <2>2 DEF Control
<1>3. CASE EngineThread
  <2>1. CASE EngineRecv \/ EngineRecvAbandoned
    <3>1. CASE Receive
      <4>1. due'.kill = kill /\ engine_pc' = "check" /\ UNCHANGED kill
        BY <2>1, <3>1 DEF EngineRecv, EngineRecvAbandoned, Receive
      <4> QED  BY <4>1 DEF KillFlow
    <3>2. CASE engine_pc' \in {"recv", "recv_empty", "finish"} /\ UNCHANGED due
      BY <2>1, <3>2 DEF KillFlow, EngineRecv, EngineRecvAbandoned
    <3> QED  BY <2>1, <3>1, <3>2 DEF EngineRecv, EngineRecvAbandoned
  <2>2. CASE EngineCheckOutput \/ EngineSnapshot \/ EngineFinish
    <3>1. engine_pc' \in {"finish", "kill", "recv", "done"} /\ UNCHANGED <<due, kill>>
      BY <2>2 DEF EngineCheckOutput, EngineSnapshot, EngineFinish
    <3> QED  BY <3>1 DEF KillFlow
  <2>3. CASE EngineReadKill
    <3>1. global_kill' = kill /\ UNCHANGED <<due, kill>>
      BY <2>3 DEF EngineReadKill
    <3> QED  BY <3>1 DEF KillFlow
  <2>4. CASE EngineCommand
    BY <2>4 DEF KillFlow, EngineCommand
  <2>5. CASE EngineApply
    <3>1. /\ engine_pc' \in {"snapshot", "send"} /\ resume' = "snapshot"
          /\ UNCHANGED <<due, kill, global_kill>>
      BY <2>5 DEF EngineApply, Apply
    <3> QED  BY <3>1 DEF KillFlow
  <2>6. CASE EngineSend \/ EngineSendRetry
    <3>1. /\ engine_pc \in {"send", "full"} /\ engine_pc' \in {"send", "full", "finish", resume}
          /\ UNCHANGED <<due, kill, global_kill, resume>>
      BY <2>6 DEF EngineSend, EngineSendRetry
    <3>2. resume \in {"commands", "snapshot"}
      BY <3>1 DEF EngineFlow
    <3> QED  BY <3>1, <3>2 DEF KillFlow
  <2> QED  BY <1>3, <2>1, <2>2, <2>3, <2>4, <2>5, <2>6 DEF EngineThread
<1> QED  BY Steps, <1>1, <1>2, <1>3

\* The commands accepted before an input was received are applied before it.
LEMMA CommandStep ==
  ASSUME IInv, [Next]_vars
  PROVE  CommandFlow'
<1> USE DEF IInv
<1>1. CASE FeedThread \/ OutputThread \/ UNCHANGED vars
  BY <1>1 DEF CommandFlow, FeedThread, OutputThread
<1>2. CASE Control
  <2>1. CASE StoreKill
    <3>1. due'.commands = due.commands
      BY <2>1, SMT DEF StoreKill, TypeOK
    <3> QED  BY <1>2, <2>1, <3>1 DEF CommandFlow, Control, StoreKill
  <2>2. CASE Submit
    BY <1>2, <2>2, SMT DEF CommandFlow, Control, Submit, TypeOK
  <2>3. CASE TakeSnapshot \/ RequestShutdown
    BY <1>2, <2>3 DEF CommandFlow, Control, TakeSnapshot, RequestShutdown
  <2> QED  BY <1>2, <2>1, <2>2, <2>3 DEF Control
<1>3. CASE EngineThread
  <2>1. CASE EngineRecv \/ EngineRecvAbandoned
    <3>1. CASE Receive
      <4>1. /\ due'.commands = submitted /\ engine_pc' = "check"
            /\ UNCHANGED <<submitted, commands, applied_commands>>
        BY <2>1, <3>1 DEF EngineRecv, EngineRecvAbandoned, Receive
      <4>2. submitted <= submitted
        BY SMT DEF TypeOK
      <4> QED  BY <4>1, <4>2 DEF CommandFlow
    <3>2. CASE engine_pc' \in {"recv", "recv_empty", "finish"} /\ UNCHANGED due
      BY <2>1, <3>2 DEF CommandFlow, EngineRecv, EngineRecvAbandoned
    <3> QED  BY <2>1, <3>1, <3>2 DEF EngineRecv, EngineRecvAbandoned
  <2>2. CASE EngineCheckOutput \/ EngineSnapshot \/ EngineFinish
    BY <2>2 DEF CommandFlow, EngineCheckOutput, EngineSnapshot, EngineFinish
  <2>3. CASE EngineReadKill
    BY <2>3 DEF CommandFlow, EngineReadKill, Apply
  <2>4. CASE EngineCommand
    <3>1. UNCHANGED <<due, submitted>>
      BY <2>4 DEF EngineCommand
    <3>2. due.commands \in Nat
      BY DEF TypeOK
    <3>3. CASE commands # <<>>
      <4>1. /\ commands' = Tail(commands) /\ applied_commands' = applied_commands + 1
            /\ engine_pc' \in {"commands", "send"}
        BY <2>4, <3>3 DEF EngineCommand, Apply
      <4>2. Len(Tail(commands)) = Len(commands) - 1 /\ Len(commands) \in Nat
        BY <3>3, SMT DEF TypeOK
      <4>3. submitted' = applied_commands' + Len(commands')
        <5>1. submitted = applied_commands + Len(commands) /\ applied_commands \in Nat
          BY DEF CommandFlow, TypeOK
        <5>2. applied_commands + Len(commands) = applied_commands + 1 + (Len(commands) - 1)
          BY <4>2, <5>1, SMT
        <5> QED  BY <3>1, <4>1, <4>2, <5>1, <5>2
      <4> QED  BY <3>1, <4>1, <4>3 DEF CommandFlow
    <3>4. CASE commands = <<>>
      <4>1. UNCHANGED <<commands, applied_commands>>
        BY <2>4, <3>4 DEF EngineCommand
      <4>2. submitted = applied_commands
        BY <3>4, SMT DEF CommandFlow, TypeOK
      <4>3. applied_commands >= due.commands
        BY <3>2, <4>2, SMT DEF CommandFlow, TypeOK
      <4> QED  BY <3>1, <4>1, <4>3 DEF CommandFlow
    <3> QED  BY <3>3, <3>4
  <2>5. CASE EngineApply
    BY <2>5 DEF CommandFlow, EngineApply, Apply
  <2>6. CASE EngineSend \/ EngineSendRetry
    <3>1. /\ engine_pc \in {"send", "full"} /\ engine_pc' \in {"send", "full", "finish", resume}
          /\ UNCHANGED <<due, submitted, commands, applied_commands>>
      BY <2>6 DEF EngineSend, EngineSendRetry
    <3>2. resume \in {"commands", "snapshot"}
      BY <3>1 DEF EngineFlow
    <3> QED  BY <3>1, <3>2 DEF CommandFlow
  <2> QED  BY <1>3, <2>1, <2>2, <2>3, <2>4, <2>5, <2>6 DEF EngineThread
<1> QED  BY Steps, <1>1, <1>2, <1>3

\* The engine's program counter tells what it holds.
LEMMA EngineStep ==
  ASSUME IInv, [Next]_vars
  PROVE  EngineFlow'
<1> USE DEF IInv
<1>1. CASE Control \/ UNCHANGED vars
  <2>1. UNCHANGED <<engine_pc, pending, to_send, resume, output_lost, input_q, feed_pc, journal_error>>
    BY <1>1 DEF Control
  <2> QED  BY <2>1 DEF EngineFlow
<1>2. CASE FeedThread
  <2>1. UNCHANGED <<engine_pc, pending, to_send, resume, output_lost, journal_error>>
    BY <1>2 DEF FeedThread
  <2>2. feed_pc # "done"
    BY <1>2 DEF FeedThread, FeedEnd, FeedNext, FeedSend, FeedSendFull, FeedSendRetry
  <2>3. ~(engine_pc \in {"finish", "done"} /\ ~output_lost)
    BY <2>2 DEF EngineFlow
  <2>4. ~(engine_pc' \in {"finish", "done"} /\ ~output_lost')
    BY <2>1, <2>3
  <2> QED  BY <2>1, <2>4 DEF EngineFlow
<1>3. CASE OutputThread
  <2>1. UNCHANGED <<engine_pc, pending, to_send, resume, output_lost, input_q, feed_pc>>
    BY <1>3 DEF OutputThread
  <2>2. journal_error => journal_error'
    BY <1>3 DEF OutputThread, OutputOpen, OutputTryRecv, OutputRecv, OutputRecvAbandoned,
                OutputAppend, OutputCommit, OutputFail, OutputClose, TypeOK
  <2> QED  BY <2>1, <2>2 DEF EngineFlow
<1>4. CASE EngineThread
  <2>1. UNCHANGED <<feed_pc, journal_error, output_failed>>
    BY <1>4 DEF EngineThread
  <2>2. CASE EngineRecv \/ EngineRecvAbandoned
    <3>1. /\ engine_pc \in {"recv", "recv_empty"} /\ pending = NoInput /\ to_send = 0 /\ ~output_lost
          /\ UNCHANGED <<to_send, output_lost>>
      BY <2>2 DEF EngineRecv, EngineRecvAbandoned, EngineFlow, TypeOK
    <3>2. CASE Receive
      <4>1. /\ input_q \in Seq(1 .. Len(Source)) /\ input_q # <<>> /\ pending' = Head(input_q)
            /\ engine_pc' = "check"
        BY <3>2 DEF Receive, TypeOK
      <4>2. Head(input_q) \in Nat
        BY <4>1, SourceAssumption, SMT
      <4> QED  BY <3>1, <4>1, <4>2, NoInputAssumption DEF EngineFlow
    <3>3. CASE engine_pc' \in {"recv", "recv_empty"} /\ UNCHANGED pending
      BY <3>1, <3>3 DEF EngineFlow
    <3>4. CASE /\ engine_pc' = "finish" /\ input_q = <<>> /\ feed_pc = "done"
               /\ UNCHANGED <<pending, input_q>>
      BY <2>1, <3>1, <3>4 DEF EngineFlow
    <3> QED  BY <2>2, <3>2, <3>3, <3>4 DEF EngineRecv, EngineRecvAbandoned
  <2>3. CASE EngineCheckOutput
    BY <2>1, <2>3 DEF EngineCheckOutput, EngineFlow, OutputFlow
  <2>4. CASE EngineReadKill
    <3>1. UNCHANGED <<pending, output_lost>> /\ pending # NoInput /\ ~output_lost /\ to_send = 0
      BY <2>4 DEF EngineReadKill, EngineFlow, TypeOK
    <3>2. \/ engine_pc' = "commands" /\ to_send' = 0
          \/ engine_pc' = "send" /\ to_send' > 0 /\ resume' = "commands"
      <4>1. CASE Apply("commands")
        BY <4>1, BatchAssumption, SMT DEF Apply
      <4> QED  BY <2>4, <3>1, <4>1 DEF EngineReadKill
    <3> QED  BY <3>1, <3>2 DEF EngineFlow
  <2>5. CASE EngineCommand
    <3>1. UNCHANGED <<pending, output_lost>> /\ pending # NoInput /\ ~output_lost /\ to_send = 0
      BY <2>5 DEF EngineCommand, EngineFlow, TypeOK
    <3>2. \/ engine_pc' \in {"commands", "apply"} /\ to_send' = 0
          \/ engine_pc' = "send" /\ to_send' > 0 /\ resume' = "commands"
      <4>1. CASE Apply("commands")
        BY <4>1, BatchAssumption, SMT DEF Apply
      <4> QED  BY <2>5, <3>1, <4>1 DEF EngineCommand
    <3> QED  BY <3>1, <3>2 DEF EngineFlow
  <2>6. CASE EngineApply
    <3>1. UNCHANGED output_lost /\ pending' = NoInput /\ ~output_lost
      BY <2>6 DEF EngineApply, EngineFlow, TypeOK
    <3>2. \/ engine_pc' = "snapshot" /\ to_send' = 0
          \/ engine_pc' = "send" /\ to_send' > 0 /\ resume' = "snapshot"
      BY <2>6, BatchAssumption, SMT DEF EngineApply, Apply
    <3> QED  BY <3>1, <3>2 DEF EngineFlow
  <2>7. CASE EngineSend
    <3>1. /\ UNCHANGED <<pending, output_lost, resume>> /\ ~output_lost /\ to_send > 0
          /\ resume \in {"commands", "snapshot"} /\ (pending = NoInput <=> resume = "snapshot")
      BY <2>7 DEF EngineSend, EngineFlow, TypeOK
    <3>2. \/ engine_pc' = resume /\ to_send' = 0
          \/ engine_pc' \in {"send", "full"} /\ to_send' > 0
      BY <2>7, <3>1, SMT DEF EngineSend, TypeOK
    <3> QED  BY <3>1, <3>2 DEF EngineFlow
  <2>8. CASE EngineSendRetry
    <3>1. UNCHANGED <<pending, to_send, resume>> /\ engine_pc = "full"
      BY <2>8 DEF EngineSendRetry
    <3>2. CASE output_pc = "done"
      <4>1. output_lost' /\ engine_pc' = "finish" /\ journal_error
        BY <2>8, <3>1, <3>2 DEF EngineSendRetry, OutputFlow
      <4> QED  BY <2>1, <4>1 DEF EngineFlow
    <3>3. CASE output_pc # "done"
      BY <2>8, <3>1, <3>3 DEF EngineSendRetry, EngineFlow
    <3> QED  BY <3>2, <3>3
  <2>9. CASE EngineSnapshot \/ EngineFinish
    <3>1. UNCHANGED <<pending, to_send, output_lost, input_q>>
      BY <2>9 DEF EngineSnapshot, EngineFinish
    <3>2. \/ engine_pc = "snapshot" /\ engine_pc' = "recv"
          \/ engine_pc = "finish" /\ engine_pc' = "done"
      BY <2>9 DEF EngineSnapshot, EngineFinish
    <3> QED  BY <2>1, <3>1, <3>2 DEF EngineFlow
  <2> QED  BY <1>4, <2>2, <2>3, <2>4, <2>5, <2>6, <2>7, <2>8, <2>9 DEF EngineThread
<1> QED  BY Steps, <1>1, <1>2, <1>3, <1>4

\* The output thread stops without an error only after the engine has.
LEMMA OutputStep ==
  ASSUME IInv, [Next]_vars
  PROVE  OutputFlow'
<1> USE DEF IInv
<1>1. CASE FeedThread \/ Control \/ UNCHANGED vars
  <2>1. UNCHANGED <<output_failed, journal_error, output_pc, engine_pc, output_q, event, buffer, torn,
                    synced, file>>
    BY <1>1 DEF FeedThread, Control
  <2> QED  BY <2>1 DEF OutputFlow
<1>2. CASE EngineThread
  <2>1. UNCHANGED <<output_failed, journal_error, output_pc, event, buffer, torn, synced, file>>
    BY <1>2 DEF EngineThread
  <2>2. engine_pc # "done"
    BY <1>2 DEF EngineThread, EngineRecv, EngineRecvAbandoned, EngineCheckOutput, EngineReadKill,
                EngineCommand, EngineApply, EngineSend, EngineSendRetry, EngineSnapshot, EngineFinish
  <2> QED  BY <2>1, <2>2 DEF OutputFlow
<1>3. CASE OutputThread
  <2>1. UNCHANGED engine_pc
    BY <1>3 DEF OutputThread
  <2>2. CASE OutputOpen
    <3>1. ~journal_error /\ ~output_failed /\ event = 0 /\ UNCHANGED event
      BY <2>2 DEF OutputOpen, OutputFlow, TypeOK
    <3>2. \/ output_pc' = "try" /\ ~journal_error' /\ ~output_failed'
          \/ output_pc' = "done" /\ journal_error'
      BY <2>2, <3>1 DEF OutputOpen
    <3> QED  BY <3>1, <3>2 DEF OutputFlow
  <2>3. CASE OutputTryRecv
    <3>1. ~journal_error /\ ~output_failed' /\ event = 0
      BY <2>3 DEF OutputTryRecv, OutputFlow, TypeOK
    <3>2. \/ output_pc' = "append" /\ ~journal_error'
          \/ output_pc' = "recv" /\ ~journal_error' /\ UNCHANGED event
          \/ output_pc' = "fail" /\ journal_error'
      BY <2>3, <3>1 DEF OutputTryRecv, Take
    <3> QED  BY <3>1, <3>2 DEF OutputFlow
  <2>4. CASE OutputRecv \/ OutputRecvAbandoned
    <3>1. ~journal_error /\ UNCHANGED <<journal_error, output_failed>> /\ event = 0
      BY <2>4 DEF OutputRecv, OutputRecvAbandoned, OutputFlow
    <3>2. \/ output_pc' = "append"
          \/ output_pc' \in {"recv", "recv_empty"} /\ UNCHANGED event
          \/ output_pc' = "close" /\ engine_pc = "done" /\ output_q = <<>> /\ UNCHANGED <<output_q, event>>
      BY <2>4 DEF OutputRecv, OutputRecvAbandoned, Take
    <3> QED  BY <2>1, <3>1, <3>2 DEF OutputFlow
  <2>5. CASE OutputAppend
    <3>1. ~journal_error /\ ~output_failed'
      BY <2>5 DEF OutputAppend, OutputFlow, TypeOK
    <3>2. \/ output_pc' = "commit" /\ ~journal_error' /\ event' = 0
          \/ output_pc' = "fail" /\ journal_error'
      BY <2>5, <3>1 DEF OutputAppend
    <3> QED  BY <3>1, <3>2 DEF OutputFlow
  <2>6. CASE OutputCommit
    <3>1. ~journal_error /\ ~output_failed' /\ event' = 0
      BY <2>6 DEF OutputCommit, OutputFlow, TypeOK
    <3>2. \/ output_pc' = "try" /\ ~journal_error'
          \/ output_pc' = "fail" /\ journal_error'
      BY <2>6, <3>1 DEF OutputCommit
    <3> QED  BY <3>1, <3>2 DEF OutputFlow
  <2>7. CASE OutputFail
    BY <2>7 DEF OutputFail, OutputFlow
  <2>8. CASE OutputClose
    <3>1. /\ output_pc = "close" /\ output_pc' = "done"
          /\ UNCHANGED <<output_failed, output_q, event>> /\ (journal_error => journal_error')
      BY <2>8 DEF OutputClose, TypeOK
    <3>2. ~journal_error' => buffer' = <<>> /\ ~torn' /\ synced' = Len(file')
      <4> SUFFICES ASSUME ~journal_error' PROVE buffer' = <<>> /\ ~torn' /\ synced' = Len(file')
        OBVIOUS
      <4>1. /\ file' = file \o buffer /\ buffer' = <<>> /\ synced' = Len(file) + Len(buffer)
            /\ torn' \in IF event # 0 THEN BOOLEAN ELSE {FALSE}
        BY <2>8 DEF OutputClose
      <4>2. event = 0
        BY <3>1 DEF OutputFlow
      <4>3. Len(file \o buffer) = Len(file) + Len(buffer)
        BY SMT DEF TypeOK
      <4>4. torn' \in {FALSE}
        BY <4>1, <4>2
      <4> QED  BY <4>1, <4>3, <4>4
    <3> QED  BY <2>1, <3>1, <3>2 DEF OutputFlow
  <2> QED  BY <1>3, <2>2, <2>3, <2>4, <2>5, <2>6, <2>7, <2>8 DEF OutputThread
<1> QED  BY Steps, <1>1, <1>2, <1>3

\* The sync policy bounds what is buffered.
LEMMA SyncStep ==
  ASSUME IInv, [Next]_vars
  PROVE  SyncFlow'
<1> USE DEF IInv
<1>1. CASE FeedThread \/ EngineThread \/ Control \/ UNCHANGED vars
  <2>1. UNCHANGED <<output_pc, journal_sync, buffer, since_flush, synced, file>>
    BY <1>1 DEF FeedThread, EngineThread, Control
  <2> QED  BY <2>1 DEF SyncFlow
<1>2. CASE OutputThread
  <2>1. UNCHANGED journal_sync
    BY <1>2 DEF OutputThread
  <2>2. CASE OutputOpen
    BY <2>1, <2>2 DEF OutputOpen, SyncFlow
  <2>3. CASE OutputTryRecv
    <3>1. CASE UNCHANGED <<since_flush, journal_vars>> /\ output_pc' = "append"
      BY <2>1, <2>3, <3>1 DEF OutputTryRecv, SyncFlow
    <3>4. CASE /\ UNCHANGED <<since_flush, journal_vars>> /\ output_pc' = "recv"
               /\ ~(since_flush > 0 /\ journal_sync = "GroupCommit")
      <4>1. journal_sync = "GroupCommit" => buffer = <<>>
        <5> SUFFICES ASSUME journal_sync = "GroupCommit" PROVE buffer = <<>>
          OBVIOUS
        <5>1. Len(buffer) <= since_flush /\ ~(since_flush > 0)
          BY <2>3, <3>4 DEF OutputTryRecv, SyncFlow
        <5> QED  BY <5>1, SMT DEF TypeOK
      <4> QED  BY <2>1, <2>3, <3>4, <4>1 DEF OutputTryRecv, SyncFlow
    <3>2. CASE /\ buffer' = <<>> /\ since_flush' = 0 /\ output_pc' = "recv"
               /\ journal_sync = "GroupCommit"
      BY <2>1, <3>2, GroupAssumption, SMT DEF SyncFlow
    <3>3. CASE output_pc' = "fail"
      BY <3>3 DEF SyncFlow
    <3> QED  BY <2>3, <3>1, <3>2, <3>3, <3>4 DEF OutputTryRecv, Take, Flushed
  <2>4. CASE OutputRecv \/ OutputRecvAbandoned
    <3>1. UNCHANGED <<since_flush, journal_vars>>
      BY <2>4 DEF OutputRecv, OutputRecvAbandoned
    <3>2. output_pc \in {"recv", "recv_empty"} /\ output_pc' \in {"append", "recv", "recv_empty", "close"}
      BY <2>4 DEF OutputRecv, OutputRecvAbandoned, Take
    <3> QED  BY <2>1, <3>1, <3>2 DEF SyncFlow
  <2>5. CASE OutputAppend
    <3>1. CASE output_pc' = "fail"
      BY <3>1 DEF SyncFlow
    <3>2. CASE output_pc' = "commit"
      <4>1. since_flush' = since_flush + 1 /\ AppendRecord(event)
        BY <2>5, <3>2 DEF OutputAppend
      <4>2. Len(Append(buffer, event)) = Len(buffer) + 1 /\ Len(<<event>>) = 1 /\ Len(buffer) \in Nat
        BY SMT DEF TypeOK
      <4>3. Len(buffer') = Len(buffer) + 1 \/ Len(buffer') = 1
        BY <4>1, <4>2 DEF AppendRecord
      <4>4. journal_sync = "GroupCommit" => Len(buffer') <= since_flush' /\ since_flush' <= GroupSize
        <5>1. journal_sync = "GroupCommit" => Len(buffer) <= since_flush /\ since_flush < GroupSize
          BY <2>5 DEF OutputAppend, SyncFlow
        <5>2. \A l, n, x \in Nat : l <= n /\ n < GroupSize /\ (x = l + 1 \/ x = 1)
                                => x <= n + 1 /\ n + 1 <= GroupSize
          BY GroupAssumption, SMT
        <5>3. Len(buffer) + 1 \in Nat /\ 1 \in Nat
          BY <4>2, SMT
        <5> QED  BY <4>1, <4>2, <4>3, <5>1, <5>2, <5>3 DEF TypeOK
      <4> QED  BY <2>1, <3>2, <4>4 DEF SyncFlow
    <3> QED  BY <2>5, <3>1, <3>2 DEF OutputAppend
  <2>6. CASE OutputCommit
    <3>1. CASE output_pc' = "fail"
      BY <3>1 DEF SyncFlow
    <3>2. CASE output_pc' = "try" /\ FlushDue
      <4>1. /\ file' = file \o buffer /\ buffer' = <<>> /\ since_flush' = 0
            /\ synced' = IF journal_sync = "Durable" THEN Len(file) + Len(buffer) ELSE synced
        BY <2>6, <3>2 DEF OutputCommit, Flushed
      <4>2. Len(file \o buffer) = Len(file) + Len(buffer)
        BY SMT DEF TypeOK
      <4>3. Len(<<>>) <= 0 /\ 0 < GroupSize
        BY GroupAssumption, SMT
      <4> QED  BY <2>1, <3>2, <4>1, <4>2, <4>3 DEF SyncFlow
    <3>3. CASE output_pc' = "try" /\ ~FlushDue
      <4>1. UNCHANGED <<since_flush, journal_vars>>
        BY <2>6, <3>3 DEF OutputCommit
      <4>2. journal_sync # "Durable"
        BY <3>3 DEF FlushDue
      <4>3. journal_sync = "GroupCommit" => Len(buffer) <= since_flush /\ since_flush < GroupSize
        BY <2>6, <3>3, GroupAssumption, SMT DEF FlushDue, OutputCommit, SyncFlow, TypeOK
      <4> QED  BY <2>1, <3>3, <4>1, <4>2, <4>3 DEF SyncFlow
    <3> QED  BY <2>6, <3>1, <3>2, <3>3 DEF OutputCommit
  <2>7. CASE OutputFail \/ OutputClose
    BY <2>7 DEF OutputFail, OutputClose, SyncFlow
  <2> QED  BY <1>2, <2>2, <2>3, <2>4, <2>5, <2>6, <2>7 DEF OutputThread
<1> QED  BY Steps, <1>1, <1>2

\* The inputs fed, held and applied stay consecutive.
LEMMA InputStep ==
  ASSUME IInv, [Next]_vars
  PROVE  InputRuns'
<1> USE DEF IInv
<1> DEFINE p == Held(pending, NoInput)
           i == Len(input_q)
<1>0. /\ p \in {0, 1} /\ p \in Nat /\ i \in Nat /\ applied_feed \in Nat /\ fed \in Nat
      /\ applied_feed + p \in Nat
  <2>1. i \in Nat /\ applied_feed \in Nat /\ fed \in Nat
    BY SourceAssumption, SMT DEF TypeOK
  <2>2. p \in {0, 1}
    BY DEF Held
  <2> QED  BY <2>1, <2>2, SMT
<1>1. CASE OutputThread \/ Control \/ UNCHANGED vars
  <2>1. UNCHANGED <<pending, input_q, applied_feed, feed_pc, fed, output_lost>>
    BY <1>1 DEF OutputThread, Control
  <2> QED  BY <2>1 DEF InputRuns, Held
<1>2. CASE FeedThread
  <2>1. UNCHANGED <<pending, applied_feed, output_lost, engine_pc>> /\ UNCHANGED p
    BY <1>2 DEF FeedThread, Held
  <2>2. CASE FeedEnd /\ UNCHANGED input_q
    BY <2>1, <2>2 DEF FeedEnd, InputRuns
  <2>3. CASE FeedNext /\ UNCHANGED input_q
    BY <2>1, <2>3 DEF FeedNext, InputRuns
  <2>4. CASE FeedSend
    <3>1. fed = applied_feed + p + i + 1 /\ input_q = Run(applied_feed + p, i)
      BY <2>4 DEF FeedSend, InputRuns
    <3>2. input_q' = Run(applied_feed + p, i + 1)
      BY <1>0, <2>4, <3>1, RunAppend DEF FeedSend
    <3>3. Len(input_q') = i + 1
      <4>1. i + 1 \in Nat
        BY <1>0, SMT
      <4> QED  BY <1>0, <3>2, <4>1, RunType
    <3>4. fed = applied_feed + p + (i + 1)
      BY <1>0, <3>1, SMT
    <3> QED  BY <2>1, <2>4, <3>2, <3>3, <3>4 DEF FeedSend, InputRuns
  <2>5. CASE FeedSendFull
    BY <2>1, <2>5 DEF FeedSendFull, InputRuns
  <2>6. CASE FeedSendRetry
    <3>1. CASE engine_pc = "done"
      <4>1. output_lost
        BY <2>6, <3>1 DEF FeedSendRetry, EngineFlow
      <4> QED  BY <2>1, <2>6, <3>1, <4>1 DEF FeedSendRetry, InputRuns
    <3>2. CASE engine_pc # "done"
      BY <2>1, <2>6, <3>2 DEF FeedSendRetry, InputRuns
    <3> QED  BY <3>1, <3>2
  <2> QED  BY <1>2, <2>2, <2>3, <2>4, <2>5, <2>6 DEF FeedThread
<1>3. CASE EngineThread
  <2>1. UNCHANGED <<feed_pc, fed>>
    BY <1>3 DEF EngineThread
  <2>2. CASE (EngineRecv \/ EngineRecvAbandoned) /\ Receive
    <3>1. p = 0 /\ applied_feed + p = applied_feed
      <4>1. p = 0
        BY <2>2 DEF EngineRecv, EngineRecvAbandoned, EngineFlow, Held
      <4> QED  BY <1>0, <4>1, SMT
    <3>2. UNCHANGED <<applied_feed, output_lost>>
      BY <2>2 DEF EngineRecv, EngineRecvAbandoned
    <3>3. input_q = Run(applied_feed, i) /\ i > 0
      <4>1. input_q = Run(applied_feed, i)
        BY <3>1 DEF InputRuns
      <4>2. i # 0
        BY <1>0, <2>2, <4>1, RunEmpty DEF Receive
      <4> QED  BY <1>0, <4>1, <4>2, SMT
    <3>4. pending' = applied_feed + 1 /\ input_q' = Run(applied_feed + 1, i - 1)
      BY <1>0, <2>2, <3>3, RunTake DEF Receive
    <3>5. i - 1 \in Nat /\ applied_feed + 1 \in Nat /\ applied_feed + 1 + (i - 1) = applied_feed + 0 + i
      BY <1>0, <3>3, SMT
    <3>6. p' = 1
      BY <3>4, <3>5, NoInputAssumption DEF Held
    <3>7. Len(input_q') = i - 1
      BY <3>4, <3>5, RunType
    <3>8. applied_feed' + p' + Len(input_q') = applied_feed + p + i
      BY <3>1, <3>2, <3>5, <3>6, <3>7
    <3> QED  BY <2>1, <3>2, <3>4, <3>6, <3>7, <3>8 DEF InputRuns
  <2>3. CASE EngineApply
    <3>1. p = 1 /\ p' = 0
      BY <2>3 DEF EngineApply, EngineFlow, Held
    <3>2. applied_feed' = applied_feed + 1 /\ pending' = NoInput /\ UNCHANGED <<input_q, output_lost>>
      BY <2>3 DEF EngineApply
    <3>3. applied_feed' + p' = applied_feed + p
      BY <1>0, <3>1, <3>2, SMT
    <3> QED  BY <2>1, <3>2, <3>3 DEF InputRuns
  <2>4. CASE EngineCheckOutput \/ EngineSendRetry
    <3>1. UNCHANGED <<pending, applied_feed, input_q>> /\ ~output_lost
      BY <2>4 DEF EngineCheckOutput, EngineSendRetry, EngineFlow
    <3> QED  BY <2>1, <3>1 DEF InputRuns, Held
  <2>5. CASE UNCHANGED <<pending, applied_feed, input_q, output_lost>>
    BY <2>1, <2>5 DEF InputRuns, Held
  <2> QED  BY <1>3, <2>2, <2>3, <2>4, <2>5
           DEF EngineThread, EngineRecv, EngineRecvAbandoned, EngineReadKill, EngineCommand,
               EngineSend, EngineSnapshot, EngineFinish
<1> QED  BY Steps, <1>1, <1>2, <1>3

\* A write that gets through part of the buffer keeps file and buffer in line.
LEMMA PartlyFlushedRuns ==
  ASSUME TypeOK, JournalRuns, PartlyFlushed
  PROVE  file' = Run(0, Len(file')) /\ buffer' = Run(Len(file'), Len(buffer'))
<1>0. Len(file) \in Nat /\ Len(buffer) \in Nat
  BY SMT DEF TypeOK
<1>1. PICK f \in Nat, b \in Nat : f = Len(file) /\ b = Len(buffer)
  BY <1>0
<1>2. PICK k \in 0 .. b : file' = file \o SubSeq(buffer, 1, k) /\ buffer' = SubSeq(buffer, k + 1, b)
  BY <1>1 DEF PartlyFlushed
<1>3. file = Run(0, f) /\ buffer = Run(f, b)
  BY <1>1 DEF JournalRuns
<1>4. file' = Run(0, f + k) /\ buffer' = Run(f + k, b - k)
  BY <1>2, <1>3, RunMove
<1>5. f + k \in Nat /\ b - k \in Nat /\ 0 \in Nat
  BY SMT
<1>6. Len(file') = f + k /\ Len(buffer') = b - k
  BY <1>4, <1>5, RunType
<1> QED  BY <1>4, <1>6

\* So does a write that gets through all of it.
LEMMA FlushedRuns ==
  ASSUME TypeOK, JournalRuns, file' = file \o buffer
  PROVE  /\ file' = Run(0, Len(file')) /\ Len(file') = Len(file) + Len(buffer)
         /\ Len(file') \in Nat /\ <<>> = Run(Len(file'), Len(<<>>))
<1>0. Len(file) \in Nat /\ Len(buffer) \in Nat
  BY SMT DEF TypeOK
<1>1. PICK f \in Nat, b \in Nat : f = Len(file) /\ b = Len(buffer)
  BY <1>0
<1>2. file' = Run(0, f + b)
  BY <1>1, RunJoin DEF JournalRuns
<1>3. f + b \in Nat /\ 0 \in Nat /\ Len(<<>>) = 0
  BY SMT
<1>4. Len(file') = f + b
  BY <1>2, <1>3, RunType
<1> QED  BY <1>1, <1>2, <1>3, <1>4, RunEmpty

\* The journal, the record in hand and the ring stay consecutive.
LEMMA JournalStep ==
  ASSUME IInv, [Next]_vars
  PROVE  JournalRuns'
<1> USE DEF IInv
<1> DEFINE f == Len(file)
           b == Len(buffer)
           e == Held(event, 0)
           q == Len(output_q)
<1>0. /\ f \in Nat /\ b \in Nat /\ e \in Nat /\ q \in Nat /\ to_send \in Nat /\ output_seq \in Nat
      /\ f + b \in Nat /\ f + b + e \in Nat
  <2>1. f \in Nat /\ b \in Nat /\ q \in Nat /\ output_seq \in Nat /\ to_send \in Nat
    BY SMT DEF TypeOK
  <2>2. e \in Nat
    BY SMT DEF Held
  <2> QED  BY <2>1, <2>2, SMT
<1>1. CASE FeedThread \/ Control \/ UNCHANGED vars
  <2>1. UNCHANGED <<file, buffer, event, output_q, output_pc, journal_error, output_seq, to_send>>
    BY <1>1 DEF FeedThread, Control
  <2> QED  BY <2>1 DEF JournalRuns, Held
<1>2. CASE EngineThread
  <2>1. UNCHANGED <<file, buffer, event, output_pc, journal_error>> /\ UNCHANGED e
    BY <1>2 DEF EngineThread, Held
  <2>2. CASE UNCHANGED <<output_q, output_seq, to_send>>
    BY <2>1, <2>2 DEF JournalRuns
  <2>3. CASE /\ EngineReadKill \/ EngineCommand \/ EngineApply
             /\ \E next \in {"commands", "snapshot"} : Apply(next)
    <3>1. to_send = 0 /\ UNCHANGED output_q
      BY <2>3 DEF EngineReadKill, EngineCommand, EngineApply, EngineFlow
    <3>2. PICK n \in BatchSizes : output_seq' = output_seq + n /\ to_send' = n
      BY <2>3 DEF Apply
    <3>3. \A c \in Nat : output_seq = c + to_send => output_seq' = c + to_send'
      BY <1>0, <3>1, <3>2, BatchAssumption, SMT
    <3>4. f + b + e + q \in Nat
      BY <1>0, SMT
    <3>5. ~journal_error => output_seq' = f + b + e + q + to_send'
      BY <3>3, <3>4 DEF JournalRuns
    <3> QED  BY <2>1, <3>1, <3>5 DEF JournalRuns
  <2>4. CASE /\ EngineSend /\ output_q' = Append(output_q, output_seq - to_send + 1)
             /\ to_send' = to_send - 1
    <3>1. UNCHANGED output_seq /\ to_send > 0
      BY <2>4 DEF EngineSend, EngineFlow
    <3>2. CASE ~journal_error
      <4>1. output_q = Run(f + b + e, q) /\ output_seq = f + b + e + q + to_send
        BY <3>2 DEF JournalRuns
      <4>2. output_seq - to_send + 1 = f + b + e + q + 1
        BY <1>0, <4>1, SMT
      <4>3. output_q' = Run(f + b + e, q + 1)
        BY <1>0, <2>4, <4>1, <4>2, RunAppend
      <4>4. q + 1 \in Nat
        BY <1>0, SMT
      <4>5. Len(output_q') = q + 1
        BY <1>0, <4>3, <4>4, RunType
      <4>6. output_seq = f + b + e + (q + 1) + (to_send - 1)
        BY <1>0, <4>1, SMT
      <4> QED  BY <2>1, <2>4, <3>1, <4>3, <4>5, <4>6 DEF JournalRuns
    <3>3. CASE journal_error
      BY <2>1, <3>3 DEF JournalRuns, TypeOK
    <3> QED  BY <3>2, <3>3
  <2> QED  BY <1>2, <2>2, <2>3, <2>4
           DEF EngineThread, EngineRecv, EngineRecvAbandoned, EngineCheckOutput, EngineReadKill,
               EngineCommand, EngineApply, EngineSend, EngineSendRetry, EngineSnapshot, EngineFinish
<1>3. CASE OutputThread
  <2>1. UNCHANGED <<output_seq, to_send>>
    BY <1>3 DEF OutputThread
  \* an error: only file and buffer are left to agree
  <2>2. CASE journal_error' /\ PartlyFlushed /\ output_pc' # "append"
    BY <2>2, PartlyFlushedRuns DEF JournalRuns
  <2>3. CASE OutputOpen \/ OutputFail
    BY <2>1, <2>3 DEF OutputOpen, OutputFail, JournalRuns, Held
  <2>4. CASE Take /\ UNCHANGED <<file, buffer, journal_error>> /\ event = 0 /\ ~journal_error
    <3>1. e = 0 /\ f + b + e = f + b
      <4>1. e = 0
        BY <2>4 DEF Held
      <4> QED  BY <1>0, <4>1, SMT
    <3>2. output_q = Run(f + b, q) /\ output_seq = f + b + q + to_send
      BY <2>4, <3>1 DEF JournalRuns
    <3>3. q > 0
      <4>1. q # 0
        BY <1>0, <2>4, <3>2, RunEmpty DEF Take
      <4> QED  BY <1>0, <4>1, SMT
    <3>4. event' = f + b + 1 /\ output_q' = Run(f + b + 1, q - 1)
      <4>1. Head(Run(f + b, q)) = f + b + 1 /\ Tail(Run(f + b, q)) = Run(f + b + 1, q - 1)
        BY <1>0, <3>3, RunTake
      <4> QED  BY <2>4, <3>2, <4>1 DEF Take
    <3>5. event' # 0 /\ f + b + 1 \in Nat /\ q - 1 \in Nat
      BY <1>0, <3>3, <3>4, SMT
    <3>6. e' = 1 /\ Len(output_q') = q - 1
      BY <3>4, <3>5, RunType DEF Held
    <3>7. output_seq = f + b + 1 + (q - 1) + to_send
      BY <1>0, <3>2, SMT
    <3> QED  BY <2>1, <2>4, <3>4, <3>5, <3>6, <3>7 DEF JournalRuns
  <2>5. CASE /\ file' = file \o buffer /\ buffer' = <<>> /\ output_pc' # "append"
             /\ UNCHANGED <<event, output_q, journal_error>>
    <3>1. /\ file' = Run(0, Len(file')) /\ Len(file') = f + b
          /\ buffer' = Run(Len(file'), Len(buffer')) /\ Len(buffer') = 0
      <4>1. Len(<<>>) = 0
        BY SMT
      <4> QED  BY <2>5, <4>1, FlushedRuns
    <3>2. Len(file') + Len(buffer') = f + b /\ UNCHANGED e
      <4>1. f + b + 0 = f + b
        BY <1>0, SMT
      <4>2. UNCHANGED e
        BY <2>5 DEF Held
      <4> QED  BY <3>1, <4>1, <4>2
    <3> QED  BY <2>1, <2>5, <3>1, <3>2 DEF JournalRuns
  <2>6. CASE OutputAppend /\ output_pc' = "commit"
    <3>1. /\ ~journal_error /\ event # 0 /\ event' = 0 /\ AppendRecord(event)
          /\ UNCHANGED <<journal_error, output_q>>
      BY <2>6 DEF OutputAppend, OutputFlow, JournalRuns
    <3>2. e = 1 /\ e' = 0 /\ event = f + b + 1
      BY <3>1 DEF Held, JournalRuns
    <3>3. /\ file' = Run(0, Len(file')) /\ buffer' = Run(Len(file'), Len(buffer'))
          /\ Len(file') + Len(buffer') = f + b + 1
      <4>1. CASE buffer' = Append(buffer, event) /\ UNCHANGED file
        <5>1. buffer' = Run(f, b + 1)
          <6>1. buffer = Run(f, b)
            BY DEF JournalRuns
          <6>2. Append(Run(f, b), f + b + 1) = Run(f, b + 1)
            BY <1>0, RunAppend
          <6> QED  BY <3>2, <4>1, <6>1, <6>2
        <5>2. b + 1 \in Nat /\ f + (b + 1) = f + b + 1
          BY <1>0, SMT
        <5>3. Len(buffer') = b + 1
          BY <1>0, <5>1, <5>2, RunType
        <5> QED  BY <4>1, <5>1, <5>2, <5>3 DEF JournalRuns
      <4>2. CASE file' = file \o buffer /\ buffer' = <<event>>
        <5>1. file' = Run(0, Len(file')) /\ Len(file') = f + b
          BY <4>2, FlushedRuns
        <5>2. buffer' = Run(f + b, 1)
          BY <1>0, <3>2, <4>2, RunOne
        <5>3. Len(buffer') = 1
          BY <4>2, SMT
        <5> QED  BY <5>1, <5>2, <5>3
      <4> QED  BY <3>1, <4>1, <4>2 DEF AppendRecord
    <3>4. output_q = Run(f + b + 1, q) /\ output_seq = f + b + 1 + q + to_send
      BY <3>1, <3>2 DEF JournalRuns
    <3>5. f + b + 1 + 0 = f + b + 1
      BY <1>0, SMT
    <3> QED  BY <2>1, <2>6, <3>1, <3>2, <3>3, <3>4, <3>5 DEF JournalRuns
  <2>7. CASE UNCHANGED <<file, buffer, event, output_q, journal_error>> /\ output_pc' # "append"
    BY <2>1, <2>7 DEF JournalRuns, Held
  <2>8. CASE OutputTryRecv
    BY <2>2, <2>4, <2>5, <2>7, <2>8 DEF OutputTryRecv, OutputFlow, Flushed, Take
  <2>9. CASE OutputRecv \/ OutputRecvAbandoned
    BY <2>4, <2>7, <2>9 DEF OutputRecv, OutputRecvAbandoned, OutputFlow, Take
  <2>10. CASE OutputCommit \/ OutputClose
    BY <2>2, <2>5, <2>7, <2>10 DEF OutputCommit, OutputClose, Flushed
  <2>11. CASE OutputAppend /\ output_pc' # "commit"
    BY <2>2, <2>11 DEF OutputAppend
  <2> QED  BY <1>3, <2>3, <2>6, <2>8, <2>9, <2>10, <2>11 DEF OutputThread
<1> QED  BY Steps, <1>1, <1>2, <1>3

-----------------------------------------------------------------------------
(* Types *)

\* The type invariant, by who writes.
FeedTypeOK ==
    /\ feed_pc \in {"check", "send", "full", "done"} /\ fed \in 0 .. Len(Source)
    /\ input_q \in Seq(1 .. Len(Source))

EngineTypeOK ==
    /\ pending \in 1 .. Len(Source) \cup {NoInput}
    /\ engine_pc \in {"recv", "recv_empty", "check", "kill", "commands", "apply", "send", "full",
                      "snapshot", "finish", "done"}
    /\ resume \in {"recv", "commands", "snapshot"} /\ to_send \in 0 .. output_seq
    /\ output_lost \in BOOLEAN /\ global_kill \in BOOLEAN
    /\ output_seq \in Nat /\ inputs \in Nat /\ late \in Nat
    /\ applied_feed \in Nat /\ applied_commands \in Nat /\ applied_kills \in Nat

OutputTypeOK ==
    /\ output_pc \in {"open", "try", "recv", "recv_empty", "append", "commit", "fail", "close",
                      "done"}
    /\ buffer \in Seq(Nat) /\ file \in Seq(Nat)
    /\ event \in Nat /\ since_flush \in Nat /\ synced \in Nat
    /\ torn \in BOOLEAN /\ journal_error \in BOOLEAN /\ output_failed \in BOOLEAN
    /\ journal_sync \in JournalSyncs

ControlTypeOK ==
    /\ kill \in BOOLEAN /\ shutdown \in BOOLEAN
    /\ commands \in Seq(Nat) /\ submitted \in Nat /\ kill_changes \in Nat
    /\ snapshots \in Seq(Nat) /\ telemetry_dropped \in Nat
    /\ due \in [kill : BOOLEAN, kill_changes : Nat, commands : Nat]

LEMMA TypeParts ==
  ASSUME FeedTypeOK', EngineTypeOK', OutputTypeOK', ControlTypeOK', output_q' \in Seq(Nat)
  PROVE  TypeOK'
BY DEF TypeOK, FeedTypeOK, EngineTypeOK, OutputTypeOK, ControlTypeOK

\* What a thread does not write keeps its type.
LEMMA TypeFrame ==
  ASSUME TypeOK
  PROVE  /\ UNCHANGED <<feed_pc, fed, input_q>> => FeedTypeOK'
         /\ UNCHANGED <<engine_pc, pending, to_send, resume, output_lost, late, core_vars>>
              => EngineTypeOK'
         /\ UNCHANGED <<output_vars, journal_sync>> => OutputTypeOK'
         /\ UNCHANGED <<control_vars, due>> => ControlTypeOK'
         /\ UNCHANGED output_q => output_q' \in Seq(Nat)
<1>1. UNCHANGED <<feed_pc, fed, input_q>> => FeedTypeOK'
  BY DEF TypeOK, FeedTypeOK
<1>2. UNCHANGED <<engine_pc, pending, to_send, resume, output_lost, late, core_vars>> => EngineTypeOK'
  BY DEF TypeOK, EngineTypeOK
<1>3. UNCHANGED <<output_vars, journal_sync>> => OutputTypeOK'
  BY DEF TypeOK, OutputTypeOK
<1>4. UNCHANGED <<control_vars, due>> => ControlTypeOK'
  BY DEF TypeOK, ControlTypeOK
<1>5. UNCHANGED output_q => output_q' \in Seq(Nat)
  BY DEF TypeOK
<1> QED  BY <1>1, <1>2, <1>3, <1>4, <1>5

\* The feed thread keeps its types.
LEMMA FeedTypes ==
  ASSUME IInv, FeedThread
  PROVE  TypeOK'
<1> USE DEF IInv
<1>1. feed_pc' \in {"check", "send", "full", "done"}
  BY DEF FeedThread, FeedEnd, FeedNext, FeedSend, FeedSendFull, FeedSendRetry
<1>2. fed' \in 0 .. Len(Source)
  <2>1. CASE UNCHANGED fed
    BY <2>1 DEF TypeOK
  <2>2. CASE fed' = fed + 1 /\ fed < Len(Source)
    BY <2>2, SourceAssumption, SMT DEF TypeOK
  <2> QED  BY <2>1, <2>2 DEF FeedThread, FeedEnd, FeedNext, FeedSend, FeedSendFull, FeedSendRetry, HasInput
<1>3. input_q' \in Seq(1 .. Len(Source))
  <2>1. CASE UNCHANGED input_q
    BY <2>1 DEF TypeOK
  <2>2. CASE FeedSend
    <3>1. Held(pending, NoInput) \in Nat
      BY SMT DEF Held
    <3>2. Len(input_q) \in Nat /\ applied_feed \in Nat
      BY SMT DEF TypeOK
    <3>3. fed = applied_feed + Held(pending, NoInput) + Len(input_q) + 1
      BY <2>2 DEF FeedSend, InputRuns
    <3>4. fed \in 1 .. Len(Source)
      BY <3>1, <3>2, <3>3, SourceAssumption, SMT DEF TypeOK
    <3> QED  BY <2>2, <3>4, SMT DEF FeedSend, TypeOK
  <2> QED  BY <2>1, <2>2 DEF FeedThread, FeedSendFull, FeedSendRetry
<1>4. FeedTypeOK'
  BY <1>1, <1>2, <1>3 DEF FeedTypeOK
<1>5. EngineTypeOK' /\ OutputTypeOK' /\ ControlTypeOK' /\ output_q' \in Seq(Nat)
  BY TypeFrame DEF FeedThread
<1> QED  BY <1>4, <1>5, TypeParts

\* So does the output thread.
LEMMA OutputTypes ==
  ASSUME IInv, OutputThread
  PROVE  TypeOK'
<1> USE DEF IInv
<1>1. output_pc' \in {"open", "try", "recv", "recv_empty", "append", "commit", "fail", "close", "done"}
  BY DEF OutputThread, OutputOpen, OutputTryRecv, OutputRecv, OutputRecvAbandoned,
         OutputAppend, OutputCommit, OutputFail, OutputClose, Take
<1>2. torn' \in BOOLEAN /\ journal_error' \in BOOLEAN /\ output_failed' \in BOOLEAN
  BY DEF OutputThread, OutputOpen, OutputTryRecv, OutputRecv, OutputRecvAbandoned, OutputAppend,
         OutputCommit, OutputFail, OutputClose, Take, Flushed, PartlyFlushed, AppendRecord, TypeOK
<1>3. output_q' \in Seq(Nat) /\ event' \in Nat
  <2>1. CASE UNCHANGED output_q /\ (UNCHANGED event \/ event' = 0)
    BY <2>1, SMT DEF TypeOK
  <2>2. CASE Take
    <3>1. \A x \in Seq(Nat) : x # <<>> => Head(x) \in Nat /\ Tail(x) \in Seq(Nat)
      BY SMT
    <3> QED  BY <2>2, <3>1 DEF Take, TypeOK
  <2> QED  BY <2>1, <2>2 DEF OutputThread, OutputOpen, OutputTryRecv, OutputRecv, OutputRecvAbandoned,
                             OutputAppend, OutputCommit, OutputFail, OutputClose
<1>4. since_flush' \in Nat
  <2>1. since_flush' \in {since_flush, 0, since_flush + 1}
    BY DEF OutputThread, OutputOpen, OutputTryRecv, OutputRecv, OutputRecvAbandoned,
           OutputAppend, OutputCommit, OutputFail, OutputClose
  <2> QED  BY <2>1, SMT DEF TypeOK
<1>5. synced' \in Nat
  <2>1. synced' \in {synced, Len(file) + Len(buffer)}
    BY DEF OutputThread, OutputOpen, OutputTryRecv, OutputRecv, OutputRecvAbandoned,
           OutputAppend, OutputCommit, OutputFail, OutputClose, AppendRecord
  <2> QED  BY <2>1, SMT DEF TypeOK
<1>6. file' \in Seq(Nat) /\ buffer' \in Seq(Nat)
  <2>1. CASE UNCHANGED <<file, buffer>>
    BY <2>1 DEF TypeOK
  <2>2. CASE file' = file \o buffer /\ buffer' = <<>>
    BY <2>2, SMT DEF TypeOK
  <2>3. CASE PartlyFlushed
    <3>1. PICK k \in 0 .. Len(buffer) : /\ file' = file \o SubSeq(buffer, 1, k)
                                        /\ buffer' = SubSeq(buffer, k + 1, Len(buffer))
      BY <2>3 DEF PartlyFlushed
    <3>2. \A x \in Seq(Nat), n \in Nat : n <= Len(x) =>
             SubSeq(x, 1, n) \in Seq(Nat) /\ SubSeq(x, n + 1, Len(x)) \in Seq(Nat)
      BY SMT
    <3>3. k \in Nat /\ k <= Len(buffer)
      BY SMT DEF TypeOK
    <3>4. \A x, y \in Seq(Nat) : x \o y \in Seq(Nat)
      BY SMT
    <3> QED  BY <3>1, <3>2, <3>3, <3>4 DEF TypeOK
  <2>4. CASE AppendRecord(event)
    <3>1. \A x, y \in Seq(Nat), n \in Nat :
            x \o y \in Seq(Nat) /\ Append(x, n) \in Seq(Nat) /\ <<n>> \in Seq(Nat)
      BY SMT
    <3> QED  BY <2>4, <3>1 DEF AppendRecord, TypeOK
  <2> QED  BY <2>1, <2>2, <2>3, <2>4
           DEF OutputThread, OutputOpen, OutputTryRecv, OutputRecv, OutputRecvAbandoned,
               OutputAppend, OutputCommit, OutputFail, OutputClose, Flushed
<1>7. OutputTypeOK'
  BY <1>1, <1>2, <1>3, <1>4, <1>5, <1>6 DEF OutputThread, OutputTypeOK, TypeOK
<1>8. FeedTypeOK' /\ EngineTypeOK' /\ ControlTypeOK'
  BY TypeFrame DEF OutputThread
<1> QED  BY <1>3, <1>7, <1>8, TypeParts

\* So does the control handle.
LEMMA ControlTypes ==
  ASSUME IInv, Control
  PROVE  TypeOK'
<1> USE DEF IInv
<1>1. kill' \in BOOLEAN /\ shutdown' \in BOOLEAN
  BY DEF Control, StoreKill, Submit, TakeSnapshot, RequestShutdown, TypeOK
<1>2. commands' \in Seq(Nat) /\ submitted' \in Nat /\ kill_changes' \in Nat
  <2>1. \A x \in Seq(Nat), n \in Nat : Append(x, n + 1) \in Seq(Nat) /\ n + 1 \in Nat
    BY SMT
  <2>2. commands' \in {commands, Append(commands, submitted + 1)}
    BY DEF Control, StoreKill, Submit, TakeSnapshot, RequestShutdown
  <2>3. submitted' \in {submitted, submitted + 1}
    BY DEF Control, StoreKill, Submit, TakeSnapshot, RequestShutdown
  <2>4. kill_changes' \in {kill_changes, kill_changes + 1}
    BY DEF Control, StoreKill, Submit, TakeSnapshot, RequestShutdown
  <2> QED  BY <2>1, <2>2, <2>3, <2>4 DEF TypeOK
<1>3. snapshots' \in Seq(Nat) /\ telemetry_dropped' \in Nat
  <2>1. \A x \in Seq(Nat) : x # <<>> => Tail(x) \in Seq(Nat)
    BY SMT
  <2> QED  BY <2>1 DEF Control, StoreKill, Submit, TakeSnapshot, RequestShutdown, TypeOK
<1>4. due' \in [kill : BOOLEAN, kill_changes : Nat, commands : Nat]
  <2>1. CASE UNCHANGED due
    BY <2>1 DEF TypeOK
  <2>2. CASE due' = [due EXCEPT !.kill = @ /\ ~kill]
    <3>1. \A d \in [kill : BOOLEAN, kill_changes : Nat, commands : Nat], x \in BOOLEAN :
            [d EXCEPT !.kill = x] \in [kill : BOOLEAN, kill_changes : Nat, commands : Nat]
      BY SMT
    <3>2. (due.kill /\ ~kill) \in BOOLEAN
      OBVIOUS
    <3> QED  BY <2>2, <3>1, <3>2 DEF TypeOK
  <2> QED  BY <2>1, <2>2 DEF Control, StoreKill, Submit, TakeSnapshot, RequestShutdown
<1>5. ControlTypeOK'
  BY <1>1, <1>2, <1>3, <1>4 DEF ControlTypeOK
<1>6. FeedTypeOK' /\ EngineTypeOK' /\ OutputTypeOK' /\ output_q' \in Seq(Nat)
  BY TypeFrame DEF Control
<1> QED  BY <1>5, <1>6, TypeParts

\* So does the engine thread.
LEMMA EngineTypes ==
  ASSUME IInv, EngineThread
  PROVE  TypeOK'
<1> USE DEF IInv
<1>1. /\ engine_pc' \in {"recv", "recv_empty", "check", "kill", "commands", "apply", "send", "full",
                         "snapshot", "finish", "done"}
      /\ resume' \in {"recv", "commands", "snapshot"}
  <2>1. resume' \in {resume, "commands", "snapshot"}
    BY DEF EngineThread, EngineRecv, EngineRecvAbandoned, EngineCheckOutput, EngineReadKill,
           EngineCommand, EngineApply, EngineSend, EngineSendRetry, EngineSnapshot, EngineFinish, Apply
  <2>2. engine_pc' \in {"recv", "recv_empty", "check", "kill", "commands", "apply", "send", "full",
                        "snapshot", "finish", "done", resume}
    BY DEF EngineThread, EngineRecv, EngineRecvAbandoned, EngineCheckOutput, EngineReadKill, Receive,
           EngineCommand, EngineApply, EngineSend, EngineSendRetry, EngineSnapshot, EngineFinish, Apply
  <2> QED  BY <2>1, <2>2 DEF TypeOK
<1>2. output_lost' \in BOOLEAN /\ global_kill' \in BOOLEAN /\ shutdown' \in BOOLEAN
  BY DEF EngineThread, EngineRecv, EngineRecvAbandoned, EngineCheckOutput, EngineReadKill,
         EngineCommand, EngineApply, EngineSend, EngineSendRetry, EngineSnapshot, EngineFinish, TypeOK
<1>3. /\ inputs' \in Nat /\ late' \in Nat
      /\ applied_feed' \in Nat /\ applied_commands' \in Nat /\ applied_kills' \in Nat
  <2>1. inputs' \in {inputs, inputs + 1} /\ late' \in {late, late + 1}
    BY DEF EngineThread, EngineRecv, EngineRecvAbandoned, EngineCheckOutput, EngineReadKill,
           EngineCommand, EngineApply, EngineSend, EngineSendRetry, EngineSnapshot, EngineFinish, Apply
  <2>2. /\ applied_feed' \in {applied_feed, applied_feed + 1}
        /\ applied_commands' \in {applied_commands, applied_commands + 1}
        /\ applied_kills' \in {applied_kills, applied_kills + 1}
    BY DEF EngineThread, EngineRecv, EngineRecvAbandoned, EngineCheckOutput, EngineReadKill,
           EngineCommand, EngineApply, EngineSend, EngineSendRetry, EngineSnapshot, EngineFinish
  <2>3. \A n \in Nat : n + 1 \in Nat
    BY SMT
  <2> QED  BY <2>1, <2>2, <2>3 DEF TypeOK
<1>4. output_seq' \in Nat /\ to_send' \in 0 .. output_seq'
  <2>1. CASE UNCHANGED <<output_seq, to_send>>
    BY <2>1 DEF TypeOK
  <2>2. CASE \E next \in {"commands", "snapshot"} : Apply(next)
    <3>1. PICK n \in BatchSizes : output_seq' = output_seq + n /\ to_send' = n
      BY <2>2 DEF Apply
    <3> QED  BY <3>1, BatchAssumption, SMT DEF TypeOK
  <2>3. CASE EngineSend /\ to_send' = to_send - 1
    <3>1. to_send > 0 /\ UNCHANGED output_seq
      BY <2>3 DEF EngineSend, EngineFlow
    <3> QED  BY <2>3, <3>1, SMT DEF TypeOK
  <2> QED  BY <2>1, <2>2, <2>3
           DEF EngineThread, EngineRecv, EngineRecvAbandoned, EngineCheckOutput, EngineReadKill,
               EngineCommand, EngineApply, EngineSend, EngineSendRetry, EngineSnapshot, EngineFinish
<1>5. /\ pending' \in 1 .. Len(Source) \cup {NoInput} /\ input_q' \in Seq(1 .. Len(Source))
      /\ due' \in [kill : BOOLEAN, kill_changes : Nat, commands : Nat]
  <2>1. CASE UNCHANGED <<input_q, due>> /\ pending' \in {pending, NoInput}
    BY <2>1 DEF TypeOK
  <2>2. CASE Receive /\ UNCHANGED <<kill, kill_changes, submitted>>
    <3>1. PICK S : S = 1 .. Len(Source)
      OBVIOUS
    <3>2. \A x \in Seq(S) : x # <<>> => Head(x) \in S /\ Tail(x) \in Seq(S)
      BY SMT
    <3>3. pending' \in S /\ input_q' \in Seq(S)
      BY <2>2, <3>1, <3>2 DEF Receive, TypeOK
    <3>4. due' \in [kill : BOOLEAN, kill_changes : Nat, commands : Nat]
      BY <2>2 DEF Receive, TypeOK
    <3> QED  BY <3>1, <3>3, <3>4
  <2> QED  BY <2>1, <2>2
           DEF EngineThread, EngineRecv, EngineRecvAbandoned, EngineCheckOutput, EngineReadKill,
               EngineCommand, EngineApply, EngineSend, EngineSendRetry, EngineSnapshot, EngineFinish
<1>6. output_q' \in Seq(Nat)
  <2>1. CASE UNCHANGED output_q
    BY <2>1 DEF TypeOK
  <2>2. CASE output_q' = Append(output_q, output_seq - to_send + 1)
    <3>1. output_seq - to_send + 1 \in Nat
      BY SMT DEF TypeOK
    <3>2. \A x \in Seq(Nat), n \in Nat : Append(x, n) \in Seq(Nat)
      BY SMT
    <3> QED  BY <2>2, <3>1, <3>2 DEF TypeOK
  <2> QED  BY <2>1, <2>2
           DEF EngineThread, EngineRecv, EngineRecvAbandoned, EngineCheckOutput, EngineReadKill,
               EngineCommand, EngineApply, EngineSend, EngineSendRetry, EngineSnapshot, EngineFinish
<1>7. commands' \in Seq(Nat) /\ UNCHANGED <<kill, kill_changes, submitted>>
  <2>1. \A x \in Seq(Nat) : x # <<>> => Tail(x) \in Seq(Nat)
    BY SMT
  <2>2. UNCHANGED commands \/ (commands # <<>> /\ commands' = Tail(commands))
    BY DEF EngineThread, EngineRecv, EngineRecvAbandoned, EngineCheckOutput, EngineReadKill,
           EngineCommand, EngineApply, EngineSend, EngineSendRetry, EngineSnapshot, EngineFinish
  <2>3. UNCHANGED <<kill, kill_changes, submitted>>
    BY DEF EngineThread, EngineRecv, EngineRecvAbandoned, EngineCheckOutput, EngineReadKill,
           EngineCommand, EngineApply, EngineSend, EngineSendRetry, EngineSnapshot, EngineFinish
  <2> QED  BY <2>1, <2>2, <2>3 DEF TypeOK
<1>8. snapshots' \in Seq(Nat) /\ telemetry_dropped' \in Nat
  <2>1. CASE UNCHANGED snap_vars
    BY <2>1 DEF TypeOK
  <2>2. CASE PublishSnapshot
    <3>1. \A x \in Seq(Nat), n \in Nat : Append(x, n) \in Seq(Nat)
      BY SMT
    <3>2. Len(snapshots) >= SnapshotCapacity => snapshots # <<>>
      BY CapacityAssumption, SMT
    <3>3. (IF Len(snapshots) >= SnapshotCapacity THEN Tail(snapshots) ELSE snapshots) \in Seq(Nat)
      <4>1. \A x \in Seq(Nat) : x # <<>> => Tail(x) \in Seq(Nat)
        BY SMT
      <4> QED  BY <3>2, <4>1 DEF TypeOK
    <3>4. snapshots' \in Seq(Nat)
      BY <2>2, <3>1, <3>3 DEF PublishSnapshot, TypeOK
    <3>5. telemetry_dropped' \in {telemetry_dropped, telemetry_dropped + 1}
      BY <2>2 DEF PublishSnapshot
    <3>6. telemetry_dropped + 1 \in Nat
      BY SMT DEF TypeOK
    <3> QED  BY <3>4, <3>5, <3>6 DEF TypeOK
  <2> QED  BY <2>1, <2>2
           DEF EngineThread, EngineRecv, EngineRecvAbandoned, EngineCheckOutput, EngineReadKill,
               EngineCommand, EngineApply, EngineSend, EngineSendRetry, EngineSnapshot, EngineFinish
<1>9. FeedTypeOK'
  BY <1>5 DEF EngineThread, FeedTypeOK, TypeOK
<1>10. EngineTypeOK'
  BY <1>1, <1>2, <1>3, <1>4, <1>5 DEF EngineTypeOK
<1>11. OutputTypeOK'
  BY TypeFrame DEF EngineThread
<1>12. ControlTypeOK'
  BY <1>2, <1>5, <1>7, <1>8 DEF ControlTypeOK, TypeOK
<1> QED  BY <1>6, <1>9, <1>10, <1>11, <1>12, TypeParts

-----------------------------------------------------------------------------
(* The invariant holds *)

LEMMA InitInv == Init => IInv
<1> SUFFICES ASSUME Init PROVE IInv
  OBVIOUS
<1> USE DEF Init
<1>0. <<>> \in Seq(Nat) /\ <<>> \in Seq(1 .. Len(Source)) /\ Len(<<>>) = 0 /\ 0 \in Nat
      /\ 0 + 0 = 0 /\ 0 + 0 + 0 = 0 /\ 0 + 0 + 0 + 0 + 0 = 0 /\ 0 <= 0 /\ 0 \in 0 .. 0
  BY SMT
<1>1. TypeOK
  <2>1. 0 \in 0 .. Len(Source)
    BY SourceAssumption, SMT
  <2>2. due \in [kill : BOOLEAN, kill_changes : Nat, commands : Nat]
    BY <1>0
  <2> QED  BY <1>0, <2>1, <2>2 DEF TypeOK
<1>2. JournalRuns
  BY <1>0, RunEmpty DEF JournalRuns, Held
<1>3. InputRuns
  BY <1>0, RunEmpty DEF InputRuns, Held
<1>4. EngineFlow /\ OutputFlow /\ LateOnce
  <2>1. EngineFlow
    BY DEF EngineFlow
  <2>2. OutputFlow
    BY DEF OutputFlow
  <2>3. LateOnce
    BY SMT DEF LateOnce
  <2> QED  BY <2>1, <2>2, <2>3
<1>5. KillFlow
  BY DEF KillFlow
<1>6. CommandFlow
  <2>1. due.commands = 0
    OBVIOUS
  <2> QED  BY <1>0, <2>1 DEF CommandFlow
<1>7. SyncFlow
  <2>1. 0 < GroupSize
    BY GroupAssumption, SMT
  <2> QED  BY <1>0, <2>1 DEF SyncFlow
<1> QED  BY <1>1, <1>2, <1>3, <1>4, <1>5, <1>6, <1>7 DEF IInv

LEMMA TypeStep ==
  ASSUME IInv, [Next]_vars
  PROVE  TypeOK'
<1>1. CASE UNCHANGED vars
  <2>1. FeedTypeOK' /\ EngineTypeOK' /\ OutputTypeOK' /\ ControlTypeOK' /\ output_q' \in Seq(Nat)
    BY <1>1, TypeFrame DEF IInv
  <2> QED  BY <2>1, TypeParts
<1> QED  BY <1>1, Steps, FeedTypes, EngineTypes, OutputTypes, ControlTypes

LEMMA NextInv == IInv /\ [Next]_vars => IInv'
BY TypeStep, JournalStep, InputStep, EngineStep, OutputStep, LateStep, KillStep, CommandStep,
   SyncStep DEF IInv

LEMMA Invariance == Spec => []IInv
BY InitInv, NextInv, PTL DEF Spec

-----------------------------------------------------------------------------
(* What the runs check, for every instance *)

LEMMA UptoRun ==
  ASSUME NEW n \in Nat
  PROVE  Upto(n) = Run(0, n)
BY SMT DEF Upto, Run

\* One held element, or none, is a run.
HeldSeq(v, none) == IF v = none THEN <<>> ELSE <<v>>

LEMMA HeldRun ==
  ASSUME NEW a \in Nat, NEW v, NEW none, v # none => v = a + 1
  PROVE  HeldSeq(v, none) = Run(a, Held(v, none))
<1>1. CASE v = none
  <2>1. 0 \in Nat
    BY SMT
  <2> QED  BY <1>1, <2>1, RunEmpty DEF Held, HeldSeq
<1>2. CASE v # none
  BY <1>2, RunOne DEF Held, HeldSeq
<1> QED  BY <1>1, <1>2

\* Type correctness.
THEOREM TypeCorrect == Spec => []TypeOK
BY Invariance, PTL DEF IInv

\* The journal is a gapless, ordered prefix of the core's outputs, and until a
\* write fails the record in hand and the ring hold the rest.
THEOREM JournalAlwaysPrefix == Spec => []JournalIsPrefix
<1>1. IInv => JournalIsPrefix
  <2> SUFFICES ASSUME IInv PROVE JournalIsPrefix
    OBVIOUS
  <2>0. PICK f, b, e, q : /\ f = Len(file) /\ b = Len(buffer) /\ e = Held(event, 0) /\ q = Len(output_q)
    OBVIOUS
  <2>1. /\ f \in Nat /\ b \in Nat /\ q \in Nat /\ e \in Nat
        /\ to_send \in Nat /\ output_seq \in Nat
    <3>1. f \in Nat /\ b \in Nat /\ q \in Nat /\ to_send \in Nat /\ output_seq \in Nat
      BY <2>0, SMT DEF IInv, TypeOK
    <3>2. e \in Nat
      BY <2>0, SMT DEF Held
    <3> QED  BY <3>1, <3>2
  <2>2. f + b \in Nat /\ f + b + e \in Nat /\ f + b + e + q \in Nat
    BY <2>1, SMT
  <2>3. file \o buffer = Run(0, f + b)
    <3>1. file = Run(0, f) /\ buffer = Run(f, b)
      BY <2>0 DEF IInv, JournalRuns
    <3> QED  BY <2>1, <3>1, RunJoin
  <2>4. file \o buffer = Upto(Len(file) + Len(buffer))
    BY <2>0, <2>2, <2>3, UptoRun
  <2>5. ASSUME ~journal_error
        PROVE  file \o buffer \o (IF event = 0 THEN <<>> ELSE <<event>>) \o output_q
                 = Upto(output_seq - to_send)
    <3>1. /\ event # 0 => event = f + b + 1
          /\ output_q = Run(f + b + e, q) /\ output_seq = f + b + e + q + to_send
      BY <2>0, <2>5 DEF IInv, JournalRuns
    <3>2. (IF event = 0 THEN <<>> ELSE <<event>>) = Run(f + b, e)
      <4>1. HeldSeq(event, 0) = Run(f + b, Held(event, 0))
        BY <2>2, <3>1, HeldRun
      <4> QED  BY <2>0, <4>1 DEF HeldSeq
    <3>3. /\ Run(0, f + b) \o Run(f + b, e) = Run(0, f + b + e)
          /\ Run(0, f + b + e) \o Run(f + b + e, q) = Run(0, f + b + e + q)
      BY <2>1, <2>2, RunJoin
    <3>4. output_seq - to_send = f + b + e + q
      BY <2>1, <3>1, SMT
    <3>5. file \o buffer \o (IF event = 0 THEN <<>> ELSE <<event>>) \o output_q
            = Run(0, f + b + e + q)
      BY <2>3, <3>1, <3>2, <3>3
    <3> QED  BY <2>2, <3>4, <3>5, UptoRun
  <2> QED  BY <2>4, <2>5 DEF JournalIsPrefix
<1> QED  BY <1>1, Invariance, PTL

\* Inputs are applied in feed order, none skipped, and a send is abandoned only
\* when the engine has given up.
THEOREM InputsAlwaysInOrder == Spec => []InputsInOrder
<1>1. IInv => InputsInOrder
  <2> SUFFICES ASSUME IInv PROVE InputsInOrder
    OBVIOUS
  <2>0. PICK a, p, i : a = applied_feed /\ p = Held(pending, NoInput) /\ i = Len(input_q)
    OBVIOUS
  <2>1. a \in Nat /\ p \in Nat /\ i \in Nat /\ fed \in Nat
    <3>1. a \in Nat /\ i \in Nat /\ fed \in Nat
      BY <2>0, SourceAssumption, SMT DEF IInv, TypeOK
    <3>2. p \in Nat
      BY <2>0, SMT DEF Held
    <3> QED  BY <3>1, <3>2
  <2>2. a + p \in Nat /\ p + i \in Nat
    BY <2>1, SMT
  <2> DEFINE held == (IF pending = NoInput THEN <<>> ELSE <<pending>>) \o input_q
  <2>3. held = Run(a, p + i)
    <3>1. (IF pending = NoInput THEN <<>> ELSE <<pending>>) = Run(a, p)
      <4>1. pending # NoInput => pending = a + 1
        BY <2>0 DEF IInv, InputRuns
      <4>2. HeldSeq(pending, NoInput) = Run(a, Held(pending, NoInput))
        <5>1. a \in Nat
          BY <2>1
        <5> HIDE DEF held
        <5> QED  BY <5>1, <4>1, HeldRun
      <4> QED  BY <2>0, <4>2 DEF HeldSeq
    <3>2. input_q = Run(a + p, i)
      BY <2>0 DEF IInv, InputRuns
    <3>3. Run(a, p) \o Run(a + p, i) = Run(a, p + i)
      BY <2>1, RunConcat
    <3> QED  BY <3>1, <3>2, <3>3
  <2>4. Len(held) = p + i /\ \A k \in 1 .. Len(held) : held[k] = a + k
    <3>1. Len(Run(a, p + i)) = p + i /\ \A k \in 1 .. p + i : Run(a, p + i)[k] = a + k
      BY <2>1, <2>2, RunType, RunAt
    <3> HIDE DEF held
    <3> QED  BY <2>3, <3>1
  <2>5. /\ fed = a + p + i => fed - a - (p + i) = 0
        /\ fed = a + p + i + 1 => fed - a - (p + i) = 1
    BY <2>1, SMT
  <2>6. /\ feed_pc = "check" => fed = a + p + i
        /\ feed_pc \in {"send", "full"} => fed = a + p + i + 1
        /\ feed_pc = "done" => fed = a + p + i \/ (fed = a + p + i + 1 /\ output_lost)
    BY <2>0 DEF IInv, InputRuns
  <2> HIDE DEF held
  <2>7. /\ feed_pc = "check" => fed - a - Len(held) = 0
        /\ feed_pc \in {"send", "full"} => fed - a - Len(held) = 1
        /\ feed_pc = "done" => fed - a - Len(held) = 0 \/ (fed - a - Len(held) = 1 /\ output_lost)
    BY <2>4, <2>5, <2>6
  <2> QED  BY <2>0, <2>4, <2>7 DEF InputsInOrder, held
<1> QED  BY <1>1, Invariance, PTL

\* A run that reports success lost nothing, and a lost output is always
\* reported with the journal error behind it.
THEOREM ResultAlwaysHonest == Spec => []ResultIsHonest
<1>1. IInv => ResultIsHonest
  <2> SUFFICES ASSUME IInv PROVE ResultIsHonest
    OBVIOUS
  <2>1. output_lost => journal_error
    BY DEF IInv, EngineFlow
  <2>2. ASSUME Joined, Result = "Ok"
        PROVE  applied_feed = fed /\ file = Upto(output_seq) /\ ~torn /\ synced = output_seq
    <3>1. ~journal_error /\ ~output_lost
      BY <2>2 DEF Result
    <3>2. to_send = 0 /\ pending = NoInput /\ input_q = <<>>
      BY <2>2, <3>1 DEF Joined, IInv, EngineFlow
    <3>3. output_q = <<>> /\ event = 0 /\ buffer = <<>> /\ ~torn /\ synced = Len(file)
      BY <2>2, <3>1 DEF Joined, IInv, OutputFlow
    <3>4. Len(<<>>) = 0 /\ Len(file) \in Nat /\ applied_feed \in Nat
      BY SMT DEF IInv, TypeOK
    <3>5. fed = applied_feed + 0 + 0
      BY <2>2, <3>1, <3>2, <3>4 DEF Joined, IInv, InputRuns, Held
    <3>6. output_seq = Len(file) + 0 + 0 + 0 + 0
      BY <3>1, <3>2, <3>3, <3>4 DEF IInv, JournalRuns, Held
    <3>7. fed = applied_feed /\ output_seq = Len(file)
      BY <3>4, <3>5, <3>6, SMT
    <3>8. file = Upto(Len(file))
      BY <3>4, UptoRun DEF IInv, JournalRuns
    <3> QED  BY <3>3, <3>7, <3>8
  <2> QED  BY <2>1, <2>2 DEF ResultIsHonest
<1> QED  BY <1>1, Invariance, PTL

\* After the output thread failed at most one more feed input is applied.
THEOREM AlwaysStopsAfterFailure == Spec => []StopsAfterFailure
<1>1. IInv => StopsAfterFailure
  <2> SUFFICES ASSUME IInv PROVE StopsAfterFailure
    OBVIOUS
  <2>1. late \in {0, 1}
    BY DEF IInv, LateOnce
  <2> QED  BY <2>1, SMT DEF StopsAfterFailure
<1> QED  BY <1>1, Invariance, PTL

\* No input overtakes the kill or the commands requested before it.
THEOREM ControlNeverOvertaken == Spec => []ControlNotOvertaken
<1>1. IInv => ControlNotOvertaken
  BY DEF IInv, KillFlow, CommandFlow, ControlNotOvertaken
<1> QED  BY <1>1, Invariance, PTL

\* The journal keeps the visibility its sync mode promises.
THEOREM SyncContractKept == Spec => []SyncContract
<1>1. IInv => SyncContract
  <2> SUFFICES ASSUME IInv PROVE SyncContract
    OBVIOUS
  <2>1. Len(buffer) \in Nat /\ since_flush \in Nat
    BY SMT DEF IInv, TypeOK
  <2>2. Len(buffer) <= since_flush /\ since_flush < GroupSize => Len(buffer) < GroupSize
    BY <2>1, GroupAssumption, SMT
  <2> QED  BY <2>2 DEF IInv, SyncFlow, SyncContract
<1> QED  BY <1>1, Invariance, PTL
=============================================================================
