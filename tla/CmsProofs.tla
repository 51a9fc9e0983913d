----------------------------- MODULE CmsProofs -----------------------------
(***************************************************************************)
(* The program cms and the function pp that it gives to scripts.           *)
(*                                                                         *)
(* The program, for any command line, any number of lines and of jobs:     *)
(* exit code 0 means that everything was executed, and main returns every  *)
(* reference it owns.  The buffer of pp, for every size and every string:  *)
(* nothing is lost.                                                        *)
(***************************************************************************)
EXTENDS CmsMain, Pp, SequenceTheorems, TLAPS

-----------------------------------------------------------------------------
(* The program.                                                            *)

\* What main owns follows from where it is.
Held == held = CASE pc = "run" -> {"script"}
                 [] pc = "print" -> {"result"}
                 [] pc \in {"fileError", "lineError"} -> {"exception"}
                 [] OTHER -> {}

\* So does the state of the engine: a run of the jobs and the cleanup are calls of main.
Engine ==
  /\ current # None => mode = "draining"
  /\ mode = "draining" => pc \in {"lineJobs", "jobs"}
  /\ mode = "cleanup" => pc = "cleanup"
  /\ mode = "down" => pc = "exit"
  /\ pc = "exit" => mode = "down" \/ made = 0
  /\ api <=> pc \notin {"args", "exit"}
  /\ pc = "args" => made = 0 /\ code = "none"

\* A job that is discarded, or still waits, was enqueued.
Counted ==
  /\ lost + Len(queue) <= made
  /\ pc \notin {"cleanup", "exit"} => lost = 0

Help == \E n \in DOMAIN argv : argv[n] = "--help"

\* The arguments before n that name a file are in the list of files.
Listed(n) == \A a \in 1 .. n : argv[a] = "name" => \E k \in 1 .. Len(files) : files[k] = a

\* The files that ran are a prefix of the files that were named.
Files ==
  /\ Len(argv) <= MaxArgs
  /\ pc = "args" => i <= Len(argv) + 1 /\ Listed(i - 1) /\ ran = <<>>
  /\ pc # "args" /\ code = "ok" => Help \/ Listed(Len(argv))
  /\ Len(ran) <= Len(files) /\ \A k \in 1 .. Len(ran) : ran[k] = files[k]
  /\ pc = "run" /\ files # <<>> => Len(ran) < Len(files)
  /\ pc \in {"prompt", "print", "lineJobs", "lineError"} => files = <<>>

\* What exit code 0 promises, from the last call of jerry_run_jobs on.
Success ==
  /\ pc \in {"jobs", "cleanup", "exit"} /\ code = "ok" => Help \/ ran = files
  /\ pc \in {"cleanup", "exit"} /\ code = "ok" => Help \/ (queue = <<>> /\ lost = 0)

IInv == TypeOK /\ Held /\ Engine /\ Counted /\ Files /\ Success

-----------------------------------------------------------------------------

LEMMA InitIInv == Init => IInv
<1> SUFFICES ASSUME Init PROVE IInv
  OBVIOUS
<1> USE BoundAssumption DEF Init, Jobs!Init
<1>1. PICK n \in 0 .. MaxArgs : argv \in [1 .. n -> Argument]
  OBVIOUS
<1>2. argv \in Seq(Argument) /\ Len(argv) = n /\ n \in Nat /\ n <= MaxArgs
  BY <1>1
<1>3. TypeOK
  <2>1. <<>> \in Seq(1 .. MaxArgs - 1) /\ <<>> \in Seq(Job)
    BY EmptySeq
  <2>2. i \in 1 .. MaxArgs /\ lines \in 0 .. MaxLines /\ made \in 0 .. MaxJobs
    OBVIOUS
  <2> QED BY <1>2, <2>1, <2>2 DEF TypeOK, Jobs!Modes
<1>4. Held /\ Engine /\ Counted /\ Success
  BY EmptySeq DEF Held, Engine, Counted, Success
<1>5. Files
  BY <1>2, EmptySeq DEF Files, Listed
<1> QED BY <1>3, <1>4, <1>5 DEF IInv

LEMMA AllRan ==
  ASSUME TypeOK, Files, Len(ran) = Len(files) \/ files = <<>>
  PROVE  ran = files
<1>1. files \in Seq(1 .. MaxArgs - 1) /\ ran \in Seq(1 .. MaxArgs - 1)
  BY DEF TypeOK
<1>2. Len(files) \in Nat /\ Len(ran) \in Nat /\ Len(ran) <= Len(files)
  BY <1>1, LenProperties DEF Files
<1>3. Len(ran) = Len(files)
  BY <1>1, <1>2, EmptySeq
<1>4. \A k \in 1 .. Len(ran) : ran[k] = files[k]
  BY DEF Files
<1> QED BY <1>1, <1>3, <1>4, SeqEqual

\* The steps that touch neither the command line nor the job queue.
LEMMA QuietStep ==
  ASSUME IInv,
         \/ TooManyArguments \/ ParseFile \/ FileError \/ EndFiles \/ ReadLine \/ EndOfInput
         \/ EndLine \/ PrintResult \/ LineError
  PROVE  IInv'
<1> USE DEF TooManyArguments, ParseFile, FileError, EndFiles, ReadLine, EndOfInput,
            EndLine, PrintResult, LineError, Exit, jobVars
<1>1. TypeOK'
  <2>1. lines' \in 0 .. MaxLines
    BY BoundAssumption DEF IInv, TypeOK
  <2>2. pc' \in {"args", "files", "run", "fileError", "prompt", "print", "lineJobs",
                 "lineError", "jobs", "cleanup", "exit"}
    OBVIOUS
  <2>3. code' \in {"none", "ok", "fail"}
    BY DEF IInv, TypeOK
  <2>4. held' \subseteq {"script", "result", "exception"}
    BY DEF IInv, TypeOK
  <2>5. UNCHANGED <<argv, i, files, api, ran, made, lost, queue, current, mode>>
    OBVIOUS
  <2> HIDE DEF TooManyArguments, ParseFile, FileError, EndFiles, ReadLine, EndOfInput,
               EndLine, PrintResult, LineError
  <2> QED BY <2>1, <2>2, <2>3, <2>4, <2>5 DEF IInv, TypeOK
<1>2. Held'
  BY DEF IInv, Held
<1>3. Engine'
  BY DEF IInv, Engine
<1>4. Counted'
  BY DEF IInv, Counted
<1>5. Files'
  BY DEF IInv, Files, Listed, Engine, Help
<1>6. Success'
  <2>1. Len(ran) = Len(files) \/ files = <<>> => ran = files
    BY AllRan DEF IInv
  <2> QED BY <2>1 DEF IInv, Success, Files
<1> QED BY <1>1, <1>2, <1>3, <1>4, <1>5, <1>6 DEF IInv

\* The option loop.
LEMMA OptionStep == ASSUME IInv, Option PROVE IInv'
<1> USE BoundAssumption
<1>1. /\ pc = "args" /\ i <= Len(argv) /\ Len(argv) + 1 <= MaxArgs
      /\ UNCHANGED <<argv, api, held, ran, lines, made, lost, jobVars>>
  BY DEF Option, Accepted
<1>2. /\ argv \in Seq(Argument) /\ Len(argv) \in Nat /\ i \in Nat /\ i >= 1 /\ MaxArgs \in Nat
      /\ files \in Seq(1 .. MaxArgs - 1) /\ Len(files) \in Nat
      /\ i \in 1 .. Len(argv)
  BY <1>1, LenProperties DEF IInv, TypeOK
<1>3. CASE Exit("ok") /\ argv[i] = "--help" /\ UNCHANGED <<i, files>>
  <2>1. Help /\ Help'
    BY <1>1, <1>2, <1>3, LenProperties DEF Help
  <2>2. TypeOK' /\ Held' /\ Engine' /\ Counted'
    BY <1>1, <1>3 DEF IInv, TypeOK, Held, Engine, Counted, Exit, jobVars
  <2>3. Files' /\ Success'
    BY <1>1, <1>3, <2>1 DEF IInv, Files, Success, Exit, jobVars
  <2> QED BY <2>2, <2>3 DEF IInv
<1>4. CASE Exit("fail") /\ UNCHANGED <<i, files>>
  <2>1. TypeOK' /\ Held' /\ Engine' /\ Counted'
    BY <1>1, <1>4 DEF IInv, TypeOK, Held, Engine, Counted, Exit, jobVars
  <2>2. Files' /\ Success'
    BY <1>1, <1>4 DEF IInv, Files, Success, Exit, jobVars
  <2> QED BY <2>1, <2>2 DEF IInv
<1>5. ASSUME i' \in {i + 1, i + 2}, i' <= Len(argv) + 1, UNCHANGED <<files, pc, code>>,
             \A a \in i .. i' - 1 : argv[a] # "name"
      PROVE  IInv'
  <2>1. i' \in 1 .. MaxArgs
    BY <1>1, <1>2, <1>5
  <2>2. TypeOK' /\ Held' /\ Engine' /\ Counted' /\ Success'
    BY <1>1, <1>5, <2>1 DEF IInv, TypeOK, Held, Engine, Counted, Success, Help, jobVars
  <2>3. Listed(i' - 1)
    <3>1. \A a \in 1 .. i' - 1 : a \in 1 .. i - 1 \/ a \in i .. i' - 1
      <4>1. i \in Nat /\ i' \in Nat
        BY <1>2, <2>1
      <4>2. \A m, n \in Nat : \A a \in 1 .. n - 1 : a \in 1 .. m - 1 \/ a \in m .. n - 1
        OBVIOUS
      <4> QED BY <4>1, <4>2, Zenon
    <3>2. Listed(i - 1)
      BY <1>1 DEF IInv, Files
    <3> QED BY <1>5, <3>1, <3>2 DEF Listed
  <2>4. Files'
    BY <1>1, <1>5, <2>3 DEF IInv, Files, Listed
  <2> QED BY <2>2, <2>4 DEF IInv
<1>6. ASSUME files' = Append(files, i), i' = i + 1, UNCHANGED <<pc, code>>
      PROVE  IInv'
  <2>1. i' \in 1 .. MaxArgs /\ i \in 1 .. MaxArgs - 1
    BY <1>1, <1>2, <1>6
  <2>2. /\ files' \in Seq(1 .. MaxArgs - 1) /\ Len(files') = Len(files) + 1
        /\ \A k \in 1 .. Len(files) : files'[k] = files[k]
        /\ files'[Len(files) + 1] = i
    BY <1>2, <1>6, <2>1, AppendProperties
  <2>3. TypeOK' /\ Held' /\ Engine' /\ Counted' /\ Success'
    BY <1>1, <1>6, <2>1, <2>2 DEF IInv, TypeOK, Held, Engine, Counted, Success, jobVars
  <2>4. \A a \in 1 .. i : argv[a] = "name" => \E k \in 1 .. Len(files') : files'[k] = a
    <3> TAKE a \in 1 .. i
    <3> HAVE argv[a] = "name"
    <3>1. CASE a = i
      <4>1. Len(files) + 1 \in 1 .. Len(files')
        BY <1>2, <2>2
      <4> QED BY <2>2, <3>1, <4>1
    <3>2. CASE a # i
      <4>1. a \in 1 .. i - 1
        BY <1>2, <3>2
      <4>2. PICK k \in 1 .. Len(files) : files[k] = a
        BY <1>1, <4>1 DEF IInv, Files, Listed
      <4>3. k \in 1 .. Len(files')
        BY <1>2, <2>2
      <4> QED BY <2>2, <4>2, <4>3
    <3> QED BY <3>1, <3>2
  <2>5. i' - 1 = i
    BY <1>2, <1>6
  <2>6. ran' = <<>> /\ Len(ran') = 0 /\ Len(ran') <= Len(files')
    BY <1>1, <1>2, <2>2, EmptySeq DEF IInv, Files
  <2>7. Listed(i - 1)'
    BY <1>1, <2>4, <2>5 DEF Listed
  <2>8. Files'
    BY <1>1, <1>2, <1>6, <2>6, <2>7 DEF IInv, Files
  <2> QED BY <2>3, <2>8 DEF IInv
<1>7. CASE argv[i] = "--mem-stats" /\ i' = i + 1 /\ UNCHANGED <<files, pc, code>>
  <2>1. \A a \in i .. i' - 1 : a = i
    BY <1>2, <1>7
  <2> QED BY <1>2, <1>5, <1>7, <2>1
<1>8. CASE argv[i] = "--log-level" /\ i + 1 <= Len(argv) /\ argv[i + 1] = "level" /\ i' = i + 2
           /\ UNCHANGED <<files, pc, code>>
  <2>1. \A a \in i .. i' - 1 : a = i \/ a = i + 1
    BY <1>2, <1>8
  <2> QED BY <1>2, <1>5, <1>8, <2>1
<1> QED BY <1>3, <1>4, <1>6, <1>7, <1>8 DEF Option

\* jerry_init: nothing has run, and every argument was looked at.
LEMMA StartStep == ASSUME IInv, Start PROVE IInv'
<1>1. /\ pc = "args" /\ i > Len(argv) /\ api' = TRUE /\ code' = "ok"
      /\ pc' = IF files = <<>> THEN "prompt" ELSE "files"
      /\ UNCHANGED <<argv, i, files, held, ran, lines, made, lost, jobVars>>
  BY DEF Start
<1>2. i - 1 = Len(argv) /\ Listed(i - 1)
  <2>1. i \in Nat /\ Len(argv) \in Nat /\ i <= Len(argv) + 1 /\ Listed(i - 1)
    BY <1>1, LenProperties, BoundAssumption DEF IInv, TypeOK, Files
  <2>2. i - 1 = Len(argv)
    BY <1>1, <2>1
  <2> QED BY <2>1, <2>2
<1>3. Listed(Len(argv))
  BY <1>2
<1>4. pc' \in {"prompt", "files"} /\ (pc' = "prompt" => files = <<>>)
  BY <1>1
<1>5. TypeOK'
  BY <1>1, <1>4 DEF IInv, TypeOK, jobVars
<1>6. Held' /\ Engine' /\ Counted' /\ Success'
  BY <1>1, <1>4 DEF IInv, Held, Engine, Counted, Success, jobVars
<1>7. Files'
  BY <1>1, <1>3, <1>4 DEF IInv, Files, Listed
<1> QED BY <1>5, <1>6, <1>7 DEF IInv

\* A script ran to its end, or threw.
LEMMA EndFileStep == ASSUME IInv, EndFile PROVE IInv'
<1> DEFINE file == files[Len(ran) + 1]
<1>1. /\ pc = "run" /\ files # <<>>
      /\ UNCHANGED <<argv, i, files, code, api, lines, made, lost, jobVars>>
  BY DEF EndFile
<1>2. /\ Len(ran) \in Nat /\ Len(files) \in Nat /\ Len(ran) < Len(files)
      /\ ran \in Seq(1 .. MaxArgs - 1) /\ files \in Seq(1 .. MaxArgs - 1)
      /\ \A k \in 1 .. Len(ran) : ran[k] = files[k]
  BY <1>1, LenProperties DEF IInv, TypeOK, Files
<1>3. Len(ran) + 1 \in 1 .. Len(files)
  BY <1>2
<1>4. file \in 1 .. MaxArgs - 1
  BY <1>2, <1>3, ElementOfSeq
<1>5. /\ ran' \in Seq(1 .. MaxArgs - 1) /\ Len(ran') <= Len(files)
      /\ \A k \in 1 .. Len(ran') : ran'[k] = files[k]
  <2>1. CASE ran' = ran
    BY <1>2, <2>1
  <2>2. CASE ran' = Append(ran, file)
    <3>1. /\ ran' \in Seq(1 .. MaxArgs - 1) /\ Len(ran') = Len(ran) + 1
          /\ \A k \in 1 .. Len(ran) : ran'[k] = ran[k]
          /\ ran'[Len(ran) + 1] = file
      BY <1>2, <1>4, <2>2, AppendProperties
    <3> QED BY <1>2, <3>1
  <2> QED BY <2>1, <2>2 DEF EndFile
<1>6. /\ pc' \in {"files", "fileError"}
      /\ held' = IF pc' = "files" THEN held \ {"script"} ELSE (held \ {"script"}) \cup {"exception"}
  BY DEF EndFile
<1>7. held' = IF pc' = "files" THEN {} ELSE {"exception"}
  BY <1>1, <1>6 DEF IInv, Held
<1>8. TypeOK'
  BY <1>1, <1>5, <1>6, <1>7 DEF IInv, TypeOK, jobVars
<1>9. Held' /\ Engine' /\ Counted' /\ Success'
  BY <1>1, <1>6, <1>7 DEF IInv, Held, Engine, Counted, Success, jobVars
<1>10. Files'
  BY <1>1, <1>5, <1>6 DEF IInv, Files, Listed, Help
<1> QED BY <1>8, <1>9, <1>10 DEF IInv

LEMMA EnqueueStep == ASSUME IInv, NEW j \in Job, EnqueueJob(j) PROVE IInv'
<1>1. /\ pc \in {"run", "print"} \/ current # None
      /\ made < MaxJobs /\ made' = made + 1 /\ queue' = Append(queue, j)
      /\ UNCHANGED <<argv, i, files, pc, code, api, held, ran, lines, lost, current, mode>>
  BY DEF EnqueueJob, Jobs!Enqueue
<1>2. /\ queue' \in Seq(Job) /\ Len(queue') = Len(queue) + 1 /\ Len(queue) \in Nat
      /\ made' \in 0 .. MaxJobs /\ made \in Nat /\ lost \in Nat
  BY <1>1, AppendProperties, LenProperties, BoundAssumption DEF IInv, TypeOK
<1>3. pc \in {"run", "print", "lineJobs", "jobs"}
  BY <1>1 DEF IInv, Engine
<1>4. TypeOK'
  BY <1>1, <1>2 DEF IInv, TypeOK, Jobs!Modes
<1>5. Held' /\ Engine' /\ Success'
  BY <1>1, <1>3 DEF IInv, Held, Engine, Success, Help
<1>6. lost' + Len(queue') <= made'
  <2>1. lost + Len(queue) <= made
    BY DEF IInv, Counted
  <2> QED BY <1>1, <1>2, <2>1
<1>7. Counted' /\ Files'
  BY <1>1, <1>3, <1>6 DEF IInv, Counted, Files, Listed, Help
<1> QED BY <1>4, <1>5, <1>7 DEF IInv

\* jerry_run_jobs.
LEMMA JobsStep ==
  ASSUME IInv, RunJobs \/ TakeJob \/ FinishJob \/ EndRun
  PROVE  IInv'
<1>1. UNCHANGED <<argv, i, files, api, ran, lines, made, lost>>
  BY DEF RunJobs, TakeJob, FinishJob, EndRun
<1>2. CASE RunJobs
  <2>1. /\ pc \in {"lineJobs", "jobs"} /\ mode = "host" /\ mode' = "draining"
        /\ UNCHANGED <<pc, code, held, queue, current>>
    BY <1>2 DEF RunJobs, Jobs!RunJobs
  <2> QED BY <1>1, <2>1 DEF IInv, TypeOK, Held, Engine, Counted, Files, Listed, Success, Help,
                            Jobs!Modes
<1>3. CASE TakeJob
  <2>1. /\ mode = "draining" /\ queue # <<>> /\ current' = Head(queue) /\ queue' = Tail(queue)
        /\ UNCHANGED <<pc, code, held, mode>>
    BY <1>3 DEF TakeJob, Jobs!TakeJob
  <2>2. /\ queue' \in Seq(Job) /\ Len(queue') = Len(queue) - 1 /\ Len(queue) \in Nat
        /\ current' \in Job
    BY <2>1, HeadTailProperties DEF IInv, TypeOK
  <2>3. pc \in {"lineJobs", "jobs"}
    BY <2>1 DEF IInv, Engine
  <2>4. lost' + Len(queue') <= made'
    <3>1. lost + Len(queue) <= made /\ lost \in Nat /\ made \in Nat
      BY BoundAssumption DEF IInv, Counted, TypeOK
    <3> QED BY <1>1, <2>2, <3>1
  <2>5. TypeOK'
    BY <1>1, <2>1, <2>2 DEF IInv, TypeOK, Jobs!Modes
  <2> QED BY <1>1, <2>1, <2>3, <2>4, <2>5
          DEF IInv, Held, Engine, Counted, Files, Listed, Success, Help
<1>4. CASE FinishJob
  <2>1. /\ current # None /\ current' = None /\ mode' \in {"draining", "host"} /\ queue' = queue
        /\ mode' = "draining" => UNCHANGED <<pc, code, held>>
        /\ mode' = "host" => \/ /\ pc = "lineJobs" /\ pc' = "lineError"
                                /\ held' = held \cup {"exception"} /\ code' = code
                             \/ /\ pc # "lineJobs" /\ pc' = "cleanup" /\ code' = "fail"
                                /\ held' = held
    BY <1>4 DEF FinishJob, Jobs!FinishJob
  <2>2. mode = "draining" /\ pc \in {"lineJobs", "jobs"}
    BY <2>1 DEF IInv, Engine
  <2>3. held = {}
    BY <2>2 DEF IInv, Held
  <2>4. held' = IF pc' = "lineError" THEN {"exception"} ELSE {}
    BY <2>1, <2>2, <2>3
  <2>5. pc' \in {"lineJobs", "jobs", "lineError", "cleanup"}
    BY <2>1, <2>2
  <2>6. TypeOK'
    BY <1>1, <2>1, <2>4, <2>5 DEF IInv, TypeOK, Jobs!Modes
  <2>7. Held' /\ Engine'
    BY <1>1, <2>1, <2>2, <2>4, <2>5 DEF IInv, Held, Engine
  <2> QED BY <1>1, <2>1, <2>2, <2>6, <2>7 DEF IInv, Counted, Files, Listed, Success, Help
<1>5. CASE EndRun
  <2>1. /\ mode = "draining" /\ current = None /\ queue = <<>> /\ mode' = "host"
        /\ UNCHANGED <<queue, current, code, held>>
        /\ pc' = IF pc = "lineJobs" THEN "prompt" ELSE "cleanup"
    BY <1>5 DEF EndRun, Jobs!EndRun
  <2>2. \/ pc = "lineJobs" /\ pc' = "prompt"
        \/ pc = "jobs" /\ pc' = "cleanup"
    BY <2>1 DEF IInv, Engine
  <2>3. TypeOK' /\ Held' /\ Engine'
    BY <1>1, <2>1, <2>2 DEF IInv, TypeOK, Held, Engine, Jobs!Modes
  <2>4. lost = 0
    BY <2>2 DEF IInv, Counted
  <2> QED BY <1>1, <2>1, <2>2, <2>3, <2>4 DEF IInv, Counted, Files, Listed, Success, Help
<1> QED BY <1>2, <1>3, <1>4, <1>5

\* jerry_cleanup.
LEMMA CleanupStep ==
  ASSUME IInv, Cleanup \/ DiscardJob \/ EndCleanup
  PROVE  IInv'
<1>1. UNCHANGED <<argv, i, files, code, held, ran, lines, made>>
  BY DEF Cleanup, DiscardJob, EndCleanup
<1>2. CASE Cleanup
  <2>1. /\ pc = "cleanup" /\ mode = "host" /\ mode' = "cleanup"
        /\ UNCHANGED <<pc, api, lost, queue, current>>
    BY <1>2 DEF Cleanup, Jobs!Cleanup
  <2>2. current = None
    BY <2>1 DEF IInv, Engine
  <2> QED BY <1>1, <2>1, <2>2 DEF IInv, TypeOK, Held, Engine, Counted, Files, Listed, Success,
                                  Help, Jobs!Modes
<1>3. CASE DiscardJob
  <2>1. /\ mode = "cleanup" /\ queue # <<>> /\ queue' = Tail(queue) /\ lost' = lost + 1
        /\ UNCHANGED <<pc, api, current, mode>>
    BY <1>3 DEF DiscardJob, Jobs!Discard
  <2>2. queue' \in Seq(Job) /\ Len(queue') = Len(queue) - 1 /\ Len(queue) \in Nat \ {0}
    BY <2>1, HeadTailProperties, EmptySeq DEF IInv, TypeOK
  <2>3. lost + Len(queue) <= made /\ lost \in Nat /\ made \in 0 .. MaxJobs /\ MaxJobs \in Nat
    BY BoundAssumption DEF IInv, Counted, TypeOK
  <2>4. lost' + Len(queue') <= made' /\ lost' \in 0 .. MaxJobs
    BY <1>1, <2>1, <2>2, <2>3
  <2>5. pc = "cleanup"
    BY <2>1 DEF IInv, Engine
  <2>6. code # "ok" \/ Help
    BY <2>1, <2>5 DEF IInv, Success
  <2>7. TypeOK'
    BY <1>1, <2>1, <2>2, <2>4 DEF IInv, TypeOK, Jobs!Modes
  <2>8. Counted'
    BY <2>1, <2>4, <2>5 DEF Counted
  <2> QED BY <1>1, <2>1, <2>5, <2>6, <2>7, <2>8
          DEF IInv, Held, Engine, Files, Listed, Success, Help
<1>4. CASE EndCleanup
  <2>1. /\ mode = "cleanup" /\ queue = <<>> /\ mode' = "down" /\ api' = FALSE /\ pc' = "exit"
        /\ UNCHANGED <<lost, queue, current>>
    BY <1>4 DEF EndCleanup, Jobs!EndCleanup
  <2>2. pc = "cleanup" /\ current = None
    BY <2>1 DEF IInv, Engine
  <2>3. TypeOK' /\ Held' /\ Engine' /\ Counted'
    BY <1>1, <2>1, <2>2 DEF IInv, TypeOK, Held, Engine, Counted, Jobs!Modes
  <2> QED BY <1>1, <2>1, <2>2, <2>3 DEF IInv, Files, Listed, Success, Help
<1> QED BY <1>2, <1>3, <1>4

LEMMA NextIInv == IInv /\ [Next]_vars => IInv'
<1> SUFFICES ASSUME IInv, [Next]_vars PROVE IInv'
  OBVIOUS
<1>1. ASSUME NEW j \in Job, EnqueueJob(j) PROVE IInv'
  BY <1>1, EnqueueStep
<1>2. CASE Main \/ ReadLine \/ EndOfInput
  BY <1>2, QuietStep, OptionStep, StartStep, EndFileStep, JobsStep, CleanupStep DEF Main
<1>3. CASE UNCHANGED vars
  BY <1>3 DEF vars, jobVars, IInv, TypeOK, Held, Engine, Counted, Files, Listed, Success, Help
<1> QED BY <1>1, <1>2, <1>3 DEF Next

LEMMA Inductive == Spec => []IInv
BY InitIInv, NextIInv, PTL DEF Spec

-----------------------------------------------------------------------------

\* Every variable of the program keeps its type.
THEOREM ProgramTypes == Spec => []TypeOK
BY Inductive, PTL DEF IInv

\* If cms exits with code 0, every file that was named ran to its end, in order, and
\* every job was executed, for command lines of any length and any number of jobs.
THEOREM SuccessMeansDone == Spec => []SuccessIsComplete
<1>1. IInv => SuccessIsComplete
  <2> SUFFICES ASSUME IInv, pc = "exit", code = "ok", ~Help
               PROVE  /\ ran = files
                      /\ \A n \in DOMAIN argv : argv[n] = "name" =>
                            \E k \in DOMAIN ran : ran[k] = n
                      /\ lost = 0
                      /\ queue = <<>>
    BY DEF SuccessIsComplete, Help
  <2>1. ran = files /\ queue = <<>> /\ lost = 0 /\ Listed(Len(argv))
    BY DEF IInv, Success, Files
  <2>2. DOMAIN argv = 1 .. Len(argv) /\ DOMAIN files = 1 .. Len(files)
    BY LenProperties DEF IInv, TypeOK
  <2> QED BY <2>1, <2>2 DEF Listed
<1> QED BY <1>1, Inductive, PTL

\* main and the REPL own no value when they look for something to do, and the engine
\* is down when the program ends.
THEOREM ReferencesAreReturned == Spec => []ReferencesReturned
<1>1. IInv => ReferencesReturned
  <2> SUFFICES ASSUME IInv PROVE ReferencesReturned
    OBVIOUS
  <2>1. pc \in {"args", "files", "prompt", "lineJobs", "jobs", "cleanup", "exit"} => held = {}
    BY DEF IInv, Held
  <2>2. pc = "exit" => ~api /\ (mode = "down" \/ made = 0)
    BY DEF IInv, Engine, TypeOK
  <2> QED BY <2>1, <2>2 DEF ReferencesReturned
<1> QED BY <1>1, Inductive, PTL

-----------------------------------------------------------------------------
(* The function pp.                                                        *)

\* The inductive invariant: RoomLeft and NothingLost, and outside the iteration
\* over a string no character is waiting.
PpIInv == /\ PpTypeOK
          /\ RoomLeft
          /\ NothingLost
          /\ IF status = "print" THEN index <= Len(args) ELSE text = <<>>

\* An escaped string has one output character per character.
LEMMA EscapedType ==
  ASSUME NEW s \in Seq(Char)
  PROVE  /\ Escaped(s) \in Seq(Output)
         /\ Len(Escaped(s)) = Len(s)
         /\ \A k \in 1 .. Len(s) : Escaped(s)[k] = IF s[k] = Nul THEN Escape ELSE s[k]
<1>1. Len(s) \in Nat /\ DOMAIN s = 1 .. Len(s) /\ \A k \in 1 .. Len(s) : s[k] \in Char
  BY LenProperties, ElementOfSeq
<1>2. Escaped(s) \in [1 .. Len(s) -> Output]
  BY <1>1 DEF Escaped, Output
<1> QED
  BY <1>1, <1>2 DEF Escaped

\* Escaping goes character by character.
LEMMA EscapedHead ==
  ASSUME NEW s \in Seq(Char), s # <<>>
  PROVE  Escaped(s) = <<IF Head(s) = Nul THEN Escape ELSE Head(s)>> \o Escaped(Tail(s))
<1> DEFINE h == IF Head(s) = Nul THEN Escape ELSE Head(s)
           t == <<h>>
           r == Escaped(Tail(s))
           c == t \o r
<1>1. /\ Head(s) \in Char /\ Tail(s) \in Seq(Char) /\ Len(s) \in Nat \ {0}
      /\ Len(Tail(s)) = Len(s) - 1 /\ \A k \in 1 .. Len(Tail(s)) : Tail(s)[k] = s[k + 1]
  BY HeadTailProperties, EmptySeq
<1>2. Head(s) = s[1]
  BY <1>1
<1>3. /\ h \in Output /\ t \in Seq(Output) /\ Len(t) = 1 /\ t[1] = h
  BY <1>1 DEF Output
<1>4. /\ r \in Seq(Output) /\ Len(r) = Len(s) - 1
      /\ \A k \in 1 .. Len(s) - 1 : r[k] = IF s[k + 1] = Nul THEN Escape ELSE s[k + 1]
  BY <1>1, EscapedType
<1>5. /\ Escaped(s) \in Seq(Output) /\ Len(Escaped(s)) = Len(s)
      /\ \A k \in 1 .. Len(s) : Escaped(s)[k] = IF s[k] = Nul THEN Escape ELSE s[k]
  BY EscapedType
<1> HIDE DEF r, t, h
<1>6. /\ c \in Seq(Output) /\ Len(c) = Len(s)
      /\ \A k \in 1 .. Len(s) : c[k] = IF k <= 1 THEN t[k] ELSE r[k - 1]
  <2>1. /\ t \o r \in Seq(Output) /\ Len(t \o r) = Len(t) + Len(r)
        /\ \A k \in 1 .. Len(t) + Len(r) :
             (t \o r)[k] = IF k <= Len(t) THEN t[k] ELSE r[k - Len(t)]
    <3>1. t \in Seq(Output) /\ r \in Seq(Output)
      BY <1>3, <1>4
    <3> QED
      BY <3>1, ConcatProperties
  <2>2. Len(t) = 1 /\ Len(t) + Len(r) = Len(s)
    BY <1>1, <1>3, <1>4
  <2> QED
    BY <2>1, <2>2
<1>7. ASSUME NEW k \in 1 .. Len(s) PROVE c[k] = Escaped(s)[k]
  <2>1. CASE k = 1
    BY <2>1, <1>1, <1>2, <1>3, <1>5, <1>6 DEF h
  <2>2. CASE k # 1
    <3>1. k - 1 \in 1 .. Len(s) - 1 /\ (k - 1) + 1 = k /\ ~(k <= 1)
      BY <2>2, <1>1
    <3> QED
      BY <3>1, <1>4, <1>5, <1>6
  <2> QED
    BY <2>1, <2>2
<1> HIDE DEF c
<1>8. c = Escaped(s)
  BY <1>5, <1>6, <1>7, SeqEqual
<1> QED
  BY <1>8 DEF c, r, t, h

\* A character added to what was written, or to the buffer, comes out in front of
\* the rest.
LEMMA Glue ==
  ASSUME NEW o \in Seq(Output), NEW b \in Seq(Output), NEW r \in Seq(Output),
         NEW e \in Output
  PROVE  /\ Append(o \o b, e) \o r = (o \o b) \o (<<e>> \o r)
         /\ (o \o Append(b, e)) \o r = (o \o b) \o (<<e>> \o r)
<1>1. <<e>> \in Seq(Output) /\ o \o b \in Seq(Output)
  BY ConcatProperties
<1>2. Append(o \o b, e) = (o \o b) \o <<e>> /\ Append(b, e) = b \o <<e>>
  BY <1>1, AppendIsConcat
<1>3. o \o (b \o <<e>>) = (o \o b) \o <<e>>
  BY <1>1, ConcatAssociative
<1>4. ((o \o b) \o <<e>>) \o r = (o \o b) \o (<<e>> \o r)
  BY <1>1, ConcatAssociative
<1> QED
  BY <1>2, <1>3, <1>4

\* Nothing remains of an empty buffer and an empty string.
LEMMA EmptyPieces ==
  ASSUME NEW o \in Seq(Output)
  PROVE  /\ Escaped(<<>>) = <<>>
         /\ o \o <<>> = o
         /\ (o \o <<>>) \o Escaped(<<>>) = o
<1>1. Escaped(<<>>) = <<>>
  BY DEF Escaped
<1>2. o \o <<>> = o
  BY ConcatEmptySeq
<1> QED
  BY <1>1, <1>2

\* The invariant holds before the first argument.
LEMMA PpInitIInv == PpInit => PpIInv
<1> SUFFICES ASSUME PpInit PROVE PpIInv
  OBVIOUS
<1>1. args \in Seq(Kinds) /\ Len(args) \in Nat
  BY BufferAssumption DEF PpInit
<1>2. <<>> \in Seq(Output) /\ <<>> \in Seq(Char) /\ <<>> \in Seq(Char \ {Nul})
  BY EmptySeq
<1>3. PpTypeOK
  BY <1>1, <1>2 DEF PpInit, PpTypeOK
<1>4. RoomLeft
  BY BufferAssumption DEF PpInit, RoomLeft
<1>5. NothingLost
  BY <1>2, EmptyPieces DEF PpInit, NothingLost
<1> QED
  BY <1>3, <1>4, <1>5 DEF PpIInv, PpInit

\* Writing the separator keeps the output and what was meant equal.
LEMMA SeparatedType ==
  ASSUME NEW o \in Seq(Output)
  PROVE  Separated(o) \in Seq(Output)
BY AppendProperties DEF Separated, Output

\* A conversion: what remains to be printed is the new string.
LEMMA ConvertStep ==
  ASSUME PpIInv, NEW s \in Texts, Convert(s)
  PROVE  PpIInv'
<1> USE DEF PpIInv, PpTypeOK
<1>1. s \in Seq(Char) /\ Escaped(s) \in Seq(Output)
  <2>1. s \in Seq(Char)
    BY BufferAssumption DEF Texts
  <2> QED
    BY <2>1, EscapedType
<1>2. buffer = <<>> /\ text = <<>> /\ out \in Seq(Output) /\ out = meant
  <2>1. buffer = <<>> /\ text = <<>> /\ out \in Seq(Output)
    BY DEF Convert, RoomLeft
  <2> QED
    BY <2>1, EmptyPieces DEF NothingLost
<1>3. /\ Separated(out) \in Seq(Output) /\ Separated(meant) \in Seq(Output)
      /\ Separated(out) = Separated(meant)
  BY <1>2, SeparatedType
<1>4. meant' \in Seq(Output)
  BY <1>1, <1>3, ConcatProperties DEF Convert
<1>5. PpTypeOK'
  BY <1>1, <1>3, <1>4 DEF Convert
<1>6. RoomLeft'
  BY BufferAssumption, <1>2 DEF Convert, RoomLeft
<1>7. NothingLost'
  <2>1. Separated(out) \o <<>> = Separated(out)
    BY <1>3, EmptyPieces
  <2> QED
    BY <1>2, <1>3, <2>1 DEF Convert, NothingLost, Escaped
<1> QED
  BY <1>5, <1>6, <1>7 DEF Convert

\* One character goes through the buffer.
LEMMA PrintStep ==
  ASSUME PpIInv, BufferedPrint
  PROVE  PpIInv'
<1> USE DEF PpIInv, PpTypeOK
<1> DEFINE h == Head(text)
           r == Escaped(Tail(text))
           e == IF h = Nul THEN Escape ELSE h
           filled == Append(buffer, h)
<1>1. h \in Char /\ Tail(text) \in Seq(Char) /\ r \in Seq(Output)
  <2>1. text \in Seq(Char) /\ text # <<>>
    BY DEF BufferedPrint
  <2>2. h \in Char /\ Tail(text) \in Seq(Char)
    BY <2>1, HeadTailProperties
  <2> QED
    BY <2>2, EscapedType
<1>2. e \in Output /\ Escaped(text) = <<e>> \o r
  BY <1>1, EscapedHead DEF BufferedPrint, Output
<1>3. buffer \in Seq(Char \ {Nul}) /\ buffer \in Seq(Output) /\ out \in Seq(Output)
  <2>1. Char \ {Nul} \subseteq Output
    BY DEF Output
  <2> QED
    BY <2>1, SeqMonotonic
<1>4. (out \o buffer) \o (<<e>> \o r) = meant
  BY <1>2 DEF NothingLost
<1> HIDE DEF e, r
<1>5. /\ Append(out \o buffer, e) \o r = meant
      /\ (out \o Append(buffer, e)) \o r = meant
  <2>1. /\ Append(out \o buffer, e) \o r = (out \o buffer) \o (<<e>> \o r)
        /\ (out \o Append(buffer, e)) \o r = (out \o buffer) \o (<<e>> \o r)
    <3>1. e \in Output
      BY <1>2
    <3> QED
      BY <1>1, <3>1, <1>3, Glue
  <2> QED
    BY <1>4, <2>1
<1>6. /\ out \o buffer \in Seq(Output)
      /\ Append(out \o buffer, e) \in Seq(Output)
      /\ out \o Append(buffer, e) \in Seq(Output)
  BY <1>2, <1>3, ConcatProperties, AppendProperties
<1>7. /\ <<>> \in Seq(Char \ {Nul}) /\ Len(<<>>) = 0
      /\ \A o \in Seq(Output) : o \o <<>> = o
  BY EmptySeq, ConcatEmptySeq
<1>8. /\ text' = Tail(text) /\ meant' = meant /\ status' = "print"
      /\ index' = index /\ args' = args /\ index <= Len(args)
  BY DEF BufferedPrint
<1>9. CASE h = Nul
  <2>1. out' = Append(out \o buffer, e) /\ buffer' = <<>>
    BY <1>9 DEF BufferedPrint, e
  <2>2. PpTypeOK'
    BY <2>1, <1>1, <1>6, <1>7, <1>8 DEF BufferedPrint
  <2>3. RoomLeft'
    BY <2>1, <1>7, <1>8, BufferAssumption DEF RoomLeft
  <2>4. NothingLost'
    BY <2>1, <1>5, <1>6, <1>7, <1>8 DEF NothingLost, r
  <2> QED
    BY <2>2, <2>3, <2>4, <1>8
<1>10. CASE h # Nul
  <2>0. h \in Char \ {Nul} /\ e = h
    BY <1>1, <1>10 DEF e
  <2>1. filled \in Seq(Char \ {Nul}) /\ Len(filled) \in Nat
    <3>1. filled \in Seq(Char \ {Nul})
      BY <1>3, <2>0, AppendProperties
    <3> QED
      BY <3>1, LenProperties
  <2>2. CASE Len(filled) >= Size
    <3>1. out' = out \o filled /\ buffer' = <<>>
      BY <1>10, <2>2 DEF BufferedPrint, Full
    <3>2. PpTypeOK'
      BY <3>1, <2>0, <1>1, <1>6, <1>7, <1>8 DEF BufferedPrint
    <3>3. RoomLeft'
      BY <3>1, <1>7, <1>8, BufferAssumption DEF RoomLeft
    <3>4. NothingLost'
      BY <3>1, <2>0, <1>5, <1>6, <1>7, <1>8 DEF NothingLost, r
    <3> QED
      BY <3>2, <3>3, <3>4, <1>8
  <2>3. CASE ~(Len(filled) >= Size)
    <3>1. out' = out /\ buffer' = filled
      BY <1>10, <2>3 DEF BufferedPrint, Full
    <3>2. PpTypeOK'
      BY <3>1, <2>1, <1>1, <1>8 DEF BufferedPrint
    <3>3. RoomLeft'
      BY <3>1, <2>1, <2>3, <1>8, BufferAssumption DEF RoomLeft
    <3>4. NothingLost'
      BY <3>1, <2>0, <1>5, <1>8 DEF NothingLost, r
    <3> QED
      BY <3>2, <3>3, <3>4, <1>8
  <2> QED
    BY <2>2, <2>3
<1> QED
  BY <1>9, <1>10

\* The rest of the buffer is written.
LEMMA EndArgumentStep ==
  ASSUME PpIInv, EndArgument
  PROVE  PpIInv'
<1> USE DEF PpIInv, PpTypeOK
<1>1. buffer \in Seq(Output) /\ out \in Seq(Output) /\ text = <<>>
  <2>1. Char \ {Nul} \subseteq Output
    BY DEF Output
  <2> QED
    BY <2>1, SeqMonotonic DEF EndArgument
<1>2. out \o buffer \in Seq(Output)
  BY <1>1, ConcatProperties
<1>3. out \o buffer = meant /\ ((out \o buffer) \o <<>>) \o Escaped(<<>>) = out \o buffer
  BY <1>1, <1>2, EmptyPieces DEF NothingLost
<1>4. <<>> \in Seq(Char \ {Nul}) /\ Len(<<>>) = 0 /\ Len(args) \in Nat
  BY EmptySeq, LenProperties
<1>5. PpTypeOK'
  <2>1. index + 1 \in 1 .. Len(args) + 1
    BY <1>4 DEF EndArgument
  <2> QED
    BY <2>1, <1>2, <1>4 DEF EndArgument
<1>6. RoomLeft'
  BY <1>4, BufferAssumption DEF EndArgument, RoomLeft
<1>7. NothingLost'
  BY <1>1, <1>3 DEF EndArgument, NothingLost
<1> QED
  BY <1>1, <1>5, <1>6, <1>7 DEF EndArgument

\* The separator and the newline that pp writes itself go out directly, while the
\* buffer is empty.
LEMMA SeparatorStep ==
  ASSUME PpIInv, ConvertBad \/ EndCall
  PROVE  PpIInv'
<1> USE DEF PpIInv, PpTypeOK
<1>1. /\ buffer = <<>> /\ text = <<>> /\ out \in Seq(Output) /\ out = meant
      /\ status = "convert"
  <2>1. buffer = <<>> /\ text = <<>> /\ out \in Seq(Output) /\ status = "convert"
    BY DEF ConvertBad, EndCall, RoomLeft
  <2> QED
    BY <2>1, EmptyPieces DEF NothingLost
<1>2. out' \in Seq(Output) /\ out' = meant'
  <2>1. Newline \in Output
    BY DEF Output
  <2>2. Append(out, Newline) \in Seq(Output) /\ Separated(out) \in Seq(Output)
    BY <1>1, <2>1, AppendProperties, SeparatedType
  <2>3. Separated(meant) = Separated(out)
    BY <1>1
  <2> QED
    BY <1>1, <2>2, <2>3 DEF ConvertBad, EndCall
<1>3. /\ buffer' = <<>> /\ text' = <<>> /\ index' = index /\ args' = args
      /\ status' \in {"abort", "undefined"}
  BY <1>1 DEF ConvertBad, EndCall
<1>4. PpTypeOK'
  BY <1>1, <1>2, <1>3
<1>5. RoomLeft'
  BY <1>3, BufferAssumption DEF RoomLeft
<1>6. NothingLost'
  BY <1>2, <1>3, EmptyPieces DEF NothingLost
<1> QED
  BY <1>3, <1>4, <1>5, <1>6

\* Every step keeps the invariant.
LEMMA PpNextIInv == PpIInv /\ [PpNext]_ppVars => PpIInv'
<1> SUFFICES ASSUME PpIInv, [PpNext]_ppVars PROVE PpIInv'
  OBVIOUS
<1>1. ASSUME NEW s \in Texts, Convert(s) PROVE PpIInv'
  BY <1>1, ConvertStep
<1>2. CASE ConvertBad
  BY <1>2, SeparatorStep
<1>3. CASE BufferedPrint
  BY <1>3, PrintStep
<1>4. CASE EndArgument
  BY <1>4, EndArgumentStep
<1>5. CASE EndCall
  BY <1>5, SeparatorStep
<1>6. CASE UNCHANGED ppVars
  BY <1>6 DEF ppVars, PpIInv, PpTypeOK, RoomLeft, NothingLost, Escaped
<1> QED
  BY <1>1, <1>2, <1>3, <1>4, <1>5, <1>6 DEF PpNext

\* Whatever the size of the buffer, the arguments and the characters: buffered_print
\* never writes outside its buffer, and pp writes exactly the escaped strings of
\* the arguments it converted, in order.
THEOREM PrintsEverything == PpSpec => [](PpTypeOK /\ RoomLeft /\ NothingLost)
<1>1. PpIInv => PpTypeOK /\ RoomLeft /\ NothingLost
  BY DEF PpIInv
<1> QED
  BY <1>1, PpInitIInv, PpNextIInv, PTL DEF PpSpec
=============================================================================
