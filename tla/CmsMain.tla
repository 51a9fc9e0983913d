------------------------------ MODULE CmsMain ------------------------------
(***************************************************************************)
(* The program cms (cms.c): it parses its command line, starts the engine, *)
(* executes the files it was given or reads and evaluates lines (repl.c),  *)
(* runs the jobs the scripts left behind, and shuts the engine down.  A    *)
(* step is one call of the engine; what a script does is left open, but    *)
(* for the jobs it enqueues.  The job queue is that of JobFifo.            *)
(***************************************************************************)
EXTENDS Naturals, Sequences

CONSTANTS MaxArgs,      \* JERRY_MAX_COMMAND_LINE_ARGS, the program name included
          Job,          \* what a job stands for
          None,         \* no job is being executed
          MaxLines,     \* bound: the lines typed at the prompt
          MaxJobs       \* bound: the jobs that scripts and jobs enqueue

ASSUME BoundAssumption == /\ MaxArgs \in Nat \ {0}
                          /\ MaxLines \in Nat
                          /\ MaxJobs \in Nat
                          /\ None \notin Job

VARIABLES argv,         \* the arguments after the program name
          i,            \* the argument the option loop looks at
          files,        \* file_names, as positions in argv
          pc,           \* where main is
          code,         \* ret_code
          api,          \* between jerry_init and jerry_cleanup
          held,         \* the values whose references main or the REPL owns
          ran,          \* history: the files whose script ran to its end
          lines,        \* the lines read at the prompt
          made,         \* the jobs enqueued so far
          lost,         \* history: the jobs discarded by jerry_cleanup
          queue, current, mode      \* the job queue

jobVars == <<queue, current, mode>>
vars == <<argv, i, files, pc, code, api, held, ran, lines, made, lost, jobVars>>

Jobs == INSTANCE JobFifo WITH Payload <- Job

\* An argument is an option, or something else: a digit from 0 to 3, which is a
\* level after --log-level and a file name elsewhere, or a name.
Argument == {"--help", "--mem-stats", "--log-level", "level", "name"}

Init == /\ argv \in UNION {[1 .. n -> Argument] : n \in 0 .. MaxArgs}
        /\ i = 1
        /\ files = <<>>
        /\ pc = "args"
        /\ code = "none"
        /\ api = FALSE
        /\ held = {}
        /\ ran = <<>>
        /\ lines = 0
        /\ made = 0
        /\ lost = 0
        /\ Jobs!Init

Exit(c) == pc' = "exit" /\ code' = c

-----------------------------------------------------------------------------
(* The command line.                                                       *)

\* argc is within the limit.
Accepted == Len(argv) + 1 <= MaxArgs

TooManyArguments ==
  /\ pc = "args"
  /\ ~Accepted
  /\ Exit("fail")
  /\ UNCHANGED <<argv, i, files, api, held, ran, lines, made, lost, jobVars>>

\* One turn of the option loop.
Option ==
  /\ pc = "args"
  /\ Accepted
  /\ i <= Len(argv)
  /\ \/ /\ argv[i] = "--help"
        /\ Exit("ok")
        /\ UNCHANGED <<i, files>>
     \/ /\ argv[i] = "--mem-stats"
        /\ i' = i + 1
        /\ UNCHANGED <<files, pc, code>>
     \/ /\ argv[i] = "--log-level"
        /\ IF i + 1 <= Len(argv) /\ argv[i + 1] = "level"
           THEN i' = i + 2 /\ UNCHANGED <<pc, code>>
           ELSE Exit("fail") /\ UNCHANGED i
        /\ UNCHANGED files
     \/ /\ argv[i] \in {"level", "name"}
        /\ files' = Append(files, i)
        /\ i' = i + 1
        /\ UNCHANGED <<pc, code>>
  /\ UNCHANGED <<argv, api, held, ran, lines, made, lost, jobVars>>

\* jerry_init, and the native functions are registered.
Start ==
  /\ pc = "args"
  /\ Accepted
  /\ i > Len(argv)
  /\ api' = TRUE
  /\ code' = "ok"
  /\ pc' = IF files = <<>> THEN "prompt" ELSE "files"
  /\ UNCHANGED <<argv, i, files, held, ran, lines, made, lost, jobVars>>

-----------------------------------------------------------------------------
(* jerryx_source_exec_script, file by file.                                *)

\* The file is read, validated and parsed; each of them may fail.
ParseFile ==
  /\ pc = "files"
  /\ Len(ran) < Len(files)
  /\ \/ pc' = "run" /\ held' = held \cup {"script"}
     \/ pc' = "fileError" /\ held' = held \cup {"exception"}
  /\ UNCHANGED <<argv, i, files, code, api, ran, lines, made, lost, jobVars>>

\* jerry_run returns, and the script is released.
EndFile ==
  /\ pc = "run"
  /\ files # <<>>
  /\ \/ /\ pc' = "files"
        /\ held' = held \ {"script"}            \* the result is freed by main
        /\ ran' = Append(ran, files[Len(ran) + 1])
     \/ /\ pc' = "fileError"
        /\ held' = (held \ {"script"}) \cup {"exception"}
        /\ UNCHANGED ran
  /\ UNCHANGED <<argv, i, files, code, api, lines, made, lost, jobVars>>

\* Mutant of FileError: the exit code is not set.
FileErrorUnnoticed ==
  /\ pc = "fileError"
  /\ held' = held \ {"exception"}
  /\ pc' = "jobs"
  /\ UNCHANGED <<argv, i, files, code, api, ran, lines, made, lost, jobVars>>

\* The exception is printed, which releases it, and the other files are skipped.
FileError ==
  /\ pc = "fileError"
  /\ code' = "fail"
  /\ held' = held \ {"exception"}
  /\ pc' = "jobs"
  /\ UNCHANGED <<argv, i, files, api, ran, lines, made, lost, jobVars>>

EndFiles ==
  /\ pc = "files"
  /\ Len(ran) = Len(files)
  /\ pc' = "jobs"
  /\ UNCHANGED <<argv, i, files, code, api, held, ran, lines, made, lost, jobVars>>

-----------------------------------------------------------------------------
(* jerryx_repl.                                                            *)

ReadLine ==
  /\ pc = "prompt"
  /\ lines < MaxLines
  /\ lines' = lines + 1
  /\ \/ pc' = "run" /\ held' = held \cup {"script"}
     \/ pc' = "lineError" /\ held' = held \cup {"exception"}     \* invalid or unparsable
  /\ UNCHANGED <<argv, i, files, code, api, ran, made, lost, jobVars>>

EndOfInput ==
  /\ pc = "prompt"
  /\ pc' = "jobs"
  /\ UNCHANGED <<argv, i, files, code, api, held, ran, lines, made, lost, jobVars>>

EndLine ==
  /\ pc = "run"
  /\ files = <<>>
  /\ \/ pc' = "print" /\ held' = (held \ {"script"}) \cup {"result"}
     \/ pc' = "lineError" /\ held' = (held \ {"script"}) \cup {"exception"}
  /\ UNCHANGED <<argv, i, files, code, api, ran, lines, made, lost, jobVars>>

\* The result is converted to a string, which may run script code, printed and
\* freed.
PrintResult ==
  /\ pc = "print"
  /\ \/ pc' = "lineJobs" /\ held' = held \ {"result"}
     \/ pc' = "lineError" /\ held' = (held \ {"result"}) \cup {"exception"}
  /\ UNCHANGED <<argv, i, files, code, api, ran, lines, made, lost, jobVars>>

\* Mutant of LineError: the exception is not released.
LineErrorLeaked ==
  /\ pc = "lineError"
  /\ pc' = "prompt"
  /\ UNCHANGED <<argv, i, files, code, api, held, ran, lines, made, lost, jobVars>>

\* An error at the prompt is printed; it does not make the program fail, and the
\* jobs of the line wait.
LineError ==
  /\ pc = "lineError"
  /\ held' = held \ {"exception"}
  /\ pc' = "prompt"
  /\ UNCHANGED <<argv, i, files, code, api, ran, lines, made, lost, jobVars>>

-----------------------------------------------------------------------------
(* Jobs, and the end.                                                      *)

\* Script code, of a file, a line, a result being printed or a job, enqueues a job.
EnqueueJob(j) ==
  /\ pc \in {"run", "print"} \/ current # None
  /\ made < MaxJobs
  /\ made' = made + 1
  /\ Jobs!Enqueue(j)
  /\ UNCHANGED <<argv, i, files, pc, code, api, held, ran, lines, lost>>

\* jerry_run_jobs: after a line, and once at the end.
RunJobs ==
  /\ pc \in {"lineJobs", "jobs"}
  /\ Jobs!RunJobs
  /\ UNCHANGED <<argv, i, files, pc, code, api, held, ran, lines, made, lost>>

TakeJob == /\ Jobs!TakeJob
           /\ UNCHANGED <<argv, i, files, pc, code, api, held, ran, lines, made, lost>>

\* A job ends.  When it fails, jerry_run_jobs returns its exception: the REPL
\* prints it, main only remembers it in the exit code and frees it.
FinishJob ==
  /\ Jobs!FinishJob
  /\ IF mode' = "host"
     THEN IF pc = "lineJobs"
          THEN pc' = "lineError" /\ held' = held \cup {"exception"} /\ UNCHANGED code
          ELSE pc' = "cleanup" /\ code' = "fail" /\ UNCHANGED held
     ELSE UNCHANGED <<pc, code, held>>
  /\ UNCHANGED <<argv, i, files, api, ran, lines, made, lost>>

EndRun ==
  /\ Jobs!EndRun
  /\ pc' = IF pc = "lineJobs" THEN "prompt" ELSE "cleanup"
  /\ UNCHANGED <<argv, i, files, code, api, held, ran, lines, made, lost>>

\* jerry_cleanup releases the jobs that are left.
Cleanup == /\ pc = "cleanup"
           /\ Jobs!Cleanup
           /\ UNCHANGED <<argv, i, files, pc, code, api, held, ran, lines, made, lost>>

DiscardJob == /\ Jobs!Discard
              /\ lost' = lost + 1
              /\ UNCHANGED <<argv, i, files, pc, code, api, held, ran, lines, made>>

EndCleanup == /\ Jobs!EndCleanup
              /\ api' = FALSE
              /\ pc' = "exit"
              /\ UNCHANGED <<argv, i, files, code, held, ran, lines, made, lost>>

Main == \/ TooManyArguments \/ Option \/ Start
        \/ ParseFile \/ EndFile \/ FileError \/ EndFiles
        \/ EndLine \/ PrintResult \/ LineError
        \/ RunJobs \/ TakeJob \/ FinishJob \/ EndRun
        \/ Cleanup \/ DiscardJob \/ EndCleanup

Next == Main \/ ReadLine \/ EndOfInput \/ \E j \in Job : EnqueueJob(j)

Spec == Init /\ [][Next]_vars

-----------------------------------------------------------------------------

TypeOK ==
  /\ argv \in Seq(Argument)
  /\ i \in 1 .. MaxArgs
  /\ files \in Seq(1 .. MaxArgs - 1)
  /\ pc \in {"args", "files", "run", "fileError", "prompt", "print", "lineJobs",
             "lineError", "jobs", "cleanup", "exit"}
  /\ code \in {"none", "ok", "fail"}
  /\ api \in BOOLEAN
  /\ held \subseteq {"script", "result", "exception"}
  /\ ran \in Seq(1 .. MaxArgs - 1)
  /\ lines \in 0 .. MaxLines
  /\ made \in 0 .. MaxJobs
  /\ lost \in 0 .. MaxJobs
  /\ queue \in Seq(Job)
  /\ current \in Job \cup {None}
  /\ mode \in Jobs!Modes

\* Exit code 0 is a promise: unless the program only printed its usage, every
\* file named on the command line ran to its end, in order, and every job that a
\* script or a job enqueued was executed before the engine went down.
SuccessIsComplete ==
  pc = "exit" /\ code = "ok" =>
    \/ \E n \in DOMAIN argv : argv[n] = "--help"
    \/ /\ ran = files
       /\ \A n \in DOMAIN argv : argv[n] = "name" => \E k \in DOMAIN ran : ran[k] = n
       /\ lost = 0
       /\ queue = <<>>

\* The program does not leak references: at the prompt, between two files, while
\* jobs run and when the engine is finalized, main owns no value; and an engine
\* that was started is shut down when the program ends.
ReferencesReturned ==
  /\ pc \in {"args", "files", "prompt", "lineJobs", "jobs", "cleanup", "exit"} => held = {}
  /\ pc = "exit" => ~api /\ (mode = "down" \/ made = 0)

=============================================================================
