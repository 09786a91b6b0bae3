------------------------------ MODULE TestRunner ------------------------------
(***************************************************************************)
(* ty_test: tests are registered, then run one after another, each in a    *)
(* child process that the runner polls, kills when it is late, and judges  *)
(* by the report it left in the failure pipe and by how it ended.          *)
(*                                                                         *)
(* A test function is a list of steps: it prints a line to stdout ("out")  *)
(* or stderr ("err"), flushes stdout, leaves a process behind ("leave"),   *)
(* fails an assertion, ends the process itself by _exit(1) ("exit"), by    *)
(* _exit(0) ("quit") or by a signal, or hangs; exit(0) is a flush and a    *)
(* quit.  A pipe is the list of the lines in it; a line of the runner's    *)
(* own report that was waiting in stdout's buffer when the child was       *)
(* forked is "runner".                                                     *)
(***************************************************************************)
EXTENDS FailureReport

CONSTANTS
    Lines,          \* the lines that tests print, and "runner"
    Tests,          \* what a program may register: [suite, skip, timeout, should_fail, body]
    Suites,         \* the suites it may ask for
    Timeouts,       \* values of default_timeout, in seconds; 0 is none
    Ticks,          \* polls in a second (100)
    Growth,         \* tests by which the table grows (64)
    PipeLines,      \* lines a pipe holds
    BufferLines,    \* lines the buffer of a stdout that is no terminal holds
    ReadLines,      \* lines of captured output that are kept
    MaxFds,         \* descriptors a process may open besides its standard ones
    MaxTests,       \* bound: tests registered in all
    MaxRuns,        \* bound: calls of ty_test_run
    ForkFails       \* whether the system may refuse to fork

ASSUME TestRunnerAssumption ==
    /\ {Ticks, Growth, PipeLines, BufferLines, ReadLines} \subseteq Nat \ {0}
    /\ {MaxFds, MaxTests, MaxRuns} \subseteq Nat
    /\ Timeouts \subseteq Nat
    /\ ForkFails \in BOOLEAN
    /\ "runner" \in Lines

\* The steps of test functions.
Steps == [op : {"flush", "leave", "exit", "quit", "crash", "hang"}]
         \cup [op : {"out", "err"}, line : Lines]
         \cup [op : {"fail"}, report : FailureReports]

ASSUME TestsAssumption ==
    /\ Suites \subseteq STRING
    /\ Tests \subseteq [suite : STRING, skip : BOOLEAN, timeout : Int, should_fail : BOOLEAN,
                        body : Seq(Steps)]

NoSuite == "none"

VARIABLES
    tests,      \* __ty_tests
    testsk,     \* __ty_testsk: capacity of the table
    terminal,   \* whether the runner's stdout is a terminal, and flushed by the line
    options,    \* options of ty_test_run: [default_timeout, capture, suite]
    pc,         \* where the runner is
    i,          \* index of the current test
    fds,        \* descriptors the runner has open
    child,      \* the child: [state, step, buffer]
    stream,     \* the child's stdout and stderr pipes
    failure,    \* the failure pipe: its message, or <<>>
    left,       \* whether the test left a process that holds its pipes
    status,     \* what waitpid stored: "exit0", "exit1" or "signal"
    wait_counter,
    result,     \* ty_test_result_t: [kind, text, stdout, stderr]
    counts,     \* [passed, failed, skipped, errors]
    ret,        \* what the last ty_test_run returned
    runs,       \* calls of ty_test_run so far
    asked,      \* tests registered so far
    did,        \* history: what the current test did
    printed,    \* history: the lines its test function printed: [out, err]
    log         \* history: how each test of this run was counted

table   == <<tests, testsk, asked>>
process == <<child, stream, failure, left>>
config  == <<terminal, options>>
history == <<did, printed, log>>
vars == <<table, config, pc, i, fds, process, status, wait_counter, result, counts, ret,
          runs, history>>

\* The reports that tests make, their messages and what is read of those,
\* tabulated once.
Reports == UNION {{t.body[k].report : k \in {j \in DOMAIN t.body : t.body[j].op = "fail"}} :
                  t \in Tests}
Message == [r \in Reports |-> Format(r)]
Read    == [m \in {Message[r] : r \in Reports} |-> Parse(m)]

NoChild  == [state |-> "none", step |-> 1, buffer |-> <<>>]
NoStream == [out |-> <<>>, err |-> <<>>]
NoResult == [kind |-> "PASS", text |-> Nothing, stdout |-> <<>>, stderr |-> <<>>]
NoCounts == [passed |-> 0, failed |-> 0, skipped |-> 0, errors |-> 0]

Test     == tests[i]
Limit(t) == IF t.timeout > 0 THEN t.timeout ELSE options.default_timeout
Selected(t) == options.suite = NoSuite \/ t.suite = options.suite

Init ==
    /\ tests = <<>> /\ testsk = 0 /\ asked = 0
    /\ terminal \in BOOLEAN
    /\ options = [default_timeout |-> 0, capture |-> TRUE, suite |-> NoSuite]
    /\ pc = "idle" /\ i = 1 /\ fds = 0
    /\ child = NoChild /\ stream = NoStream /\ failure = <<>> /\ left = FALSE
    /\ status = "exit0" /\ wait_counter = 0 /\ result = NoResult /\ counts = NoCounts
    /\ ret = 0 /\ runs = 0
    /\ did = "nothing" /\ printed = NoStream /\ log = <<>>

-----------------------------------------------------------------------------
(* Registration and the loop over the tests.                               *)

\* MUTANT of Full: the table grows one test too late.
FullLate == testsk = 0 \/ Len(tests) > testsk

Full == testsk = 0 \/ Len(tests) >= testsk

\* _ty_test
Register(t) ==
    /\ pc = "idle" /\ asked < MaxTests
    /\ asked' = asked + 1
    /\ tests' = Append(tests, t)
    /\ testsk' = IF Full THEN testsk + Growth ELSE testsk
    /\ UNCHANGED <<config, pc, i, fds, process, status, wait_counter, result, counts, ret,
                   runs, history>>

\* _ty_test, when realloc fails: the test is dropped.
RegisterFails ==
    /\ pc = "idle" /\ asked < MaxTests
    /\ Full
    /\ asked' = asked + 1
    /\ UNCHANGED <<tests, testsk, config, pc, i, fds, process, status, wait_counter, result,
                   counts, ret, runs, history>>

\* MUTANT of Run: the counts of the last run are still there.
RunKeepingCounts(o) ==
    /\ pc = "idle" /\ runs < MaxRuns
    /\ options' = o
    /\ pc' = "next" /\ i' = 1 /\ runs' = runs + 1
    /\ log' = <<>>
    /\ UNCHANGED <<table, terminal, fds, process, status, wait_counter, result, counts, ret,
                   did, printed>>

\* _ty_test_run, up to its loop.
Run(o) ==
    /\ pc = "idle" /\ runs < MaxRuns
    /\ options' = o
    /\ pc' = "next" /\ i' = 1 /\ runs' = runs + 1
    /\ counts' = NoCounts /\ log' = <<>>
    /\ UNCHANGED <<table, terminal, fds, process, status, wait_counter, result, ret, did,
                   printed>>

PassOver ==
    /\ pc = "next" /\ i <= Len(tests) /\ ~Selected(Test)
    /\ i' = i + 1
    /\ UNCHANGED <<table, config, pc, fds, process, status, wait_counter, result, counts, ret,
                   runs, history>>

Entry(kind, what, as) == [test |-> i, kind |-> kind, did |-> what, counted |-> as]

Skip ==
    /\ pc = "next" /\ i <= Len(tests) /\ Selected(Test) /\ Test.skip
    /\ i' = i + 1
    /\ counts' = [counts EXCEPT !.skipped = @ + 1]
    /\ log' = Append(log, Entry("SKIP", "nothing", "skipped"))
    /\ UNCHANGED <<table, config, pc, fds, process, status, wait_counter, result, ret, runs,
                   did, printed>>

\* _ty_test_run, after its loop.
Return ==
    /\ pc = "next" /\ i > Len(tests)
    /\ pc' = "idle"
    /\ ret' = IF counts.failed > 0 THEN 1 ELSE IF counts.errors > 0 THEN 2 ELSE 0
    /\ tests' = <<>> /\ testsk' = 0
    /\ UNCHANGED <<config, i, fds, process, status, wait_counter, result, counts, runs, asked,
                   history>>

-----------------------------------------------------------------------------
(* One test, the runner's side: _ty_run_test.                              *)

Needed == IF options.capture THEN 3 ELSE 1     \* pipes
Opened == LET free == (MaxFds - fds) \div 2 IN IF free < Needed THEN free ELSE Needed

AtTest == pc = "next" /\ i <= Len(tests) /\ Selected(Test) /\ ~Test.skip

\* A pipe or the fork fails: what was opened stays open.
StartFails ==
    /\ AtTest
    /\ Opened < Needed \/ ForkFails
    /\ fds' = fds + 2 * Opened
    /\ result' = [NoResult EXCEPT !.kind = "ERROR"]
    /\ did' = "nothing" /\ printed' = NoStream
    /\ pc' = "count"
    /\ UNCHANGED <<table, config, i, process, status, wait_counter, counts, ret, runs, log>>

\* What the runner's stdout has not written yet.
Unwritten == IF terminal THEN <<>> ELSE <<"runner">>

\* The child starts with a copy of what stdout has not written yet.  The
\* runner closes the write ends of the captured streams, and keeps that of the
\* failure pipe.
Start ==
    /\ AtTest
    /\ Opened = Needed
    /\ fds' = fds + 2 * Needed - (IF options.capture THEN 2 ELSE 0)
    /\ child' = [state |-> "running", step |-> 1,
                 buffer |-> Unwritten]
    /\ stream' = NoStream /\ failure' = <<>> /\ left' = FALSE
    /\ wait_counter' = 0 /\ status' = "exit0" /\ result' = NoResult
    /\ did' = "began" /\ printed' = NoStream
    /\ pc' = "poll"
    /\ UNCHANGED <<table, config, i, counts, ret, runs, log>>

\* The child has ended, and waitpid says how.
Reap ==
    /\ pc = "poll" /\ child.state \notin {"running", "reported"}
    /\ status' = child.state
    /\ child' = [child EXCEPT !.state = "none"]
    /\ pc' = "judge"
    /\ UNCHANGED <<table, config, i, fds, stream, failure, left, wait_counter, result, counts,
                   ret, runs, history>>

Late(polls) == Limit(Test) > 0 /\ polls >= Limit(Test) * Ticks

\* It has not: without a limit the counter is not looked at, and not counted here.
Tick ==
    /\ pc = "poll" /\ child.state \in {"running", "reported"}
    /\ wait_counter' = IF Limit(Test) > 0 THEN wait_counter + 1 ELSE wait_counter
    /\ pc' = IF Late(wait_counter + 1) THEN "kill" ELSE "poll"
    /\ UNCHANGED <<table, config, i, fds, process, status, result, counts, ret, runs, history>>

\* MUTANT of Kill: the late child is polled anew instead of being killed.
PollAnew ==
    /\ pc = "kill"
    /\ wait_counter' = 0
    /\ pc' = "poll"
    /\ UNCHANGED <<table, config, i, fds, process, status, result, counts, ret, runs, history>>

\* The child may have ended, or failed, since it was found running.
Kill ==
    /\ pc = "kill"
    /\ child' = [child EXCEPT !.state = "none"]
    /\ status' = "exit0"
    /\ pc' = "judge"
    /\ UNCHANGED <<table, config, i, fds, stream, failure, left, wait_counter, result, counts,
                   ret, runs, history>>

\* MUTANT of Verdict: a test that was late is so, whatever it reported.
VerdictOfClock(report) ==
    IF status = "signal" THEN "FAIL"
    ELSE IF Late(wait_counter) THEN "FAIL_TIMEOUT"
    ELSE IF report # <<>> THEN Read[report].kind
    ELSE IF status = "exit1" THEN "FAIL" ELSE "PASS"

\* The kind of the result: what the clock says is replaced by what the report
\* says, and both by a signal.
Verdict(report) ==
    IF status = "signal" THEN "FAIL"
    ELSE IF report # <<>> THEN Read[report].kind
    ELSE IF Late(wait_counter) THEN "FAIL_TIMEOUT"
    ELSE IF status = "exit1" THEN "FAIL" ELSE "PASS"

Judge ==
    /\ pc = "judge"
    /\ result' = [result EXCEPT !.kind = Verdict(failure),
                                !.text = IF failure # <<>> THEN Read[failure].text ELSE @]
    /\ failure' = <<>>
    /\ fds' = fds - 1
    /\ pc' = IF options.capture THEN "stdout" ELSE "count"
    /\ UNCHANGED <<table, config, i, child, stream, left, status, wait_counter, counts, ret,
                   runs, history>>

\* _ty_test_capture_output: one read, that returns when there is something to
\* read or nobody is left to write.  A receive timeout is for sockets only, and
\* does nothing to a pipe.
Readable(lines) == lines # <<>> \/ ~left
Kept(lines)     == SubSeq(lines, 1, IF Len(lines) < ReadLines THEN Len(lines) ELSE ReadLines)

CaptureStdout ==
    /\ pc = "stdout" /\ Readable(stream.out)
    /\ result' = [result EXCEPT !.stdout = Kept(stream.out)]
    /\ fds' = fds - 1
    /\ pc' = "stderr"
    /\ UNCHANGED <<table, config, i, process, status, wait_counter, counts, ret, runs, history>>

\* MUTANT of CaptureStderr: the read end is not closed.
CaptureStderrOpen ==
    /\ pc = "stderr" /\ Readable(stream.err)
    /\ result' = [result EXCEPT !.stderr = Kept(stream.err)]
    /\ pc' = "count"
    /\ UNCHANGED <<table, config, i, fds, process, status, wait_counter, counts, ret, runs,
                   history>>

CaptureStderr ==
    /\ pc = "stderr" /\ Readable(stream.err)
    /\ result' = [result EXCEPT !.stderr = Kept(stream.err)]
    /\ fds' = fds - 1
    /\ pc' = "count"
    /\ UNCHANGED <<table, config, i, process, status, wait_counter, counts, ret, runs, history>>

\* MUTANT of CountedAs: what should fail and passes is counted as passed.
CountedAsFound(kind, should_fail) == IF kind = "PASS" THEN "passed" ELSE "failed"

\* How _ty_test_run counts a result.  Every kind but PASS is greater than
\* PASS, so an ERROR never gets to its own branch.
CountedAs(kind, should_fail) ==
    IF (kind = "PASS") # should_fail THEN "passed" ELSE "failed"

Count ==
    /\ pc = "count"
    /\ LET as == CountedAs(result.kind, Test.should_fail)
       IN  /\ counts' = [counts EXCEPT ![as] = @ + 1]
           /\ log' = Append(log, Entry(result.kind, did, as))
    /\ i' = i + 1
    /\ pc' = "next"
    /\ UNCHANGED <<table, config, fds, process, status, wait_counter, result, ret, runs, did,
                   printed>>

Runner == \/ PassOver \/ Skip \/ Return \/ Start \/ StartFails \/ Reap \/ Tick \/ Kill \/ Judge
          \/ CaptureStdout \/ CaptureStderr \/ Count

-----------------------------------------------------------------------------
(* One test, the child's side: _ty_test_runInChild and the test function.  *)

Alive == pc \in {"poll", "kill"} /\ child.state = "running"
Step  == Test.body[child.step]
At(op) == Alive /\ child.step <= Len(Test.body) /\ Step.op = op

HasRoom(lines) == ~options.capture \/ Len(lines) < PipeLines
Write(s, line) == IF options.capture THEN [stream EXCEPT ![s] = Append(@, line)] ELSE stream

ChildUnchanged == UNCHANGED <<table, config, pc, i, fds, status, wait_counter, result, counts,
                              ret, runs, log>>

Capacity == IF terminal THEN 0 ELSE BufferLines

Prints(s) == printed' = [printed EXCEPT ![s] = Append(@, Step.line)]

\* MUTANT of Puts: a line that the buffer has no room for gets ahead of those in it.
PutsAhead ==
    /\ At("out")
    /\ IF Len(child.buffer) < Capacity
       THEN /\ child' = [child EXCEPT !.step = @ + 1, !.buffer = Append(@, Step.line)]
            /\ UNCHANGED stream
       ELSE /\ HasRoom(stream.out)
            /\ child' = [child EXCEPT !.step = @ + 1]
            /\ stream' = Write("out", Step.line)
    /\ Prints("out")
    /\ UNCHANGED <<failure, left, did>> /\ ChildUnchanged

\* printf to stdout: the line is written only when the buffer overflows.
Puts ==
    /\ At("out")
    /\ LET buffer == Append(child.buffer, Step.line)
       IN  IF Len(buffer) <= Capacity
           THEN /\ child' = [child EXCEPT !.step = @ + 1, !.buffer = buffer]
                /\ UNCHANGED stream
           ELSE /\ HasRoom(stream.out)
                /\ child' = [child EXCEPT !.step = @ + 1, !.buffer = Tail(buffer)]
                /\ stream' = Write("out", Head(buffer))
    /\ Prints("out")
    /\ UNCHANGED <<failure, left, did>> /\ ChildUnchanged

\* fflush(stdout), a line at a time.
Flush ==
    /\ At("flush")
    /\ IF child.buffer = <<>>
       THEN child' = [child EXCEPT !.step = @ + 1] /\ UNCHANGED stream
       ELSE /\ HasRoom(stream.out)
            /\ child' = [child EXCEPT !.buffer = Tail(@)]
            /\ stream' = Write("out", Head(child.buffer))
    /\ UNCHANGED <<failure, left, did, printed>> /\ ChildUnchanged

\* A line to stderr, which has no buffer.
PutsError ==
    /\ At("err")
    /\ HasRoom(stream.err)
    /\ stream' = Write("err", Step.line)
    /\ child' = [child EXCEPT !.step = @ + 1]
    /\ Prints("err")
    /\ UNCHANGED <<failure, left, did>> /\ ChildUnchanged

\* The test forks, and does not wait for what it forked.
Leave ==
    /\ At("leave")
    /\ left' = TRUE
    /\ child' = [child EXCEPT !.step = @ + 1]
    /\ UNCHANGED <<stream, failure, did, printed>> /\ ChildUnchanged

\* An assertion fails: the report is written, in one piece for the pipe is
\* empty, and the child has yet to exit.
Fail ==
    /\ At("fail")
    /\ failure' = Message[Step.report]
    /\ child' = [child EXCEPT !.state = "reported"]
    /\ did' = "failed"
    /\ UNCHANGED <<stream, left, printed>> /\ ChildUnchanged

FailExit ==
    /\ pc \in {"poll", "kill"} /\ child.state = "reported"
    /\ child' = [child EXCEPT !.state = "exit1"]
    /\ UNCHANGED <<stream, failure, left, did, printed>> /\ ChildUnchanged

\* The test function ends the process: a child that leaves with the status 0
\* looks like one whose function returned.
Die ==
    /\ \/ At("exit")  /\ child' = [child EXCEPT !.state = "exit1"]  /\ did' = "exited"
       \/ At("quit")  /\ child' = [child EXCEPT !.state = "exit0"]  /\ did' = "quit"
       \/ At("crash") /\ child' = [child EXCEPT !.state = "signal"] /\ did' = "crashed"
    /\ UNCHANGED <<stream, failure, left, printed>> /\ ChildUnchanged

\* The test function returns: _exit(0), which flushes nothing.
Finish ==
    /\ Alive /\ child.step > Len(Test.body)
    /\ child' = [child EXCEPT !.state = "exit0"]
    /\ did' = "finished"
    /\ UNCHANGED <<stream, failure, left, printed>> /\ ChildUnchanged

Child == Puts \/ Flush \/ PutsError \/ Leave \/ Fail \/ FailExit \/ Die \/ Finish

\* The process that a test left ends, if it ever does.
LeftEnds ==
    /\ left
    /\ left' = FALSE
    /\ UNCHANGED <<child, stream, failure, did, printed>> /\ ChildUnchanged

-----------------------------------------------------------------------------
Options == [default_timeout : Timeouts, capture : BOOLEAN, suite : Suites]

\* The program has returned from its last ty_test_run.
Over == pc = "idle" /\ runs = MaxRuns /\ UNCHANGED vars

Next == \/ \E t \in Tests : Register(t)
        \/ RegisterFails
        \/ \E o \in Options : Run(o)
        \/ Runner
        \/ Child
        \/ LeftEnds
        \/ Over

\* The runner and the child are processes, which the system does not starve.
\* Nothing obliges a process that was left behind to end.
Spec == Init /\ [][Next]_vars /\ WF_vars(Runner) /\ WF_vars(Child)

-----------------------------------------------------------------------------
(* Properties.                                                             *)

Kinds == {"PASS", "FAIL", "FAIL_ASSERT", "FAIL_STRING", "FAIL_NUMBER", "FAIL_MEMORY",
          "FAIL_TIMEOUT", "ERROR"}
\* The assertion that the current test failed.
Failing == Test.body[child.step]

\* Types; and the runner never has more descriptors open than it may.
TypeOK ==
    /\ tests \in Seq(Tests) /\ testsk \in Nat /\ Len(tests) <= testsk /\ asked \in 0 .. MaxTests
    /\ terminal \in BOOLEAN /\ left \in BOOLEAN
    /\ options \in [default_timeout : Timeouts \cup {0}, capture : BOOLEAN,
                    suite : Suites \cup {NoSuite}]
    /\ pc \in {"idle", "next", "poll", "kill", "judge", "stdout", "stderr", "count"}
    /\ i \in 1 .. MaxTests + 1
    /\ fds \in 0 .. MaxFds
    /\ child \in [state : {"none", "running", "reported", "exit0", "exit1", "signal"},
                  step : Nat \ {0}, buffer : Seq(Lines)]
    /\ stream \in [out : Seq(Lines), err : Seq(Lines)]
    /\ {Len(stream.out), Len(stream.err)} \subseteq 0 .. PipeLines
    /\ Len(failure) <= MaxMessage
    /\ status \in {"exit0", "exit1", "signal"}
    /\ wait_counter \in Nat
    /\ result \in [kind : Kinds, text : ReportTexts, stdout : Seq(Lines), stderr : Seq(Lines)]
    /\ counts \in [passed : Nat, failed : Nat, skipped : Nat, errors : Nat]
    /\ ret \in 0 .. 2 /\ runs \in 0 .. MaxRuns

\* The result fits what the test did.  A test that was late may have ended in
\* the meantime; one that had no limit cannot have been late.
VerdictFits ==
    LET late == Limit(Test) > 0 /\ result.kind = "FAIL_TIMEOUT"
    IN  CASE did = "nothing"  -> result.kind = "ERROR"
          [] did = "began"    -> late
          [] did \in {"finished", "quit"} -> result.kind = "PASS" \/ late
          [] did = "failed"   -> Failing.report.kind = result.kind
          [] did = "exited"   -> result.kind = "FAIL" \/ late
          [] did = "crashed"  -> result.kind = "FAIL" \/ late

\* The verdict on a test is how its child ended: PASS if and only if it ended in
\* time, with the status 0 and without an assertion that failed; the kind of the
\* assertion that did; FAIL for a status of 1 and for a signal; ERROR if it
\* never ran.  Whether the test function returned is not part of it: one that
\* calls exit(0) half-way passes too.  (_ty_run_test, ty_test.c:616-631)
VerdictIsOfChild == pc = "count" => VerdictFits

\* What the runner prints of a failed assertion is what the test reported:
\* every character of it, bars and backslashes included, or as much of it as
\* the message could hold.  (_ty_test_write_failure_to_pipe,
\* _ty_read_failure_from_pipe)
ReportIsConveyed ==
    pc = "count" /\ did = "failed" => Conveys(Failing.report, result.text)

\* The captured output of a test is what it printed, in order and as much as
\* the runner keeps.  On a terminal it is all of it.  Elsewhere it begins with what
\* the runner's own report had waiting, and lacks at most what stdout's buffer held
\* at the end.  (_ty_test_runInChild, _ty_test_capture_output)
OutputIsOfTest ==
    LET all == Unwritten \o printed.out
    IN  pc = "count" /\ options.capture /\ result.kind # "ERROR" =>
          /\ result.stderr = Kept(printed.err)
          /\ \E n \in Len(all) - Capacity .. Len(all) : result.stdout = Kept(SubSeq(all, 1, n))

\* A run counts every test of the suite it was asked for once, in the order of
\* registration, and no other.  (_ty_test_run)
CountedOnce ==
    LET counted(as) == Cardinality({k \in DOMAIN log : log[k].counted = as})
    IN  pc = "next" =>
          /\ {log[k].test : k \in DOMAIN log} = {n \in 1 .. i - 1 : Selected(tests[n])}
          /\ \A j, k \in DOMAIN log : j < k => log[j].test < log[k].test
          /\ counts.passed = counted("passed")
          /\ counts.failed = counted("failed")
          /\ counts.skipped = counted("skipped")

\* A run returns 0 just when of the tests it started every one that was to pass
\* ended with the status 0, in time and without an assertion that failed, and none
\* that was to fail did so in time; and when every test that was to pass was
\* started.  One that was to fail need not have been, although errors are to be
\* counted and returned: ErrorsAreReturned is what does not hold.  (_ty_test_run,
\* ty_test.c:749-791)
ZeroMeansAsExpected ==
    [][pc = "next" /\ pc' = "idle" =>
         (ret' = 0) = \A k \in DOMAIN log :
            LET well == log[k].did \in {"finished", "quit"} /\ log[k].kind # "FAIL_TIMEOUT"
            IN  CASE log[k].kind = "SKIP"  -> TRUE
                  [] log[k].kind = "ERROR" -> tests[log[k].test].should_fail
                  [] OTHER                 -> well # tests[log[k].test].should_fail]_vars

\* A run with a test that could not be started does not return 0: such tests are
\* counted as errors, which it returns.  (ty_test.c:767, 788)
ErrorsAreReturned ==
    [][pc = "next" /\ pc' = "idle" /\ (\E k \in DOMAIN log : log[k].kind = "ERROR")
         => ret' # 0]_vars

\* Between two tests no child is left, and a test has cost the runner one
\* descriptor, the write end of its failure pipe, unless it could not be
\* started.  (_ty_run_test)
NothingLeftButOne ==
    pc = "next" /\ runs = 1 =>
        /\ child.state = "none"
        /\ (\A k \in DOMAIN log : log[k].kind # "ERROR")
              => fds = Cardinality({k \in DOMAIN log : log[k].kind # "SKIP"})

\* Whether the child of test t ends by itself whatever the runner does: its
\* steps do, and its output fits the pipes that nobody reads until it is over.
EndsAlone(t) ==
    LET times(op) == Cardinality({k \in DOMAIN t.body : t.body[k].op = op})
    IN  /\ times("hang") = 0
        /\ ~options.capture \/ (times("out") < PipeLines /\ times("err") <= PipeLines)

\* A run ends if each of its tests ends by itself or has a limit, and none
\* leaves a process behind.  (_ty_test_run)
RunEnds ==
    (/\ pc = "next"
     /\ \A k \in DOMAIN tests :
          /\ EndsAlone(tests[k]) \/ Limit(tests[k]) > 0
          /\ \A j \in DOMAIN tests[k].body : tests[k].body[j].op # "leave")
        ~> pc = "idle"
=============================================================================
