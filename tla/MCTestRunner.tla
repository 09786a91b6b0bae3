----------------------------- MODULE MCTestRunner -----------------------------
(***************************************************************************)
(* Instances of TestRunner for TLC: tests that end in every way a test can. *)
(***************************************************************************)
EXTENDS TestRunner

Do(op) == [op |-> op]
Out(line) == [op |-> "out", line |-> line]
Err(line) == [op |-> "err", line |-> line]
Report(kind, expression, expected, got) ==
    [kind |-> kind, file |-> <<"f">>, expression |-> expression, expected |-> expected,
     got |-> got, line |-> <<"1", "2">>]
Failed(kind, expression, expected, got) ==
    [op |-> "fail", report |-> Report(kind, expression, expected, got)]

Body(body) == [suite |-> "a", skip |-> FALSE, timeout |-> 0, should_fail |-> FALSE, body |-> body]

Quiet   == Body(<<>>)
Speaks  == Body(<<Out("a"), Err("b"), Do("flush"), Out("c")>>)
Noisy   == Body(<<Out("a"), Out("b"), Out("c"), Out("d")>>)
Quits   == Body(<<Out("a"), Err("b"), Err("c"), Do("flush"), Do("quit")>>)
Asserts == Body(<<Out("a"), Failed("FAIL_ASSERT", <<"a", "|", "|", "b">>, <<>>, <<>>)>>)
Compares == Body(<<Failed("FAIL_STRING", <<"-">>, <<"x", "\\">>, <<"\\", "|">>)>>)
TooLong == Body(<<Failed("FAIL_STRING", <<"-">>, <<"x", "|">>, <<"y", "y", "\\", "y", "y", "|">>)>>)
Differs == Body(<<Failed("FAIL_MEMORY", <<"M">>, <<>>, <<>>)>>)
Crashes == Body(<<Err("a"), Do("crash")>>)
Exits   == Body(<<Do("exit")>>)
Hangs   == Body(<<Do("hang")>>)
Leaves  == Body(<<Do("leave")>>)

ToFail(t) == [t EXCEPT !.should_fail = TRUE]
Of(t, suite) == [t EXCEPT !.suite = suite]
Within(t, timeout) == [t EXCEPT !.timeout = timeout]
Skipped(t) == [t EXCEPT !.skip = TRUE]

AllTests == {Of(Quiet, "b"), Speaks, Noisy, Quits, ToFail(Quits), Asserts, ToFail(Compares), Of(TooLong, "b"),
             Differs, Crashes, ToFail(Exits), Hangs, ToFail(Within(Hangs, 1)), Leaves, Skipped(Asserts)}
=============================================================================
