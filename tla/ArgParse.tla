------------------------------- MODULE ArgParse -------------------------------
(***************************************************************************)
(* ty_argparse: a cursor over the arguments.  An argument is a sequence of *)
(* characters; the end of it reads as NUL, the end of the arguments as     *)
(* NULL.  The client is the one of ty_argparse.c, with the options of its  *)
(* usage: it takes a value for some, and stops at one it does not know.    *)
(***************************************************************************)
EXTENDS Integers, Sequences

CONSTANTS Known,        \* names of options, a short one being a sequence of one
          WithValue     \* those that take a value

ASSUME ArgParseAssumption == WithValue \subseteq Known

NULL == <<"NULL">>
End  == "end"

\* arg_init: past the name of the program, if there is one.
ArgInit(argv) == [only_pos |-> FALSE, short_index |-> 0, args |-> IF argv = <<>> THEN 1 ELSE 2]

AtEnd(argv, ctxt)     == ctxt.args > Len(argv)
Letter(argv, ctxt, i) == IF i < Len(argv[ctxt.args]) THEN argv[ctxt.args][i + 1] ELSE End
Rest(argv, ctxt, i)   == SubSeq(argv[ctxt.args], i + 1, Len(argv[ctxt.args]))

Onward(ctxt)           == [ctxt EXCEPT !.args = @ + 1]
Token(kind, text)      == [kind |-> kind, text |-> text, value |-> NULL]
Given(ctxt, arg)       == [ctxt |-> ctxt, arg |-> arg]
Positional(argv, ctxt) == Given(Onward(ctxt), Token("positional", argv[ctxt.args]))

\* One letter of a cluster; the last one leaves the argument.
ShortArg(argv, ctxt) ==
    LET next == [ctxt EXCEPT !.short_index = @ + 1]
    IN  Given(IF Letter(argv, ctxt, next.short_index) = End
                  THEN [Onward(ctxt) EXCEPT !.short_index = 0] ELSE next,
              Token("short", <<Letter(argv, ctxt, ctxt.short_index)>>))

\* arg_next
ArgNext(argv, ctxt) ==
    LET letter(i) == Letter(argv, ctxt, i)
        rest      == [Onward(ctxt) EXCEPT !.only_pos = TRUE]
    IN  CASE AtEnd(argv, ctxt) -> Given(ctxt, Token("done", <<>>))
          [] ~AtEnd(argv, ctxt) /\ ctxt.only_pos -> Positional(argv, ctxt)
          [] ~AtEnd(argv, ctxt) /\ ~ctxt.only_pos /\ ctxt.short_index > 0 -> ShortArg(argv, ctxt)
          [] OTHER ->
             CASE letter(0) # "-" \/ letter(1) = End -> Positional(argv, ctxt)
               [] letter(0) = "-" /\ letter(1) = "-" /\ letter(2) = End ->
                      IF AtEnd(argv, rest) THEN Given(rest, Token("done", <<>>))
                                           ELSE Positional(argv, rest)
               [] letter(0) = "-" /\ letter(1) = "-" /\ letter(2) # End ->
                      Given(Onward(ctxt), Token("long", Rest(argv, ctxt, 2)))
               [] OTHER -> ShortArg(argv, [ctxt EXCEPT !.short_index = 1])

\* MUTANT of ArgNextValue: the cursor stays in a cluster that has been left.
ArgNextValueInCluster(argv, ctxt) ==
    CASE ctxt.short_index > 0 -> Given(Onward(ctxt), Rest(argv, ctxt, ctxt.short_index))
      [] ctxt.short_index = 0 /\ AtEnd(argv, ctxt) -> Given(ctxt, NULL)
      [] OTHER -> Given(Onward(ctxt), argv[ctxt.args])

\* arg_next_value: what is left of a cluster, or the next argument, or NULL.
ArgNextValue(argv, ctxt) ==
    CASE ctxt.short_index > 0 ->
             Given([Onward(ctxt) EXCEPT !.short_index = 0], Rest(argv, ctxt, ctxt.short_index))
      [] ctxt.short_index = 0 /\ AtEnd(argv, ctxt) -> Given(ctxt, NULL)
      [] OTHER -> Given(Onward(ctxt), argv[ctxt.args])

\* One turn of the client's loop: the context, what was read, how it goes on.
ClientTurn(argv, was) ==
    LET next  == ArgNext(argv, was.ctxt)
        arg   == next.arg
        value == ArgNextValue(argv, next.ctxt)
        named == arg.kind \in {"short", "long"}
        read(ctxt, token, then) == [ctxt |-> ctxt, read |-> Append(was.read, token), on |-> then]
    IN  CASE arg.kind = "done" -> [was EXCEPT !.on = "done"]
          [] named /\ arg.text \notin Known -> read(next.ctxt, arg, "error")
          [] named /\ arg.text \in WithValue ->
                 read(value.ctxt, [arg EXCEPT !.value = value.arg],
                      IF value.arg = NULL THEN "error" ELSE "loop")
          [] OTHER -> read(next.ctxt, arg, "loop")

\* main of ty_argparse.c.  Each turn but the last takes a character at least.
ReadArguments(argv) ==
    LET characters[i \in 0 .. Len(argv)] ==
            IF i = 0 THEN 1 ELSE characters[i - 1] + Len(argv[i]) + 1
        turn[n \in 0 .. characters[Len(argv)]] ==
            IF n = 0 THEN [ctxt |-> ArgInit(argv), read |-> <<>>, on |-> "loop"]
            ELSE LET was == turn[n - 1] IN IF was.on = "loop" THEN ClientTurn(argv, was) ELSE was
    IN  turn[characters[Len(argv)]]
=============================================================================
