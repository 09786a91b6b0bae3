----------------------------- MODULE FailureReport -----------------------------
(***************************************************************************)
(* The message in which a failing test tells the runner of its failure: a  *)
(* kind, a file, an expression, an expected and an actual value and a line, *)
(* each ended by a bar, in which bars and backslashes are escaped.  It is  *)
(* cut where the buffer ends.  A text is a sequence of characters, a line  *)
(* one of digits, and a kind, always one digit, a character.               *)
(***************************************************************************)
EXTENDS Integers, FiniteSets, SequencesExt

CONSTANTS MaxMessage,   \* characters in a message: one less than its buffer
          MaxField      \* characters kept of a field, likewise

ASSUME FailureReportAssumption == {MaxMessage, MaxField} \subseteq Nat \ {0}

Bar       == "|"
Backslash == "\\"
Special   == {Bar, Backslash}
MaxFields == 6

\* Texts are of single characters.  Those of a report may hold any; a line is
\* digits and a sign.
FailureKinds == {"FAIL_ASSERT", "FAIL_STRING", "FAIL_NUMBER", "FAIL_MEMORY"}
Character == STRING
Text      == Seq(Character)
FailureReports == [kind : FailureKinds, file : Text, expression : Text, expected : Text,
                   got : Text, line : Seq(Character \ Special)]

\* (The characters that are written here are strings: the provers do not know.)
ASSUME LiteralsAssumption == Special \cup FailureKinds \cup {"timeout"} \subseteq Character

\* What is read of them.
ReportTexts == [file : Text, expression : Text, expected : Text, got : Text, line : Text]

-----------------------------------------------------------------------------
(* The failing test's side.                                                *)

\* p with the characters of s, those of "special" after a backslash, as far
\* as there is room.
Escaped(p, s, special) ==
    LET put(w, c) == IF Len(w) >= MaxMessage THEN w ELSE
                     IF c \in special /\ Len(w) + 1 < MaxMessage THEN w \o <<Backslash, c>>
                     ELSE Append(w, c)
        text[k \in 0 .. Len(s)] == IF k = 0 THEN p ELSE LET w == text[k - 1] IN put(w, s[k])
    IN  text[Len(s)]

\* MUTANT of AppendEscaped: bars are not escaped.
AppendBarsBare(p, s) == Escaped(p, s, {Backslash})

\* _ty_test_append_escaped: a special character that is alone with the last
\* free place goes in without its escape.
AppendEscaped(p, s) == Escaped(p, s, Special)

AppendLiteral(p, s) == SubSeq(p \o s, 1, IF Len(p \o s) < MaxMessage THEN Len(p \o s) ELSE MaxMessage)

\* _ty_test_write_failure_to_pipe, up to the write.
Format(r) ==
    LET texts == <<r.file, r.expression, r.expected, r.got>>
        fields[k \in 0 .. 4] ==
            IF k = 0 THEN AppendLiteral(<<r.kind>>, <<Bar>>)
            ELSE LET p == fields[k - 1] IN AppendLiteral(AppendEscaped(p, texts[k]), <<Bar>>)
    IN  AppendLiteral(AppendLiteral(fields[4], r.line), <<Bar>>)

-----------------------------------------------------------------------------
(* The runner's side.                                                      *)

\* _ty_split_fields: at most six fields; the sixth ends at its bar, and what
\* comes after it is dropped.
Split(buffer) ==
    LET step(st, c, last) ==
            LET n == Len(st.fields)
                kept(escaped) == [fields |-> [st.fields EXCEPT ![n] = Append(@, c)],
                                  escaped |-> escaped, closed |-> FALSE]
            IN  IF st.closed THEN st
                ELSE IF st.escaped THEN kept(FALSE)
                ELSE IF c # Bar THEN kept(c = Backslash /\ ~last)
                ELSE IF n = MaxFields THEN [st EXCEPT !.closed = TRUE]
                ELSE [st EXCEPT !.fields = Append(@, <<>>)]
        scan[k \in 0 .. Len(buffer)] ==
            IF k = 0 THEN [fields |-> <<<<>>>>, escaped |-> FALSE, closed |-> FALSE]
            ELSE LET st == scan[k - 1] IN step(st, buffer[k], k = Len(buffer))
    IN  scan[Len(buffer)].fields

\* _ty_test_unescape
Unescape(s) ==
    LET step(st, k) ==
            IF ~st.escaped /\ s[k] = Backslash /\ k < Len(s) /\ s[k + 1] \in Special
            THEN [st EXCEPT !.escaped = TRUE]
            ELSE [text |-> Append(st.text, s[k]), escaped |-> FALSE]
        scan[k \in 0 .. Len(s)] ==
            IF k = 0 THEN [text |-> <<>>, escaped |-> FALSE]
            ELSE LET st == scan[k - 1] IN step(st, k)
    IN  scan[Len(s)].text

\* Field k, and nothing when the message has no such field.
Field(fields, k) == IF Len(fields) >= k THEN fields[k] ELSE <<>>

\* snprintf into a field of the result.
Cut(s) == SubSeq(s, 1, IF Len(s) < MaxField THEN Len(s) ELSE MaxField)

Nothing == [file |-> <<>>, expression |-> <<>>, expected |-> <<>>, got |-> <<>>, line |-> <<>>]

\* _ty_read_failure_from_pipe, after the read: the fields a kind keeps.  For
\* a memory comparison the expression is a text of the runner's own.
Parse(message) ==
    LET fields == Split(message)
        text(k) == Cut(Unescape(Field(fields, k)))
        base   == [Nothing EXCEPT !.file = text(2), !.line = Field(fields, 6)]
        kind   == fields[1][1]
    IN  [kind |-> kind,
         text |-> CASE kind = "FAIL_ASSERT" -> [base EXCEPT !.expression = text(3)]
                    [] kind \in {"FAIL_STRING", "FAIL_NUMBER"} ->
                         [base EXCEPT !.expression = text(3), !.expected = text(4), !.got = text(5)]
                    [] kind = "FAIL_MEMORY" -> [base EXCEPT !.expression = <<"timeout">>]]

-----------------------------------------------------------------------------
(* What a parsed report owes the report that was sent.                     *)

\* Whether the whole of a report got into its message.
Whole(r) ==
    LET escapes(s) == Len(s) + Cardinality({k \in DOMAIN s : s[k] \in Special})
    IN  7 + escapes(r.file) + escapes(r.expression) + escapes(r.expected) + escapes(r.got)
            + Len(r.line) <= MaxMessage

\* The fields that are passed on are those of the report, or what the cut left
\* of them.
Conveys(r, text) ==
    /\ IsPrefix(text.file, r.file) /\ IsPrefix(text.line, r.line)
    /\ r.kind # "FAIL_MEMORY" => IsPrefix(text.expression, r.expression)
    /\ r.kind \in {"FAIL_STRING", "FAIL_NUMBER"} =>
          IsPrefix(text.expected, r.expected) /\ IsPrefix(text.got, r.got)
    /\ Whole(r) => /\ text.file = Cut(r.file) /\ text.line = r.line
                   /\ r.kind # "FAIL_MEMORY" => text.expression = Cut(r.expression)
                   /\ r.kind \in {"FAIL_STRING", "FAIL_NUMBER"} =>
                         text.expected = Cut(r.expected) /\ text.got = Cut(r.got)
=============================================================================
