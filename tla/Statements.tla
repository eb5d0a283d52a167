----------------------------- MODULE Statements -----------------------------
(***************************************************************************)
(* Where the statements of a script are: split_statements and              *)
(* _skip_single_quoted (backend/queryview/drivers/base.py), mirrored by    *)
(* statementSpans in frontend/src/app/scriptRun.ts, and statementRangeAt,  *)
(* the statement that Run takes from under the cursor.                     *)
(*                                                                         *)
(* A script is typed at its end, a chunk at a time; each state is checked. *)
(***************************************************************************)
EXTENDS Integers, SequencesExt

CONSTANTS
    Chunks,      \* what is typed at a time: sequences of characters
    MaxChunks    \* bound: chunks typed

Letters == {"a"}
Digits == {"1"}
Blanks == {"\n"}

VARIABLES text, typed

Init == text = <<>> /\ typed = 0

Type ==
    /\ typed < MaxChunks
    /\ typed' = typed + 1
    /\ \E chunk \in Chunks : text' = text \o chunk

Spec == Init /\ [][Type]_<<text, typed>>

-----------------------------------------------------------------------------
(* The scanner.                                                             *)

At(s, pat, i) == i + Len(pat) - 1 <= Len(s) /\ SubSeq(s, i, i + Len(pat) - 1) = pat

\* Past the first `pat` from i on; without one the rest of the script is swallowed.
Past(s, pat, i) ==
    LET hits == {j \in i..Len(s) : At(s, pat, j)} IN
    IF hits = {} THEN Len(s) + 1 ELSE Min(hits) + Len(pat)

\* A backslash escapes the next character of a single-quoted string.
SkipSingleQuoted(s, i) ==
    LET skip[j \in 1..Len(s) + 2] ==
            CASE j > Len(s) -> Len(s) + 1
              [] j <= Len(s) /\ s[j] = "\\" -> skip[j + 2]
              [] j <= Len(s) /\ s[j] = "'" -> j + 1
              [] OTHER -> skip[j + 1]
    IN skip[i + 1]

\* _DOLLAR_TAG at i: `$$`, or `$name$`; none is the empty sequence.
DollarTag(s, i) ==
    LET ends == {j \in i + 1..Len(s) :
                    /\ s[j] = "$"
                    /\ \A k \in i + 1..j - 1 : s[k] \in Letters \cup Digits
                    /\ s[i + 1] \notin Digits}
    IN IF s[i] # "$" \/ ends = {} THEN <<>> ELSE SubSeq(s, i, Min(ends))

\* Seeded bug: the star that opens a comment can also close it.
StepSlashStar(s, i) ==
    CASE s[i] = "'" -> SkipSingleQuoted(s, i)
      [] s[i] = "\"" -> Past(s, <<s[i]>>, i + 1)
      [] DollarTag(s, i) # <<>> -> Past(s, DollarTag(s, i), i + Len(DollarTag(s, i)))
      [] At(s, <<"-", "-">>, i) -> Past(s, <<"\n">>, i)
      [] At(s, <<"/", "*">>, i) -> Past(s, <<"*", "/">>, i + 1)
      [] OTHER -> i + 1

\* Where the scan goes on after the quote (a double quote or a backtick), body, comment or
\* character at i.
ScanFrom(s, i) ==
    CASE s[i] = "'" -> SkipSingleQuoted(s, i)
      [] s[i] = "\"" -> Past(s, <<s[i]>>, i + 1)
      [] DollarTag(s, i) # <<>> -> Past(s, DollarTag(s, i), i + Len(DollarTag(s, i)))
      [] At(s, <<"-", "-">>, i) -> Past(s, <<"\n">>, i)
      [] At(s, <<"/", "*">>, i) -> Past(s, <<"*", "/">>, i + 2)
      [] OTHER -> i + 1

\* The semicolons that end statements.
Separators(s) ==
    LET from[i \in 1..Len(s) + 1] ==
            IF i > Len(s) THEN {}
            ELSE from[ScanFrom(s, i)] \cup (IF s[i] = ";" THEN {i} ELSE {})
    IN from[1]

\* Seeded bug: only the end is trimmed.
TrimEnd(s, a, b) ==
    LET ink == {i \in a..b : s[i] \notin Blanks} IN
    IF ink = {} THEN <<>> ELSE << <<a, Max(ink)>> >>

\* The piece a..b without surrounding white space; a blank one is dropped.
Trim(s, a, b) ==
    LET ink == {i \in a..b : s[i] \notin Blanks} IN
    IF ink = {} THEN <<>> ELSE << <<Min(ink), Max(ink)>> >>

Between(s, cuts) ==
    FlattenSeq([k \in 1..Len(cuts) - 1 |-> Trim(s, cuts[k] + 1, cuts[k + 1] - 1)])

\* First and last character of each statement, in order.
Spans(s) == Between(s, <<0>> \o SetToSortSeq(Separators(s), <) \o <<Len(s) + 1>>)

Texts(s, spans) == [k \in DOMAIN spans |-> SubSeq(s, spans[k][1], spans[k][2])]

SplitStatements(s) == Texts(s, Spans(s))

-----------------------------------------------------------------------------
(* The statement under a cursor, which is before character cursor + 1.      *)

\* Seeded bug: the gap after a statement belongs to it, over line ends too.
RangeAtLazy(s, cursor) ==
    LET spans == Spans(s)
        before == {k \in DOMAIN spans : spans[k][2] <= cursor}
    IN IF spans = <<>> THEN <<>> ELSE IF before = {} THEN spans[1] ELSE spans[Max(before)]

SpanUnder(s, spans, cursor) ==
    LET inside == {k \in DOMAIN spans : spans[k][1] - 1 <= cursor /\ cursor <= spans[k][2]}
        before == {k \in DOMAIN spans : spans[k][2] < cursor}
        prev == IF before = {} THEN 0 ELSE Max(before)
        sameLine == \A i \in spans[prev][2] + 1..cursor : s[i] # "\n"
    IN CASE spans = <<>> -> <<>>
         [] inside # {} -> spans[Min(inside)]
         [] OTHER -> IF prev # 0 /\ (prev = Len(spans) \/ sameLine)
                     THEN spans[prev] ELSE spans[prev + 1]

StatementRangeAt(s, cursor) == SpanUnder(s, Spans(s), cursor)

-----------------------------------------------------------------------------
(* Properties.                                                              *)

Top == [mode |-> "top", tag |-> <<>>, seen |-> <<>>]

\* One more character c at the end of what is read: at the top level `tag` is a dollar
\* tag that has begun, and `seen` the character before.
Read(st, c) ==
    LET seen == Append(st.seen, c)
        body(tag) == [mode |-> "dollar", tag |-> tag, seen |-> <<>>]
        inside(m) == [Top EXCEPT !.mode = m]
        open == IF c = "$" THEN <<"$">>
                ELSE IF st.tag # <<>> /\ (c \in Letters \/ (c \in Digits /\ Len(st.tag) > 1))
                THEN Append(st.tag, c) ELSE <<>>
    IN CASE st.mode = "top" /\ c = "'" -> inside("single")
         [] st.mode = "top" /\ c = "\"" -> inside("double")
         [] st.mode = "top" /\ c = "$" /\ st.tag # <<>> -> body(Append(st.tag, c))
         [] st.mode = "top" /\ c = "-" /\ st.seen = <<"-">> -> inside("line")
         [] st.mode = "top" /\ c = "*" /\ st.seen = <<"/">> -> inside("block")
         [] st.mode = "single" /\ c = "\\" -> inside("escaped")
         [] st.mode = "escaped" -> inside("single")
         [] st.mode = "single" /\ c = "'" -> Top
         [] st.mode = "double" /\ c = "\"" -> Top
         [] st.mode = "line" /\ c = "\n" -> Top
         [] st.mode = "block" /\ IsSuffix(<<"*", "/">>, seen) -> Top
         [] st.mode = "dollar" /\ IsSuffix(st.tag, seen) -> Top
         [] OTHER -> IF st.mode = "top" THEN [Top EXCEPT !.tag = open, !.seen = <<c>>]
                     ELSE [st EXCEPT !.seen = seen]

\* split_statements' docstring, read one character at a time without looking ahead: a
\* statement ends at a semicolon outside quotes, dollar bodies and comments.
SplitIsRight ==
    LET state(i) == FoldLeft(Read, Top, SubSeq(text, 1, i)) IN
    Separators(text) = {i \in 1..Len(text) : text[i] = ";" /\ state(i - 1).mode = "top"}

RunsOne(r, cursor) ==
    /\ (r = <<>>) <=> SplitStatements(text) = <<>>
    /\ r # <<>> => LET stmt == SubSeq(text, r[1], r[2]) IN SplitStatements(stmt) = <<stmt>>
    /\ r # <<>> /\ (\E i \in r[2] + 1..cursor : text[i] = "\n") => r = Last(Spans(text))

\* statementSpans' "the statement under the cursor is exactly what the server would run
\* alone": wherever the cursor is, what Run sends is one statement to the server, unless
\* the script is blank; and a cursor on a blank line below runs no statement above it that
\* has one after it.
CursorRunsOne ==
    \A cursor \in 0..Len(text) : RunsOne(StatementRangeAt(text, cursor), cursor)
=============================================================================
