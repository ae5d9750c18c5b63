------------------------------- MODULE VarFmt -------------------------------
(***************************************************************************)
(* varfmt.Sprintf (src/varfmt/fmt.go): the format is copied byte by byte, *)
(* except that each "{...}" is replaced by an argument: "{}" by the one    *)
(* whose index is the number of brace groups before it, "{n}" by args[n].  *)
(* A group without its "}", an n that is not a number or out of range, and *)
(* a "{}" past the last argument panic.                                    *)
(*                                                                         *)
(* A string is a sequence of one-character strings.  The arguments are     *)
(* strings (the `case string` of the type switch), so an argument is       *)
(* written as it is.  The call is one step.                                *)
(***************************************************************************)
EXTENDS Integers, Sequences, FiniteSets, TLC

SX == INSTANCE SequencesExt

CONSTANTS
    Chars,      \* the characters of a format
    MaxLen,     \* the longest format
    Args        \* the arguments: a sequence of strings

VARIABLES
    format,     \* the format Sprintf is called with
    sb,         \* the string it returned
    panicked,   \* it panicked
    fmtPc       \* "call" or "done"

vars == <<format, sb, panicked, fmtPc>>

TypeOK ==
    /\ format \in SX!BoundedSeq(Chars, MaxLen) /\ panicked \in BOOLEAN
    /\ fmtPc \in {"call", "done"}

Init ==
    /\ format \in SX!BoundedSeq(Chars, MaxLen)
    /\ sb = <<>> /\ panicked = FALSE /\ fmtPc = "call"

\* strconv.Atoi: an optional sign and at least one decimal digit.
Digit == "0" :> 0 @@ "1" :> 1 @@ "2" :> 2 @@ "3" :> 3 @@ "4" :> 4
         @@ "5" :> 5 @@ "6" :> 6 @@ "7" :> 7 @@ "8" :> 8 @@ "9" :> 9
AtoiOk(s) ==
    LET ds == IF s # <<>> /\ s[1] \in {"+", "-"} THEN Tail(s) ELSE s
    IN ds # <<>> /\ \A k \in DOMAIN ds : ds[k] \in DOMAIN Digit
Atoi(s) ==
    LET neg == s[1] = "-"
        ds == IF s[1] \in {"+", "-"} THEN Tail(s) ELSE s
        v == SX!FoldLeft(LAMBDA acc, c : 10 * acc + Digit[c], 0, ds)
    IN IF neg THEN -v ELSE v

-----------------------------------------------------------------------------
Fail == [out |-> <<>>, panic |-> TRUE]

\* addArgByIterator: args[index] written as it is; an index past the end
\* is Go's index-out-of-range panic.
addArgByIterator(index, out) ==
    IF index < Len(Args) THEN [out |-> out \o Args[index + 1], panic |-> FALSE]
    ELSE Fail

\* addArg and addArgByIndex for the group between i and the "}" at j.
addArg(i, j, it, out) ==
    LET insideBraces == SubSeq(format, i + 1, j - 1)
    IN IF insideBraces = <<>> THEN addArgByIterator(it, out)
       ELSE IF ~AtoiOk(insideBraces) \/ Atoi(insideBraces) < 0
               \/ Atoi(insideBraces) >= Len(Args)
            THEN Fail
            ELSE addArgByIterator(Atoi(insideBraces), out)

\* parserForBraces: the first "}" after the "{" at i, or the end.
indexForRightBrace(i) ==
    LET closes == {j \in i + 1..Len(format) : format[j] = "}"}
    IN IF closes = {} THEN Len(format) + 1 ELSE SX!Min(closes)

\* Mutant: only a "{}" group moves iteratorForArgs on.
RECURSIVE SprintfLoopEmptyOnly(_, _, _)
SprintfLoopEmptyOnly(i, it, out) ==
    IF i > Len(format) THEN [out |-> out, panic |-> FALSE]
    ELSE IF format[i] = "{"
         THEN LET j == indexForRightBrace(i)
                  r == addArg(i, j, it, out)
              IN IF j = Len(format) + 1 \/ r.panic THEN Fail
                 ELSE SprintfLoopEmptyOnly(j + 1, IF j = i + 1 THEN it + 1 ELSE it, r.out)
         ELSE SprintfLoopEmptyOnly(i + 1, it, Append(out, format[i]))

\* Sprintf's loop from byte i, with iteratorForArgs it.
RECURSIVE SprintfLoop(_, _, _)
SprintfLoop(i, it, out) ==
    IF i > Len(format) THEN [out |-> out, panic |-> FALSE]
    ELSE IF format[i] = "{"
         THEN LET j == indexForRightBrace(i)
                  r == addArg(i, j, it, out)
              IN IF j = Len(format) + 1 \/ r.panic THEN Fail
                 ELSE SprintfLoop(j + 1, it + 1, r.out)
         ELSE SprintfLoop(i + 1, it, Append(out, format[i]))

\* Sprintf(format, Args...).
Sprintf ==
    /\ fmtPc = "call"
    /\ LET r == SprintfLoop(1, 0, <<>>)
       IN sb' = r.out /\ panicked' = r.panic
    /\ fmtPc' = "done"
    /\ UNCHANGED format

Terminated == fmtPc = "done" /\ UNCHANGED vars

Next == Sprintf \/ Terminated

Spec == Init /\ [][Next]_vars

-----------------------------------------------------------------------------
(* The format's grammar, stated of positions: a "{" opens a group unless   *)
(* an earlier "{" has no "}" between them; the group ends at the first "}" *)
(* after it.                                                               *)

Opens == {p \in DOMAIN format :
            format[p] = "{" /\ ~\E q \in 1..p - 1 :
                                  format[q] = "{" /\ \A r \in q + 1..p - 1 : format[r] # "}"}
CloseOf(p) == SX!Min({j \in p + 1..Len(format) : format[j] = "}"} \cup {Len(format) + 1})
InGroup(x) == \E p \in Opens : p < x /\ x <= CloseOf(p)
GroupNo(p) == Cardinality({q \in Opens : q < p})
Content(p) == SubSeq(format, p + 1, CloseOf(p) - 1)
ArgNo(p) == IF Content(p) = <<>> THEN GroupNo(p) ELSE Atoi(Content(p))
GroupOk(p) ==
    /\ CloseOf(p) <= Len(format)
    /\ Content(p) = <<>> \/ AtoiOk(Content(p))
    /\ ArgNo(p) \in 0..Len(Args) - 1

\* Sprintf writes every character outside the groups and, for each group,
\* the argument it names, and panics exactly when a group is unclosed or
\* names no argument.
SprintfMatchesGrammar ==
    fmtPc = "done" =>
        IF \A p \in Opens : GroupOk(p)
        THEN ~panicked /\ sb = SX!FlattenSeq([x \in DOMAIN format |->
                                  IF x \in Opens THEN Args[ArgNo(x) + 1]
                                  ELSE IF InGroup(x) THEN <<>> ELSE <<format[x]>>])
        ELSE panicked
====
