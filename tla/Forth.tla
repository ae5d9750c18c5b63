-------------------------------- MODULE Forth --------------------------------
(***************************************************************************)
(* The Forth evaluator (src/forth/eval.go).  One Evaluator serves a series *)
(* of Process calls; each splits its row into tokens and runs them in      *)
(* order.  `: name body ;` defines a user word: createUserWordBody copies  *)
(* into the new body the current body of every user word it names, keeps   *)
(* numbers, and marks every other token "b_" (a base word), so a word is   *)
(* bound when it is defined.                                               *)
(*                                                                         *)
(* Tokens are strings, already lower case; the numbers are the strings of  *)
(* NumVal, and strconv.Atoi is NumVal.  A body entry "b_w" is the record   *)
(* [pre |-> TRUE, tok |-> w], a number entry [pre |-> FALSE, tok |-> n].   *)
(*                                                                         *)
(* Beside the evaluator, a reference interpreter keeps the definitions as  *)
(* written, in order, and resolves a name when it is run, against the      *)
(* definitions made before the word that names it; it stops at the first  *)
(* error.                                                                  *)
(***************************************************************************)
EXTENDS Integers, Sequences, TLC

SX == INSTANCE SequencesExt

CONSTANTS
    Rows,       \* the rows a Process call may be given
    MaxCalls    \* Process calls in a behaviour

\* strconv.Atoi on the number tokens.
NumVal == "0" :> 0 @@ "1" :> 1 @@ "2" :> 2
IsNum(t) == t \in DOMAIN NumVal

\* The keys of e.base.
Base == {"+", "-", "*", "/", "dup", "drop", "swap", "over"}

VARIABLES
    stack,      \* e.stack
    words,      \* e.words: user word -> its flattened body
    result,     \* the stack the last Process call returned
    errored,    \* the last Process call returned an error
    nProcess,   \* Process calls made
    refStack,   \* the reference interpreter's stack
    refDefs,    \* its definitions, in order: [name, body] as written
    refOk       \* no row so far made the reference interpreter fail

vars == <<stack, words, result, errored, nProcess, refStack, refDefs, refOk>>

TypeOK ==
    /\ stack \in Seq(Int) /\ result \in Seq(Int) /\ errored \in BOOLEAN
    /\ nProcess \in 0..MaxCalls /\ refOk \in BOOLEAN

\* NewEvaluator(): empty stack and no user words.
Init ==
    /\ stack = <<>> /\ words = <<>> /\ result = <<>> /\ errored = FALSE
    /\ nProcess = 0
    /\ refStack = <<>> /\ refDefs = <<>> /\ refOk = TRUE

-----------------------------------------------------------------------------
(* The evaluator.                                                          *)

Ok(s) == [stack |-> s, err |-> FALSE]
Fail(s) == [stack |-> s, err |-> TRUE]

\* Go's integer division truncates toward zero.
GoQuot(a, b) == LET q == (IF a < 0 THEN -a ELSE a) \div (IF b < 0 THEN -b ELSE b)
                IN IF (a < 0) = (b < 0) THEN q ELSE -q

\* plus .. over: the underflow check, then popTwoElements (a below b) or
\* a read of the top; divide pops before it rejects a zero divisor.
BaseOp(op, s) ==
    LET n == Len(s)
        a == s[n - 1]
        b == s[n]
        rest == SubSeq(s, 1, n - 2)
    IN IF n < (IF op \in {"dup", "drop"} THEN 1 ELSE 2) THEN Fail(s)
       ELSE CASE op = "+" -> Ok(Append(rest, a + b))
              [] op = "-" -> Ok(Append(rest, a - b))
              [] op = "*" -> Ok(Append(rest, a * b))
              [] op = "/" -> IF b = 0 THEN Fail(rest) ELSE Ok(Append(rest, GoQuot(a, b)))
              [] op = "dup" -> Ok(Append(s, s[n]))
              [] op = "drop" -> Ok(SubSeq(s, 1, n - 1))
              [] op = "swap" -> Ok(rest \o <<b, a>>)
              [] op = "over" -> Ok(Append(s, a))

RECURSIVE executeWord(_, _, _), executeUserWord(_, _, _, _)

\* executeSubWord: a "b_" entry runs its base operation, or nothing if
\* there is none; any other entry is run as a word.
executeSubWord(s, ws, x) ==
    IF x.pre THEN IF x.tok \in Base THEN BaseOp(x.tok, s) ELSE Ok(s)
    ELSE executeWord(s, ws, x.tok)

\* executeUserWord: from entry k on, push a number, else run the entry;
\* the first error ends the word.
executeUserWord(s, ws, def, k) ==
    IF k > Len(def) THEN Ok(s)
    ELSE IF IsNum(def[k].tok) /\ ~def[k].pre
         THEN executeUserWord(Append(s, NumVal[def[k].tok]), ws, def, k + 1)
         ELSE LET r == executeSubWord(s, ws, def[k])
              IN IF r.err THEN r ELSE executeUserWord(r.stack, ws, def, k + 1)

\* executeWord: a user word, else a base word, else a number, else
\* "undefined word".
executeWord(s, ws, t) ==
    IF t \in DOMAIN ws THEN executeUserWord(s, ws, ws[t], 1)
    ELSE IF t \in Base THEN BaseOp(t, s)
    ELSE IF IsNum(t) THEN Ok(Append(s, NumVal[t]))
    ELSE Fail(s)

\* findIndexOfEndOfToken: the first ";" after the word's name, or -1.
findIndexOfEndOfToken(i, tokens) ==
    LET ends == {j \in i + 2..Len(tokens) : tokens[j] = ";"}
    IN IF ends = {} THEN -1 ELSE SX!Min(ends)

\* Mutant: a user word named in a body is kept by name and looked up when
\* the body runs.
createUserWordBodyLate(ws, tokens, i, j) ==
    LET Entry(w) == <<[pre |-> ~IsNum(w) /\ w \notin DOMAIN ws, tok |-> w]>>
    IN SX!FlattenSeq([k \in 1..(j - i - 2) |-> Entry(tokens[i + 1 + k])])

\* createUserWordBody: each token between the name and ";" becomes the
\* current body of the user word it names, a number, or "b_" + token.
createUserWordBody(ws, tokens, i, j) ==
    LET Entry(w) ==
          IF w \in DOMAIN ws THEN ws[w]
          ELSE <<[pre |-> ~IsNum(w), tok |-> w]>>
    IN SX!FlattenSeq([k \in 1..(j - i - 2) |-> Entry(tokens[i + 1 + k])])

\* createUserWord, for the ":" at index i: the new word table and the index
\* of the ";" the loop resumes after, or an error with i left as it was.
createUserWord(ws, tokens, i) ==
    LET Err == [words |-> ws, i |-> i, err |-> TRUE]
        word == tokens[i + 1]
        j == findIndexOfEndOfToken(i, tokens)
    IN IF i + 1 > Len(tokens) THEN Err
       ELSE IF IsNum(word) THEN Err
       ELSE IF j = -1 THEN Err
       ELSE [words |-> (word :> createUserWordBody(ws, tokens, i, j)) @@ ws,
             i |-> j, err |-> FALSE]

\* Process's loop from token i on: every token runs, and err is whatever
\* the last token returned.
RECURSIVE ProcessLoop(_, _, _, _, _)
ProcessLoop(s, ws, tokens, i, err) ==
    IF i > Len(tokens) THEN [stack |-> s, words |-> ws, err |-> err]
    ELSE IF tokens[i] = ":"
         THEN LET c == createUserWord(ws, tokens, i)
              IN ProcessLoop(s, c.words, tokens, c.i + 1, c.err)
         ELSE LET r == executeWord(s, ws, tokens[i])
              IN ProcessLoop(r.stack, ws, tokens, i + 1, r.err)

-----------------------------------------------------------------------------
(* The reference interpreter.                                              *)

RECURSIVE RefRun(_, _, _, _)

\* Name t run on stack s, with the first h definitions visible: the last of
\* them named t runs its body with the definitions made before it.
RefWord(s, defs, h, t) ==
    LET named == {d \in 1..h : defs[d].name = t}
    IN IF named # {} THEN LET d == SX!Max(named)
                          IN RefRun(s, defs, d - 1, defs[d].body)
       ELSE IF IsNum(t) THEN Ok(Append(s, NumVal[t]))
       ELSE IF t \in Base THEN BaseOp(t, s)
       ELSE Fail(s)

\* The tokens ts run in order; the first failure ends the run.
RefRun(s, defs, h, ts) ==
    IF ts = <<>> THEN Ok(s)
    ELSE LET r == RefWord(s, defs, h, Head(ts))
         IN IF r.err THEN r ELSE RefRun(r.stack, defs, h, Tail(ts))

\* A row: `: name body ;` adds a definition (name not a number, ";"
\* present); every other token runs with all definitions made so far.
RECURSIVE RefRow(_, _, _)
RefRow(s, defs, ts) ==
    IF ts = <<>> THEN [stack |-> s, defs |-> defs, err |-> FALSE]
    ELSE IF Head(ts) = ":"
         THEN IF Len(ts) < 2 \/ IsNum(ts[2]) \/ ~\E j \in 3..Len(ts) : ts[j] = ";"
              THEN [stack |-> s, defs |-> defs, err |-> TRUE]
              ELSE LET j == SX!Min({k \in 3..Len(ts) : ts[k] = ";"})
                   IN RefRow(s, Append(defs, [name |-> ts[2], body |-> SubSeq(ts, 3, j - 1)]),
                             SubSeq(ts, j + 1, Len(ts)))
         ELSE LET r == RefRun(s, defs, Len(defs), <<Head(ts)>>)
              IN IF r.err THEN [stack |-> r.stack, defs |-> defs, err |-> TRUE]
                 ELSE RefRow(r.stack, defs, Tail(ts))

-----------------------------------------------------------------------------
\* Process(row): run the row; return the stack, or nil and the last error.
\* The reference interpreter runs the same row.
Process ==
    \E row \in Rows :
        /\ nProcess < MaxCalls
        /\ LET p == ProcessLoop(stack, words, row, 1, FALSE)
               q == RefRow(refStack, refDefs, row)
           IN /\ stack' = p.stack /\ words' = p.words
              /\ errored' = p.err /\ result' = IF p.err THEN <<>> ELSE p.stack
              /\ refStack' = q.stack /\ refDefs' = q.defs
              /\ refOk' = (refOk /\ ~q.err)
        /\ nProcess' = nProcess + 1

Done == nProcess = MaxCalls /\ UNCHANGED vars

Next == Process \/ Done

Spec == Init /\ [][Next]_vars

-----------------------------------------------------------------------------
\* Binding at definition time: as long as every row so far is one the
\* reference interpreter runs without error, Process returns no error and
\* the stack the reference computes, however later rows redefine the words
\* an earlier definition named (createUserWordBody's copy of their bodies).
ProcessMatchesReference ==
    refOk => ~errored /\ result = refStack
====
