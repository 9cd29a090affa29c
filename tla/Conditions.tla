----------------------------- MODULE Conditions -----------------------------
(***************************************************************************)
(* The condition language of jobs, steps and rules, and continue-on-error  *)
(* (executionsemantics/condition.go, continue_on_error.go).  An expression *)
(* is a sequence of tokens [kind, name, value], its parser and evaluation  *)
(* are recursive over their positions.  A value is [type, text, num]: what *)
(* fmt.Sprint writes of it and what it counts.  Order, folding, numerals   *)
(* and regular expressions are tables over the texts that are tried.       *)
(* A definition marked "Mutant" is a bug that could have been made in the  *)
(* next one; no specification uses it.                                     *)
(***************************************************************************)
EXTENDS Integers, Sequences, FiniteSets, SequencesExt, TLC

CONSTANTS
    Texts,      \* sequence: the texts, in the order of their bytes
    Lower,      \* text -> its lower case
    Numerals,   \* text -> the number it is read as
    Matches,    \* pairs of a regular expression and a text it matches
    Compiles,   \* the texts that are regular expressions
    Inside,     \* pairs of a text and one that contains it
    Cases       \* the inputs: [tokens, values, success, fold, raw]

VARIABLES
    case,
    result,     \* EvaluateCondition
    tolerated   \* EvaluateContinueOnError of "matrix.x"

vars == <<case, result, tolerated>>

Value(type, text, num) == [type |-> type, text |-> text, num |-> num]
Null == Value("null", "<nil>", 0)
Bool(b) == IF b THEN Value("bool", "true", 1) ELSE Value("bool", "false", 0)
Error == Value("error", "", 0)

-----------------------------------------------------------------------------
(* The parser: a result is [ok, at, roots, ops, args].  A node is the      *)
(* position of its token; args gives the nodes below it.  roots and ops    *)
(* are the operands and operators of a chain, at is the next token.        *)

End == [kind |-> "end", name |-> "", value |-> Null]
Peek(ts, i) == IF i \in DOMAIN ts THEN ts[i] ELSE End
Parsed(root, at, args) == [ok |-> TRUE, at |-> at, roots |-> <<root>>, ops |-> <<>>, args |-> args]
Fail == [ok |-> FALSE, at |-> 0, roots |-> <<>>, ops |-> <<>>, args |-> <<>>]

Comparisons == {"==", "!=", "<", "<=", ">", ">=", "=~", "!~"}
StatusFunctions == {"success", "failure", "cancelled", "always"}
ValidateFunction(name, n) ==
    \/ name \in StatusFunctions /\ n = 0
    \/ name \in {"contains", "startswith", "endswith"} /\ n = 2

\* A chain associates to the left: each operator takes the one before it.
Left(chain) ==
    LET n == Len(chain.ops)
        below == [k \in 1..n |-> <<IF k = 1 THEN chain.roots[1] ELSE chain.ops[k - 1], chain.roots[k + 1]>>]
    IN IF ~chain.ok \/ n = 0 THEN chain
       ELSE Parsed(chain.ops[n], chain.at,
                   chain.args @@ [i \in Range(chain.ops) |-> below[CHOOSE k \in 1..n : chain.ops[k] = i]])

\* What "!" applies to.
\* Mutant: a whole comparison.
OperandWide == "comparison"
Operand == "unary"

\* parseOr, parseAnd, parseComparison, parseUnary, parsePrimary and the loops in them
ParseCondition(ts) ==
    LET parse[level \in {"or", "ors", "and", "ands", "comparison", "unary", "primary", "list"},
              i \in 1..(Len(ts) + 3)] ==
          LET token == Peek(ts, i)
              chained(first, op) ==
                  LET rest == parse[level, first.at + 1]
                  IN IF ~first.ok \/ Peek(ts, first.at).kind # op THEN first
                     ELSE IF ~rest.ok THEN Fail
                     ELSE [rest EXCEPT !.roots = first.roots \o @, !.ops = <<first.at>> \o @,
                                       !.args = first.args @@ @]
              left == parse["unary", i]
              right == parse["unary", left.at + 1]
              operand == parse[Operand, i + 1]
              inner == parse["or", i + 1]
              list == IF Peek(ts, i + 2).kind = ")" THEN [Fail EXCEPT !.ok = TRUE, !.at = i + 2]
                      ELSE parse["list", i + 2]
          IN CASE level = "or" -> Left(parse["ors", i])
               [] level = "ors" -> chained(parse["and", i], "||")
               [] level = "and" -> Left(parse["ands", i])
               [] level = "ands" -> chained(parse["comparison", i], "&&")
               [] level = "list" -> chained(parse["or", i], ",")
               [] level = "comparison" ->
                    IF ~left.ok \/ Peek(ts, left.at).kind \notin Comparisons THEN left
                    ELSE IF ~right.ok THEN Fail
                    ELSE Parsed(left.at, right.at, left.args @@ right.args
                                                   @@ (left.at :> <<left.roots[1], right.roots[1]>>))
               [] level = "unary" ->
                    IF token.kind # "!" THEN parse["primary", i]
                    ELSE IF ~operand.ok THEN Fail
                    ELSE Parsed(i, operand.at, operand.args @@ (i :> operand.roots))
               [] token.kind = "value" -> Parsed(i, i + 1, <<>>)
               [] token.kind = "id" /\ Peek(ts, i + 1).kind # "(" -> Parsed(i, i + 1, <<>>)
               [] token.kind = "id" /\ Peek(ts, i + 1).kind = "(" ->
                    IF list.ok /\ Peek(ts, list.at).kind = ")" /\ ValidateFunction(token.name, Len(list.roots))
                    THEN Parsed(i, list.at + 1, list.args @@ (i :> list.roots)) ELSE Fail
               [] token.kind = "(" ->
                    IF inner.ok /\ Peek(ts, inner.at).kind = ")" THEN [inner EXCEPT !.at = @ + 1] ELSE Fail
               [] OTHER -> Fail
        all == parse["or", 1]
    IN IF all.ok /\ all.at = Len(ts) + 1 THEN all ELSE Fail

-----------------------------------------------------------------------------
(* Values *)

Truthy(v) ==
    CASE v.type = "null" -> FALSE
      [] v.type \in {"bool", "number"} -> v.num # 0
      [] v.type = "string" -> v.text # ""
      [] OTHER -> TRUE

Folded(text, fold) == IF fold THEN Lower[text] ELSE text

\* Mutant: an int64 is no number.
NumericNotInt64(v) == v.type = "number"
Numeric(v) == v.type \in {"number", "int64"}

EqualValues(l, r, fold) ==
    IF Null \in {l, r} THEN l = r
    ELSE IF Numeric(l) /\ Numeric(r) THEN l.num = r.num
    ELSE Folded(l.text, fold) = Folded(r.text, fold)

Rank(text) == CHOOSE i \in DOMAIN Texts : Texts[i] = text
Sign(a, b) == IF a < b THEN -1 ELSE IF a > b THEN 1 ELSE 0

\* Mutant: one number is enough to compare as numbers.
CompareLoose(l, r, fold) ==
    IF Numeric(l) THEN Sign(l.num, r.num)
    ELSE Sign(Rank(Folded(l.text, fold)), Rank(Folded(r.text, fold)))
CompareValues(l, r, fold) ==
    IF Numeric(l) /\ Numeric(r) THEN Sign(l.num, r.num)
    ELSE Sign(Rank(Folded(l.text, fold)), Rank(Folded(r.text, fold)))

MatchRegex(l, r) ==
    IF r.type \in {"regex", "string"} /\ r.text \in Compiles
    THEN Bool(<<r.text, l.text>> \in Matches) ELSE Error

Compared(op, l, r, fold) ==
    CASE op = "==" -> Bool(EqualValues(l, r, fold))
      [] op = "!=" -> Bool(~EqualValues(l, r, fold))
      [] op = "<"  -> Bool(CompareValues(l, r, fold) < 0)
      [] op = "<=" -> Bool(CompareValues(l, r, fold) <= 0)
      [] op = ">"  -> Bool(CompareValues(l, r, fold) > 0)
      [] op = ">=" -> Bool(CompareValues(l, r, fold) >= 0)
      [] op = "=~" -> MatchRegex(l, r)
      [] op = "!~" -> LET m == MatchRegex(l, r) IN IF m = Error THEN m ELSE Bool(~Truthy(m))

-----------------------------------------------------------------------------
(* Evaluation *)

\* variableNode: a name that is in no context is an error.
\* Mutant: it is null.
VariableOrNull(name, c) == IF name \in DOMAIN c.values THEN c.values[name] ELSE Null
Variable(name, c) == IF name \in DOMAIN c.values THEN c.values[name] ELSE Error

\* No run is evaluated as failed or cancelled here: c.success is the status.
Function(name, args, c) ==
    CASE name = "success" -> Bool(c.success)
      [] name = "failure" -> Bool(~c.success)
      [] name = "cancelled" -> Bool(FALSE)
      [] name = "always" -> Bool(TRUE)
      [] Error \in Range(args) -> Error
      [] OTHER -> Bool(<<Folded(args[2].text, c.fold), Folded(args[1].text, c.fold)>> \in Inside)

Evaluate(parsed, c) ==
    LET value[i \in DOMAIN c.tokens] ==
          LET token == c.tokens[i]
              op == token.kind
              args == parsed.args[i]
              left == value[args[1]]
              right == value[args[2]]
          IN CASE op = "value" -> token.value
               [] op = "id" /\ i \notin DOMAIN parsed.args -> Variable(token.name, c)
               [] op = "id" /\ i \in DOMAIN parsed.args ->
                    Function(token.name, [k \in DOMAIN args |-> value[args[k]]], c)
               [] left = Error -> Error
               [] op = "!" -> Bool(~Truthy(left))
               [] op = "&&" /\ ~Truthy(left) -> Bool(FALSE)
               [] op = "||" /\ Truthy(left) -> Bool(TRUE)
               [] right = Error -> Error
               [] op \in {"&&", "||"} -> Bool(Truthy(right))
               [] OTHER -> Compared(op, left, right, c.fold)
    IN value[parsed.roots[1]]

EvaluateCondition(c) ==
    LET parsed == ParseCondition(c.tokens)
        value == Evaluate(parsed, c)
    IN CASE c.tokens = <<>> -> Bool(TRUE)
         [] c.tokens # <<>> /\ ~parsed.ok -> Error
         [] OTHER -> IF value = Error THEN Error ELSE Bool(Truthy(value))

-----------------------------------------------------------------------------
(* continue-on-error: one matrix coordinate, whose text is c.raw *)

TrueTexts == {"1", "t", "T", "TRUE", "true", "True"}
FalseTexts == {"0", "f", "F", "FALSE", "false", "False"}

\* continueOnErrorMatrixValue
MatrixValue(raw) ==
    CASE raw \in TrueTexts \cup FalseTexts -> Bool(raw \in TrueTexts)
      [] raw \in DOMAIN Numerals \ (TrueTexts \cup FalseTexts) -> Value("int64", raw, Numerals[raw])
      [] OTHER -> Value("string", raw, 0)

MatrixContext(raw) ==
    [values |-> [n \in {"matrix.x"} |-> MatrixValue(raw)], success |-> TRUE, fold |-> TRUE]

\* Mutant: a bare value is read as a condition.
BareCondition(raw) == Bool(Truthy(MatrixValue(raw)))
Bare(raw) == IF raw \in TrueTexts \cup FalseTexts THEN Bool(raw \in TrueTexts) ELSE Error

-----------------------------------------------------------------------------
Init == case \in Cases /\ result = Null /\ tolerated = Null

Decide ==
    /\ result = Null
    /\ result' = EvaluateCondition(case)
    /\ tolerated' = Bare(case.raw)
    /\ UNCHANGED case

Next == Decide

Spec == Init /\ [][Next]_vars

-----------------------------------------------------------------------------
(* Properties *)

\* The grammar without the parser's loops: an expression is split at its last
\* "||", else at its last "&&", else at its only comparison, outside
\* parentheses.  meaning[a, b] is that of the tokens a..b.
Depth(ts, a, i) ==
    Cardinality({k \in a..i : ts[k].kind = "("}) - Cardinality({k \in a..(i - 1) : ts[k].kind = ")"})
Top(ts, a, b, kinds) == {i \in a..b : ts[i].kind \in kinds /\ Depth(ts, a, i) = 0}
Latest(S) == CHOOSE m \in S : \A n \in S : n <= m

Meaning(ts) ==
    LET meaning[a \in 1..(Len(ts) + 2), b \in 0..Len(ts)] ==
          LET at(kinds) == Top(ts, a, b, kinds)
              two(i) == LET l == meaning[a, i - 1] r == meaning[i + 1, b]
                        IN IF l.ok /\ r.ok
                           THEN Parsed(i, 0, l.args @@ r.args @@ (i :> <<l.roots[1], r.roots[1]>>)) ELSE Fail
              one == meaning[a + 1, b]
              closes(from) == ts[b].kind = ")" /\ \A i \in from..(b - 1) : Depth(ts, from, i + 1) > 0
              cuts == SetToSortSeq({a + 1, b} \cup Top(ts, a + 2, b - 1, {","}), <)
              arg(k) == meaning[cuts[k] + 1, cuts[k + 1] - 1]
              list == IF a + 2 = b THEN {} ELSE 1..(Len(cuts) - 1)
          IN CASE a > b -> Fail
               [] at({"||"}) # {} -> two(Latest(at({"||"})))
               [] at({"&&"}) # {} -> two(Latest(at({"&&"})))
               [] at(Comparisons) # {} ->
                    IF Cardinality(at(Comparisons)) = 1 THEN two(Latest(at(Comparisons))) ELSE Fail
               [] ts[a].kind = "!" -> IF one.ok THEN Parsed(a, 0, one.args @@ (a :> one.roots)) ELSE Fail
               [] a = b -> IF ts[a].kind \in {"value", "id"} THEN Parsed(a, 0, <<>>) ELSE Fail
               [] ts[a].kind = "(" /\ closes(a) -> meaning[a + 1, b - 1]
               [] ts[a].kind = "id" /\ ts[a + 1].kind = "(" /\ closes(a + 1) ->
                    IF ValidateFunction(ts[a].name, Cardinality(list)) /\ \A k \in list : arg(k).ok
                    THEN Parsed(a, 0, (a :> [k \in list |-> arg(k).roots[1]])
                                      @@ [i \in UNION {DOMAIN arg(k).args : k \in list} |->
                                            LET k == CHOOSE k \in list : i \in DOMAIN arg(k).args
                                            IN arg(k).args[i]])
                    ELSE Fail
               [] OTHER -> Fail
    IN meaning[1, Len(ts)]

\* The parser accepts exactly these expressions and gives them this meaning:
\* "!" before comparisons before "&&" before "||", each from the left
\* (parseOr, parseAnd, parseComparison, parseUnary).
ParsesAsWritten ==
    LET parsed == ParseCondition(case.tokens) meant == Meaning(case.tokens)
    IN /\ parsed.ok = meant.ok
       /\ parsed.ok => parsed.roots = meant.roots /\ parsed.args = meant.args

\* An answer never rests on a context that is not there: whatever value the
\* missing name had, the answer would be the same (variableNode fails closed,
\* && and || do not ask for what they do not need).
AnswersRestOnWhatIsThere ==
    result \in {Bool(TRUE), Bool(FALSE)} =>
        \A n \in {"x", "y"} \ DOMAIN case.values : \A v \in {Null, Bool(TRUE), Bool(FALSE), Value("string", "a", 0)} :
            EvaluateCondition([case EXCEPT !.values =
                [m \in DOMAIN case.values \cup {n} |-> IF m = n THEN v ELSE case.values[m]]]) = result

\* Of two values exactly one is less, or neither: "<" and ">" mirror each
\* other, and equal values are never less (equalValues, compareValues).
ComparisonsAgree ==
    {"x", "y"} \subseteq DOMAIN case.values =>
        LET l == case.values["x"] r == case.values["y"]
        IN /\ CompareValues(l, r, case.fold) = -CompareValues(r, l, case.fold)
           /\ EqualValues(l, r, case.fold) = EqualValues(r, l, case.fold)
           /\ EqualValues(l, r, case.fold) => CompareValues(l, r, case.fold) = 0

\* A bare coordinate tolerates a failure exactly if its comparison with true
\* does, and what is no boolean is refused (EvaluateContinueOnError).
BareIsBoolean ==
    tolerated # Null =>
        LET same == EqualValues(MatrixValue(case.raw), Bool(TRUE), TRUE)
        IN IF case.raw \in TrueTexts \cup FalseTexts THEN tolerated = Bool(same) ELSE tolerated = Error

\* A numeral in the matrix is compared as a number with the numbers of an
\* expression.  0 and 1 are booleans before they are numbers
\* (continueOnErrorMatrixValue), so "matrix.x == 1" is false of "1".
MatrixNumbersCompare ==
    case.raw \in DOMAIN Numerals \ {"0", "1"} =>
        \A t \in DOMAIN Numerals :
            /\ CompareValues(MatrixValue(case.raw), Value("number", t, Numerals[t]), TRUE)
                 = Sign(Numerals[case.raw], Numerals[t])
            /\ EqualValues(MatrixValue(case.raw), Value("number", t, Numerals[t]), TRUE)
                 <=> Numerals[case.raw] = Numerals[t]
=============================================================================
