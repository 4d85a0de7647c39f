----------------------------- MODULE Calculator -----------------------------
(***************************************************************************)
(* The expression evaluator of ds/src/calculator.c: a table-driven state   *)
(* machine that reads the text once and keeps a stack of numbers and one   *)
(* of operators.  The text is made up as it is read, one token at a time,  *)
(* but its length is there from the start, because it decides the room of  *)
(* the stacks; a token is one character.  Doubles are fractions.  Refused  *)
(* allocations and numbers that strtod does not read are left out.         *)
(***************************************************************************)
EXTENDS Integers, SequencesExt

CONSTANTS CALC_NUMBERS,  \* the numbers in a text, as texts
          CALC_LENGTH    \* tokens in a text, at most

VARIABLES calcText,      \* the tokens read
          calcRoom,      \* the places in each stack
          calcState,     \* g_current_state, or "done"
          calcNums, calcOps,
          calcUnary,     \* 0, or the sign that has been read and not yet applied
          calcStatus     \* g_error_status, or "OVERFLOW"

calcVars == <<calcText, calcRoom, calcState, calcNums, calcOps, calcUnary, calcStatus>>

NumberOf(token) == [n |-> CASE token = "0" -> 0 [] token = "1" -> 1 [] token = "2" -> 2, d |-> 1]
Fraction(n, d) == LET g == Max({k \in 1..(IF n < 0 THEN -n ELSE n + d) : n % k = 0 /\ d % k = 0})
                  IN  IF n = 0 THEN [n |-> 0, d |-> 1] ELSE [n |-> n \div g, d |-> d \div g]
Whole(n) == [n |-> n, d |-> 1]
IsZero(v) == v.n = 0

Add(a, b) == Fraction(a.n * b.d + b.n * a.d, a.d * b.d)
Sub(a, b) == Fraction(a.n * b.d - b.n * a.d, a.d * b.d)
Mult(a, b) == Fraction(a.n * b.n, a.d * b.d)
Div(a, b) == IF b.n > 0 THEN Fraction(a.n * b.d, a.d * b.n) ELSE Fraction(-a.n * b.d, -(a.d * b.n))

\* The exponent is cut to an int, towards zero; 0 to a negative power is left out.
Pow(base, exp) ==
    LET n == (IF exp.n < 0 THEN -exp.n ELSE exp.n) \div exp.d
        power[i \in 0..n] == IF i = 0 THEN Whole(1) ELSE Mult(power[i - 1], base)
    IN  IF exp.n < 0 THEN Div(Whole(1), power[n]) ELSE power[n]

CalcFunc(op, a, b) == CASE op = "+" -> Add(a, b) [] op = "-" -> Sub(a, b) [] op = "*" -> Mult(a, b)
                        [] op = "/" -> Div(a, b) [] op = "^" -> Pow(a, b)
Operators == {"+", "-", "*", "/", "^"}
InStackPrec(op) == CASE op \in {"+", "-"} -> 10 [] op \in {"*", "/"} -> 20 [] op = "^" -> 30 [] OTHER -> 0
OutStackPrec_Pow30(op) == InStackPrec(op)
OutStackPrec(op) == IF op = "^" THEN 31 ELSE InStackPrec(op)

-----------------------------------------------------------------------------
(* A machine is [nums, ops, status], the stacks with their tops last. *)

\* InitProgram gives each stack strlen / 2 + 1 places, for texts of one length or one more.
Room(length) == length \div 2 + 1

\* StackPush in a full stack: it asserts, or copies val behind the block.  Nothing after is defined.
Push(m, stack, val) == IF Len(m[stack]) < calcRoom THEN [m EXCEPT ![stack] = Append(@, val)]
                       ELSE [m EXCEPT !.status = "OVERFLOW"]

ComputeTopOperator(m) ==
    LET n == Len(m.nums)
        byZero == Last(m.ops) = "/" /\ IsZero(m.nums[n])
        result == IF byZero THEN Whole(0) ELSE CalcFunc(Last(m.ops), m.nums[n - 1], m.nums[n])
    IN  [nums |-> Append(SubSeq(m.nums, 1, n - 2), result), ops |-> Front(m.ops),
         status |-> IF byZero THEN "MATH_ERROR" ELSE m.status]

\* Operators are computed while all is well and the top one is not of less precedence.
RECURSIVE ComputedDownTo(_, _)
ComputedDownTo(m, prec) ==
    IF m.ops = <<>> \/ m.status # "SUCCESS" \/ InStackPrec(Last(m.ops)) < prec THEN m
    ELSE ComputedDownTo(ComputeTopOperator(m), prec)

ProcessOperator(m, op) ==
    LET computed == ComputedDownTo(m, OutStackPrec(op))
    IN  IF computed.status = "SUCCESS" THEN Push(computed, "ops", op) ELSE computed

Machine == [nums |-> calcNums, ops |-> calcOps, status |-> calcStatus]
Become(m) == calcNums' = m.nums /\ calcOps' = m.ops /\ calcStatus' = m.status

\* The state after the token's handler, and the end of Calculator when it fails.
Read(token, m, next) == /\ calcText' = Append(calcText, token)
                        /\ Become(m)
                        /\ calcState' = IF m.status = "SUCCESS" THEN next ELSE "done"
                        /\ UNCHANGED calcRoom
Reading(state) == /\ calcState = state
                  /\ Len(calcText) < CALC_LENGTH /\ Room(Len(calcText) + 1) <= calcRoom

Depth(text, k) == Cardinality({i \in 1..k : text[i] = "("}) - Cardinality({i \in 1..k : text[i] = ")"})
ParenCount == Depth(calcText, Len(calcText))

CalculatorInit == /\ calcText = <<>> /\ calcState = "WAIT_FOR_NUM" /\ calcStatus = "SUCCESS"
                  /\ calcNums = <<>> /\ calcOps = <<>> /\ calcUnary = 0
                  /\ calcRoom \in {Room(length) : length \in 0..CALC_LENGTH}

HandleNum == \E token \in CALC_NUMBERS :
    /\ Reading("WAIT_FOR_NUM")
    /\ Read(token, Push(Machine, "nums", NumberOf(token)), "WAIT_FOR_OP")
    /\ calcUnary' = 0

\* HandleUnaryPlus and HandleUnaryMinus: a factor of 1 or -1, whatever operator is on top.
HandleUnary == \E sign \in {"+", "-"} :
    LET factor == IF sign = "-" THEN -1 ELSE 1
    IN  /\ Reading("WAIT_FOR_NUM")
        /\ IF calcUnary # 0 THEN Read(sign, [Machine EXCEPT !.status = "INVALID_EXPRESSION"], "done")
           ELSE Read(sign, Push(Push(Machine, "nums", Whole(factor)), "ops", "*"), "WAIT_FOR_NUM")
        /\ calcUnary' = factor

\* A sign before a bracket also becomes 0 + or 0 -, by the precedence of a binary operator.
HandleOpenParen ==
    LET zero == Push(Machine, "nums", Whole(0))
        signed == IF calcUnary = 0 THEN Machine
                  ELSE ProcessOperator(zero, IF calcUnary < 0 THEN "-" ELSE "+")
    IN  /\ Reading("WAIT_FOR_NUM")
        /\ Read("(", IF signed.status = "SUCCESS" THEN Push(signed, "ops", "(") ELSE signed, "WAIT_FOR_NUM")
        /\ calcUnary' = 0

HandleOperator == \E op \in Operators :
    /\ Reading("WAIT_FOR_OP")
    /\ Read(op, ProcessOperator(Machine, op), "WAIT_FOR_NUM")
    /\ UNCHANGED calcUnary

\* A division by zero on the way to the open bracket becomes INVALID_EXPRESSION.
HandleCloseParen ==
    LET m == ComputedDownTo(Machine, 1)
    IN  /\ Reading("WAIT_FOR_OP")
        /\ Read(")", IF ParenCount = 0 \/ m.status # "SUCCESS"
                     THEN [m EXCEPT !.status = "INVALID_EXPRESSION"]
                     ELSE [m EXCEPT !.ops = Front(@)], "WAIT_FOR_OP")
        /\ UNCHANGED calcUnary

\* HandleEnd, then FlushStacks.
HandleEnd ==
    LET m == ComputedDownTo(Machine, 0)
    IN  /\ calcState = "WAIT_FOR_OP" /\ calcState' = "done"
        /\ Become(IF ParenCount # 0 THEN [Machine EXCEPT !.status = "INVALID_EXPRESSION"] ELSE m)
        /\ UNCHANGED <<calcText, calcRoom, calcUnary>>

\* Any other character in the state: it is not read.
HandleError == /\ calcState \in {"WAIT_FOR_NUM", "WAIT_FOR_OP"} /\ calcState' = "done"
               /\ calcStatus' = "INVALID_EXPRESSION"
               /\ UNCHANGED <<calcText, calcRoom, calcNums, calcOps, calcUnary>>

CalculatorNext == \/ HandleNum \/ HandleUnary \/ HandleOpenParen \/ HandleOperator
                  \/ HandleCloseParen \/ HandleEnd \/ HandleError

-----------------------------------------------------------------------------
IsBinary(text, k) == text[k] \in Operators /\ k > 1 /\ text[k - 1] \in CALC_NUMBERS \cup {"0", ")"}
IsSign(k) == calcText[k] \in {"+", "-"} /\ ~IsBinary(calcText, k)

(* The value of tokens i to j by the usual grammar: <<>> if it divides by zero. *)
Apply(op, l, r) == IF l = <<>> \/ r = <<>> \/ (op = "/" /\ IsZero(r[1])) THEN <<>>
                   ELSE <<CalcFunc(op, l[1], r[1])>>
RECURSIVE Value(_, _, _)
Value(text, i, j) ==
    LET top(ops) == {k \in i..j : /\ text[k] \in ops /\ IsBinary(text, k) /\ k > i
                                  /\ Depth(text, k) = Depth(text, i - 1)}
        split(k) == Apply(text[k], Value(text, i, k - 1), Value(text, k + 1, j))
    IN  CASE top({"+", "-"}) # {} -> split(Max(top({"+", "-"})))
          [] top({"+", "-"}) = {} /\ top({"*", "/"}) # {} -> split(Max(top({"*", "/"})))
          [] OTHER -> IF text[i] \in {"+", "-"}
                      THEN Apply(text[i], <<Whole(0)>>, Value(text, i + 1, j))
                      ELSE IF top({"^"}) # {} THEN split(Min(top({"^"})))
                      ELSE IF text[i] = "(" THEN Value(text, i + 1, j - 1)
                      ELSE <<NumberOf(text[i])>>

\* What the code takes a text for: a sign before a bracket is 0 and a binary operator.
Taken == FlattenSeq([k \in DOMAIN calcText |->
            IF k < Len(calcText) /\ IsSign(k) /\ calcText[k + 1] = "(" THEN <<"0", calcText[k]>>
            ELSE <<calcText[k]>>])
TakenValue == Value(Taken, 1, Len(Taken))

(***************************************************************************)
(* The number that is returned for a text is its value, by precedence,     *)
(* association and brackets, and MATH_ERROR is returned for a text that    *)
(* divides by zero.  The code fails in two ways: it takes 2*-(1), a sign   *)
(* before a bracket, for 2*0-(1); and the stacks, of half as many places   *)
(* as characters, overflow in texts with signs, as in -1^-1.  In others    *)
(* only brackets that the text has no room to close overflow them.         *)
(***************************************************************************)
CalculatorEvaluates ==
    calcState = "done" =>
        /\ calcStatus = "SUCCESS" => TakenValue = calcNums
        /\ (calcStatus = "MATH_ERROR" /\ ParenCount = 0 /\ calcText[Len(calcText)] \notin Operators)
                => TakenValue = <<>>
        /\ calcStatus = "OVERFLOW" => \/ \E k \in DOMAIN calcText : IsSign(k)
                                      \/ Room(Len(calcText) + ParenCount) > calcRoom
=============================================================================
