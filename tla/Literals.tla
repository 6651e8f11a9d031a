------------------------------- MODULE Literals -------------------------------
(***************************************************************************)
(* The text of a number, as slang prints it, to an int64_t: the second     *)
(* parse_num_literal of src/parser.cc.                                     *)
(***************************************************************************)
EXTENDS Integers, Sequences
LOCAL INSTANCE SequencesExt

\* 2^63 - 1 in the code; the words here have four bits.
LargestWord == 7

\* A digit x or z.
Unknown == -1

\* What the letter after the size stands for; a number without one is decimal.
Radix == [b |-> 2, o |-> 8, d |-> 10, h |-> 16, none |-> 10]

\* std::stoll, and -1 for what it throws std::out_of_range for.
InRange(n) == IF n > LargestWord THEN -1 ELSE n

\* A literal is its base and its digits; size and sign are skipped.
NumLiteral(literal) ==
    IF \E i \in DOMAIN literal.digits : literal.digits[i] = Unknown THEN 0
    ELSE InRange(FoldLeft(LAMBDA n, digit : n * Radix[literal.base] + digit, 0, literal.digits))
===============================================================================
