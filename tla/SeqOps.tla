------------------------------- MODULE SeqOps -------------------------------
(***************************************************************************)
(* Operators on sequences that the other modules share, defined by         *)
(* recursive functions so that they can be reasoned about.                 *)
(***************************************************************************)
EXTENDS Integers, Sequences

\* What a sequence has at some of its positions, in their order.
Picked(values, at) ==
    LET picked[n \in 0 .. Len(values)] ==
            IF n = 0 THEN <<>>
            ELSE IF n \in at THEN Append(picked[n - 1], values[n])
            ELSE picked[n - 1]
    IN  picked[Len(values)]

\* All but one of them.
Without(values, i) == Picked(values, DOMAIN values \ {i})

\* The sum of a sequence of numbers.
SumOf(numbers) ==
    LET sum[n \in 0 .. Len(numbers)] == IF n = 0 THEN 0 ELSE sum[n - 1] + numbers[n]
    IN  sum[Len(numbers)]

\* Sequences, one after the other.
Concat(parts) ==
    LET joined[n \in 0 .. Len(parts)] == IF n = 0 THEN <<>> ELSE joined[n - 1] \o parts[n]
    IN  joined[Len(parts)]
=============================================================================
