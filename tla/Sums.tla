-------------------------------- MODULE Sums --------------------------------
(* The sum of a sequence, as a loop adds it up. *)
EXTENDS Integers, Sequences

\* The running sums of the loop: the sum after i elements.
Running(amounts) ==
    LET sum[i \in 0..Len(amounts)] ==
            IF i = 0 THEN 0 ELSE sum[i - 1] + amounts[i]
    IN sum

Total(amounts) == Running(amounts)[Len(amounts)]
=============================================================================
