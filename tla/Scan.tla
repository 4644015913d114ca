-------------------------------- MODULE Scan --------------------------------
(***************************************************************************)
(* fscanf() of the C library, as far as src/src/os.c and src/src/loader.c  *)
(* use it.  A file is the sequence of its words; blanks and line ends only *)
(* separate them.  A call is a list of conversions: "u" for a number (%d,  *)
(* %u, %lu), "s" for any word.  At the first conversion that does not      *)
(* match, the call ends: the word stays in the file, and the variables of  *)
(* that and of the later conversions keep what they held.                  *)
(***************************************************************************)
EXTENDS Integers, Sequences, FiniteSetsExt

Num(n) == [num |-> n]
Word(w) == [word |-> w]
Words == [num : Int] \cup [word : STRING]

Matches(conversion, word) == conversion = "s" \/ "num" \in DOMAIN word

\* How many conversions of a call succeed, at most all of them.
Assigned(file, conversions) ==
    LET fits(n) == n <= Len(file) /\ \A i \in 1..n : Matches(conversions[i], file[i])
    IN  CHOOSE n \in 0..Len(conversions) : fits(n) /\ (n = Len(conversions) \/ ~fits(n + 1))

\* What is left to read after the call.
Rest(file, conversions) == SubSeq(file, Assigned(file, conversions) + 1, Len(file))

\* The variable of conversion i after the call, which held old before it.
Scanned(file, conversions, i, old) ==
    IF i > Assigned(file, conversions) THEN old
    ELSE IF conversions[i] = "u" THEN file[i].num ELSE file[i]

Times(n, conversion) == [i \in 1..n |-> conversion]

=============================================================================
