------------------------------- MODULE Reading -------------------------------
(***************************************************************************)
(* What the readers of texts and bytes share. A reader of bytes returns    *)
(* `Failed', or what it read and the place of the byte after it.           *)
(***************************************************************************)
EXTENDS Integers, Sequences, SequencesExt, FiniteSets

CONSTANTS
    Failed          \* what a reader returns of an input that it refuses

Positions(text, ch) == {i \in DOMAIN text : text[i] = ch}
Earliest(set) == CHOOSE i \in set : \A j \in set : i <= j
Latest(set) == CHOOSE i \in set : \A j \in set : j <= i

\* The parts of a sequence end to end, and their lengths together.
Joined(parts) == FoldLeft(LAMBDA a, b : a \o b, <<>>, parts)
TotalOf(numbers) == FoldLeft(LAMBDA a, b : a + b, 0, numbers)

------------------------------------------------------------------------------
(* Bytes: numbers are big-endian words of four. *)

Pad4(n) == ((n + 3) \div 4) * 4
Zeros(n) == [i \in 1..n |-> 0]
Number(n) == <<n \div 16777216, (n \div 65536) % 256, (n \div 256) % 256, n % 256>>
Numbers(list) == Joined([i \in DOMAIN list |-> Number(list[i])])

\* The n bytes at a place. A place before the input has no bytes.
ReadBytes(data, at, n) ==
    IF at < 1 \/ at + n - 1 > Len(data) THEN Failed
    ELSE [value |-> SubSeq(data, at, at + n - 1), next |-> at + n]

\* A word, as a number. Words past the numbers used here keep their bytes apart.
ReadNumber(data, at) ==
    LET word == ReadBytes(data, at, 4)
    IN  IF word = Failed THEN Failed
        ELSE [value |-> LET b == word.value
                        IN  IF b[1] >= 64 THEN 1073741824
                            ELSE b[1] * 16777216 + b[2] * 65536 + b[3] * 256 + b[4],
              next |-> word.next]

\* Several readings in a row, each from where the one before it ended.
InTurn(Read(_, _), data, at, n) ==
    FoldLeft(LAMBDA done, i :
                 LET one == IF done = Failed THEN Failed ELSE Read(data, done.next)
                 IN  IF one = Failed THEN Failed
                     ELSE [value |-> Append(done.value, one.value), next |-> one.next],
             [value |-> <<>>, next |-> at], [i \in 1..n |-> i])

ReadNumbers(data, at, n) == InTurn(ReadNumber, data, at, n)

\* The words at a place are these.
Expected(data, at, bytes) == ReadBytes(data, at, Len(bytes)) =
                             [value |-> bytes, next |-> at + Len(bytes)]
=============================================================================
