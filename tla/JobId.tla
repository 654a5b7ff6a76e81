------------------------------- MODULE JobId --------------------------------
(***************************************************************************)
(* encodeBase62 (internal/jobid/jobid.go): a byte string as base-62        *)
(* digits, by repeated division in place.  A byte string is a sequence of  *)
(* numbers, most significant first; a digit is the index of its letter in  *)
(* base62Alphabet.  One step is one round of the division loop.            *)
(***************************************************************************)
EXTENDS Integers, Sequences, SequencesExt

CONSTANT Inputs   \* the byte strings to encode

Byte  == 0 .. 255
Radix == 62

ASSUME InputsAssumption == Inputs \subseteq Seq(Byte)

VARIABLES data, num, result, pc

vars == <<data, num, result, pc>>

isZero(bytes) == \A k \in 1 .. Len(bytes) : bytes[k] = 0

\* The remainder carried out of each place of the long division.
Carry(bytes) ==
    LET c[k \in 0 .. Len(bytes)] ==
          IF k = 0 THEN 0 ELSE (c[k - 1] * 256 + bytes[k]) % Radix
    IN  c

\* Mutant: each place is divided without what is carried into it.
divideBy62_NoCarry(bytes) ==
    [quotient  |-> [k \in 1 .. Len(bytes) |-> bytes[k] \div Radix],
     remainder |-> Carry(bytes)[Len(bytes)]]

\* byte(val / 62) keeps eight bits.
divideBy62(bytes) ==
    [quotient  |-> [k \in 1 .. Len(bytes) |->
                      ((Carry(bytes)[k - 1] * 256 + bytes[k]) \div Radix) % 256],
     remainder |-> Carry(bytes)[Len(bytes)]]

Init ==
    /\ data \in Inputs
    /\ num = data
    /\ result = <<>>
    /\ pc = "divide"

Divide ==
    /\ pc = "divide"
    /\ ~isZero(num)
    /\ num' = divideBy62(num).quotient
    /\ result' = Append(result, divideBy62(num).remainder)
    /\ UNCHANGED <<data, pc>>

LeadingZeros(s) ==
    CHOOSE n \in 0 .. Len(s) : /\ \A k \in 1 .. n : s[k] = 0
                               /\ n < Len(s) => s[n + 1] # 0

\* Mutant: the leading zero bytes are forgotten.
Finish_NoLeadingZeros ==
    /\ pc = "divide"
    /\ isZero(num)
    /\ result' = Reverse(result)
    /\ pc' = "done"
    /\ UNCHANGED <<data, num>>

\* The digits are reversed, and one zero digit put in front for each leading
\* zero byte.
Finish ==
    /\ pc = "divide"
    /\ isZero(num)
    /\ result' = [k \in 1 .. LeadingZeros(data) |-> 0] \o Reverse(result)
    /\ pc' = "done"
    /\ UNCHANGED <<data, num>>

Next == Divide \/ Finish

Spec == Init /\ [][Next]_vars

-----------------------------------------------------------------------------
(* Properties *)

\* The number a sequence of digits stands for, most significant digit first.
Value(s, base) ==
    LET v[k \in 0 .. Len(s)] == IF k = 0 THEN 0 ELSE v[k - 1] * base + s[k]
    IN  v[Len(s)]

\* What was divided off so far and what is left make up the input: the in-place
\* division loses no carry and overflows no byte (divideBy62).
LoopValue ==
    pc = "divide" =>
        Value(data, 256) = Value(<<Value(num, 256)>> \o Reverse(result), Radix)

\* A reader gets the bytes back from the digits: as many leading zeros, then the
\* number written without any.  Two payloads that differ therefore never get
\* the same job id, not even when they differ in leading zeros or in length.
RoundTrip ==
    pc = "done" =>
        /\ Value(result, Radix) = Value(data, 256)
        /\ LeadingZeros(result) = LeadingZeros(data)
        /\ \A k \in 1 .. Len(result) : result[k] \in 0 .. Radix - 1
=============================================================================
