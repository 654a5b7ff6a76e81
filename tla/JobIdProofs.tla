---------------------------- MODULE JobIdProofs -----------------------------
(***************************************************************************)
(* encodeBase62 loses nothing, for byte strings of any length: TLC's       *)
(* numbers end at three bytes, a job id has twenty-one.                    *)
(*                                                                         *)
(* What a number sequence stands for is built up place by place (Places).  *)
(* Along the places, dividing keeps                                        *)
(*      what the bytes stand for = 62 * what the quotient stands for       *)
(*                                 + the carry;                            *)
(* at the last place this is LoopValue's step.                             *)
(***************************************************************************)
EXTENDS JobId, Induction, SequenceTheorems, TLAPS

-----------------------------------------------------------------------------
(* The recursive functions. *)

\* What the first k of n numbers stand for, for each k.
Places(s, n, base) ==
    LET v[k \in 0 .. n] == IF k = 0 THEN 0 ELSE v[k - 1] * base + s[k]
    IN  v

\* What one place of the division leaves: the carry out of it, and its byte.
RemOf(c, b) == (c * 256 + b) % 62
QuoOf(c, b) == ((c * 256 + b) \div 62) % 256

\* The remainders carried out of the first k of n places, for each k.
Carries(s, n) ==
    LET c[k \in 0 .. n] == IF k = 0 THEN 0 ELSE RemOf(c[k - 1], s[k])
    IN  c

\* Value is the last of the places.
LEMMA ValueIsLast == \A s, base : Value(s, base) = Places(s, Len(s), base)[Len(s)]
BY Zenon DEF Value, Places

\* The carries of divideBy62, with the length of the bytes named.
LEMMA CarryIsCarries == \A s : Carry(s) = Carries(s, Len(s))
BY Zenon DEF Carry, Carries, RemOf, Radix

\* A function on 0 .. N that satisfies a recursion with natural steps is
\* natural all along.
LEMMA RecursionTyped ==
    ASSUME NEW N \in Nat, NEW step \in [Nat \X (1 .. N) -> Nat], NEW v,
           DOMAIN v = 0 .. N, v = [k \in 0 .. N |-> v[k]], v[0] = 0,
           \A k \in 1 .. N : v[k - 1] \in Nat => v[k] = step[<<v[k - 1], k>>]
    PROVE  v \in [0 .. N -> Nat]
<1> DEFINE S == {k \in Nat : v[k] \in Nat}
<1>1. 0 \in S
  OBVIOUS
<1>2. ASSUME NEW n \in 0 .. N - 1, n \in S PROVE n + 1 \in S
  <2>1. n + 1 \in 1 .. N /\ (n + 1) - 1 = n /\ n \in Nat
    OBVIOUS
  <2>2. v[n] \in Nat
    BY <1>2
  <2>3. v[n + 1] = step[<<v[n], n + 1>>]
    BY <2>1, <2>2
  <2>4. step[<<v[n], n + 1>>] \in Nat
    BY <2>1, <2>2
  <2> QED BY <2>1, <2>3, <2>4
<1> HIDE DEF S
<1>3. \A n \in 0 .. N : n \in S
  BY <1>1, <1>2, BoundedInduction
<1>4. \A n \in 0 .. N : v[n] \in Nat
  BY <1>3 DEF S
<1> QED BY <1>4

\* The places of numbers satisfy their recursion.
LEMMA PlacesRec ==
    ASSUME NEW N \in Nat, NEW base \in Nat, NEW s,
           \A k \in 1 .. N : s[k] \in Nat
    PROVE  /\ Places(s, N, base) \in [0 .. N -> Nat]
           /\ Places(s, N, base)[0] = 0
           /\ \A k \in 1 .. N :
                 Places(s, N, base)[k] = Places(s, N, base)[k - 1] * base + s[k]
<1> DEFINE step == [p \in Nat \X (1 .. N) |-> p[1] * base + s[p[2]]]
           Eq(v) == v = [k \in 0 .. N |-> IF k = 0 THEN 0 ELSE v[k - 1] * base + s[k]]
           P == Places(s, N, base)
<1>1. step \in [Nat \X (1 .. N) -> Nat]
  <2>1. \A x \in Nat : x * base \in Nat
    OBVIOUS
  <2>2. \A p \in Nat \X (1 .. N) : p[1] * base + s[p[2]] \in Nat
    BY <2>1
  <2> QED BY <2>2
<1>2. \A x \in Nat, k \in 1 .. N : step[<<x, k>>] = x * base + s[k]
  OBVIOUS
<1> HIDE DEF step
<1>3. PICK f \in [0 .. N -> Nat] :
         f[0] = 0 /\ \A k \in 1 .. N : f[k] = step[<<f[k - 1], k>>]
  BY <1>1, Recursion
<1>4. \A k \in 1 .. N : k \in 0 .. N /\ k # 0 /\ k - 1 \in 0 .. N
  OBVIOUS
<1>5. \A k \in 0 .. N : k # 0 => k \in 1 .. N
  OBVIOUS
<1>6. \A k \in 1 .. N : f[k] = f[k - 1] * base + s[k]
  BY <1>2, <1>3, <1>4
<1>7. Eq(f)
  BY <1>3, <1>5, <1>6
<1>8. P = CHOOSE v : Eq(v)
  BY Zenon DEF Places
<1>9. Eq(P)
  BY <1>7, <1>8, Zenon
<1> HIDE DEF P
<1>10. /\ DOMAIN P = 0 .. N
       /\ P = [k \in 0 .. N |-> P[k]]
       /\ P[0] = 0
       /\ \A k \in 1 .. N : P[k] = P[k - 1] * base + s[k]
  <2> DEFINE g == [k \in 0 .. N |-> IF k = 0 THEN 0 ELSE P[k - 1] * base + s[k]]
  <2>1. P = g
    BY <1>9, Zenon
  <2>2. /\ DOMAIN g = 0 .. N
        /\ g = [k \in 0 .. N |-> g[k]]
        /\ g[0] = 0
        /\ \A k \in 1 .. N : g[k] = P[k - 1] * base + s[k]
    BY <1>4
  <2> HIDE DEF g
  <2> QED BY <2>1, <2>2, Zenon
<1>11. \A k \in 1 .. N : P[k - 1] \in Nat => P[k] = step[<<P[k - 1], k>>]
  BY <1>2, <1>10
<1>12. P \in [0 .. N -> Nat]
  BY <1>1, <1>10, <1>11, RecursionTyped
<1> QED BY <1>10, <1>12 DEF P

\* One place of the long division: the carry stays below 62, so the quotient
\* fits a byte and byte(val / 62) cuts nothing off.
LEMMA OnePlace ==
    ASSUME NEW c \in 0 .. 61, NEW b \in Byte
    PROVE  /\ RemOf(c, b) \in 0 .. 61
           /\ QuoOf(c, b) \in Byte
           /\ c * 256 + b = 62 * QuoOf(c, b) + RemOf(c, b)
<1> DEFINE val == c * 256 + b
           q   == val \div 62
           r   == val % 62
<1>1. c \in Int /\ 0 <= c /\ c <= 61 /\ b \in Int /\ 0 <= b /\ b <= 255
  BY DEF Byte
<1>2. val \in Nat /\ val < 15872
  BY <1>1
<1>3. RemOf(c, b) = r /\ QuoOf(c, b) = q % 256
  BY DEF RemOf, QuoOf
<1> HIDE DEF val
<1>4. q \in Int /\ r \in 0 .. 61 /\ val = 62 * q + r
  BY <1>2
<1> HIDE DEF q, r
<1>5. q \in 0 .. 255
  BY <1>2, <1>4
<1>6. \A n \in 0 .. 255 : n % 256 = n
  OBVIOUS
<1>7. q % 256 = q
  BY <1>5, <1>6
<1>8. RemOf(c, b) = r /\ QuoOf(c, b) = q
  BY <1>3, <1>7
<1>9. val = 62 * QuoOf(c, b) + RemOf(c, b)
  BY <1>4, <1>8
<1> QED BY <1>4, <1>5, <1>8, <1>9 DEF val, Byte

\* The carries satisfy their recursion, and each is a digit.
LEMMA CarriesRec ==
    ASSUME NEW N \in Nat, NEW s, \A k \in 1 .. N : s[k] \in Byte
    PROVE  /\ Carries(s, N) \in [0 .. N -> 0 .. 61]
           /\ Carries(s, N)[0] = 0
           /\ \A k \in 1 .. N :
                 Carries(s, N)[k] = RemOf(Carries(s, N)[k - 1], s[k])
<1> DEFINE step == [p \in Nat \X (1 .. N) |-> RemOf(p[1], s[p[2]])]
           Eq(v) == v = [k \in 0 .. N |->
                           IF k = 0 THEN 0 ELSE RemOf(v[k - 1], s[k])]
           C == Carries(s, N)
<1>1. \A x \in Nat, b \in Byte : RemOf(x, b) \in 0 .. 61
  <2> SUFFICES ASSUME NEW x \in Nat, NEW b \in Byte
               PROVE  RemOf(x, b) \in 0 .. 61
    OBVIOUS
  <2>1. x * 256 + b \in Nat
    BY DEF Byte
  <2>2. \A y \in Nat : y % 62 \in 0 .. 61
    OBVIOUS
  <2> QED BY <2>1, <2>2 DEF RemOf
<1>2. step \in [Nat \X (1 .. N) -> Nat]
  <2>1. \A p \in Nat \X (1 .. N) : RemOf(p[1], s[p[2]]) \in 0 .. 61
    BY <1>1
  <2>2. \A y \in 0 .. 61 : y \in Nat
    OBVIOUS
  <2>3. \A p \in Nat \X (1 .. N) : RemOf(p[1], s[p[2]]) \in Nat
    BY <2>1, <2>2
  <2> QED BY <2>3
<1>3. \A x \in Nat, k \in 1 .. N : step[<<x, k>>] = RemOf(x, s[k])
  OBVIOUS
<1> HIDE DEF step
<1>4. PICK f \in [0 .. N -> Nat] :
         f[0] = 0 /\ \A k \in 1 .. N : f[k] = step[<<f[k - 1], k>>]
  BY <1>2, Recursion
<1>5. \A k \in 1 .. N : k \in 0 .. N /\ k # 0 /\ k - 1 \in 0 .. N
  OBVIOUS
<1>6. \A k \in 0 .. N : k # 0 => k \in 1 .. N
  OBVIOUS
<1>7. \A k \in 1 .. N : f[k] = RemOf(f[k - 1], s[k])
  BY <1>3, <1>4, <1>5
<1>8. Eq(f)
  BY <1>4, <1>6, <1>7
<1>9. C = CHOOSE v : Eq(v)
  BY Zenon DEF Carries
<1>10. Eq(C)
  BY <1>8, <1>9, Zenon
<1> HIDE DEF C
<1>11. /\ DOMAIN C = 0 .. N
       /\ C = [k \in 0 .. N |-> C[k]]
       /\ C[0] = 0
       /\ \A k \in 1 .. N : C[k] = RemOf(C[k - 1], s[k])
  <2> DEFINE g == [k \in 0 .. N |-> IF k = 0 THEN 0 ELSE RemOf(C[k - 1], s[k])]
  <2>1. C = g
    BY <1>10, Zenon
  <2>2. /\ DOMAIN g = 0 .. N
        /\ g = [k \in 0 .. N |-> g[k]]
        /\ g[0] = 0
        /\ \A k \in 1 .. N : g[k] = RemOf(C[k - 1], s[k])
    BY <1>5
  <2> HIDE DEF g
  <2> QED BY <2>1, <2>2, Zenon
<1>12. \A k \in 1 .. N : C[k - 1] \in Nat => C[k] = step[<<C[k - 1], k>>]
  BY <1>3, <1>11
<1>13. C \in [0 .. N -> Nat]
  BY <1>2, <1>11, <1>12, RecursionTyped
<1>14. \A k \in 0 .. N : C[k] \in 0 .. 61
  <2> SUFFICES ASSUME NEW k \in 0 .. N PROVE C[k] \in 0 .. 61
    OBVIOUS
  <2>1. CASE k = 0
    BY <2>1, <1>11
  <2>2. CASE k # 0
    <3>1. k \in 1 .. N /\ C[k - 1] \in Nat
      BY <2>2, <1>5, <1>6, <1>13
    <3> QED BY <3>1, <1>1, <1>11
  <2> QED BY <2>1, <2>2
<1> QED BY <1>11, <1>13, <1>14 DEF C

\* Along the places of the long division: the bytes so far stand for 62 times
\* the quotient so far, and the carry.
LEMMA DivideAlong ==
    ASSUME NEW N \in Nat, NEW s, \A k \in 1 .. N : s[k] \in Byte,
           NEW q,
           \A k \in 1 .. N :
              q[k] = QuoOf(Carries(s, N)[k - 1], s[k])
    PROVE  /\ \A k \in 1 .. N : q[k] \in Byte
           /\ Places(s, N, 256)[N] = 62 * Places(q, N, 256)[N] + Carries(s, N)[N]
           /\ Carries(s, N)[N] \in 0 .. 61
<1> DEFINE A == Places(s, N, 256)
           B == Places(q, N, 256)
           C == Carries(s, N)
<1>1. \A k \in 1 .. N : k \in 0 .. N /\ k - 1 \in 0 .. N
  OBVIOUS
<1>2. /\ C \in [0 .. N -> 0 .. 61]
      /\ C[0] = 0
      /\ \A k \in 1 .. N : C[k] = RemOf(C[k - 1], s[k])
  BY CarriesRec
<1> HIDE DEF C
<1>3. \A k \in 1 .. N : /\ q[k] \in Byte
                        /\ C[k - 1] * 256 + s[k] = 62 * q[k] + C[k]
  <2> SUFFICES ASSUME NEW k \in 1 .. N
               PROVE  /\ q[k] \in Byte
                      /\ C[k - 1] * 256 + s[k] = 62 * q[k] + C[k]
    OBVIOUS
  <2>1. C[k - 1] \in 0 .. 61 /\ s[k] \in Byte
    BY <1>1, <1>2
  <2>2. q[k] = QuoOf(C[k - 1], s[k])
    BY DEF C
  <2>3. C[k] = RemOf(C[k - 1], s[k])
    BY <1>2
  <2> QED BY <2>1, <2>2, <2>3, OnePlace
<1>4. \A x \in Byte : x \in Nat
  BY DEF Byte
<1>5. /\ A \in [0 .. N -> Nat]
      /\ A[0] = 0
      /\ \A k \in 1 .. N : A[k] = A[k - 1] * 256 + s[k]
  <2>1. \A k \in 1 .. N : s[k] \in Nat
    BY <1>4
  <2> QED BY <2>1, PlacesRec
<1>6. /\ B \in [0 .. N -> Nat]
      /\ B[0] = 0
      /\ \A k \in 1 .. N : B[k] = B[k - 1] * 256 + q[k]
  <2>1. \A k \in 1 .. N : q[k] \in Nat
    BY <1>3, <1>4
  <2> QED BY <2>1, PlacesRec
<1> HIDE DEF A, B
<1> DEFINE S == {k \in Nat : A[k] = 62 * B[k] + C[k]}
<1>7. 0 \in S
  BY <1>2, <1>5, <1>6
<1>8. ASSUME NEW n \in 0 .. N - 1, n \in S PROVE n + 1 \in S
  <2>1. /\ n + 1 \in 1 .. N /\ (n + 1) - 1 = n /\ n + 1 \in Nat
        /\ n \in 0 .. N /\ n + 1 \in 0 .. N
    OBVIOUS
  <2>2. A[n + 1] = A[n] * 256 + s[n + 1]
    BY <2>1, <1>5
  <2>3. B[n + 1] = B[n] * 256 + q[n + 1]
    BY <2>1, <1>6
  <2>4. C[n] * 256 + s[n + 1] = 62 * q[n + 1] + C[n + 1]
    BY <2>1, <1>3
  <2>5. A[n] = 62 * B[n] + C[n]
    BY <1>8
  <2>6. A[n] \in Nat /\ B[n] \in Nat /\ C[n] \in 0 .. 61 /\ C[n + 1] \in 0 .. 61
    BY <2>1, <1>2, <1>5, <1>6
  <2>7. s[n + 1] \in Nat /\ q[n + 1] \in Nat
    BY <2>1, <1>3, <1>4
  <2>8. \A a, b, c, d, x, y \in Int :
          a = 62 * b + c /\ c * 256 + x = 62 * y + d
             => a * 256 + x = 62 * (b * 256 + y) + d
    OBVIOUS
  <2>9. A[n] * 256 + s[n + 1] = 62 * (B[n] * 256 + q[n + 1]) + C[n + 1]
    <3>1. A[n] \in Int /\ B[n] \in Int /\ C[n] \in Int /\ C[n + 1] \in Int
      BY <2>6
    <3>2. s[n + 1] \in Int /\ q[n + 1] \in Int
      BY <2>7
    <3> QED BY <2>4, <2>5, <2>8, <3>1, <3>2
  <2>10. A[n + 1] = 62 * B[n + 1] + C[n + 1]
    BY <2>2, <2>3, <2>9
  <2> QED BY <2>1, <2>10
<1> HIDE DEF S
<1>9. N \in S
  <2>1. \A n \in 0 .. N : n \in S
    BY <1>7, <1>8, BoundedInduction
  <2> QED BY <2>1
<1>10. A[N] = 62 * B[N] + C[N] /\ C[N] \in 0 .. 61
  BY <1>2, <1>9 DEF S
<1> QED BY <1>3, <1>10 DEF A, B, C

\* The two first digits may be put together: u is two
\* digits before the rest, w what the two stand for before the same rest.
LEMMA ShiftAlong ==
    ASSUME NEW M \in Nat, NEW N, NEW K, N = M + 2, K = M + 1,
           NEW u, NEW w,
           u[1] \in Nat, u[2] \in Nat, w[1] = u[1] * 62 + u[2],
           \A k \in 1 .. M : u[k + 2] \in Nat /\ w[k + 1] = u[k + 2]
    PROVE  Places(u, N, 62)[N] = Places(w, K, 62)[K]
<1> DEFINE U == Places(u, N, 62)
           W == Places(w, K, 62)
<1>0. N \in Nat /\ K \in Nat /\ 1 .. N = 1 .. M + 2 /\ 1 .. K = 1 .. M + 1
  OBVIOUS
<1>1. \A k \in 1 .. M + 2 : u[k] \in Nat
  <2> SUFFICES ASSUME NEW k \in 1 .. M + 2 PROVE u[k] \in Nat
    OBVIOUS
  <2>1. k = 1 \/ k = 2 \/ (k - 2 \in 1 .. M /\ (k - 2) + 2 = k)
    OBVIOUS
  <2> QED BY <2>1
<1>2. \A k \in 1 .. M + 1 : w[k] \in Nat
  <2> SUFFICES ASSUME NEW k \in 1 .. M + 1 PROVE w[k] \in Nat
    OBVIOUS
  <2>1. k = 1 \/ (k - 1 \in 1 .. M /\ (k - 1) + 1 = k)
    OBVIOUS
  <2>2. w[1] \in Nat
    OBVIOUS
  <2> QED BY <2>1, <2>2
<1>3. /\ U \in [0 .. N -> Nat]
      /\ U[0] = 0
      /\ \A k \in 1 .. N : U[k] = U[k - 1] * 62 + u[k]
  <2>1. \A k \in 1 .. N : u[k] \in Nat
    BY <1>0, <1>1
  <2> QED BY <1>0, <2>1, PlacesRec
<1>4. /\ W \in [0 .. K -> Nat]
      /\ W[0] = 0
      /\ \A k \in 1 .. K : W[k] = W[k - 1] * 62 + w[k]
  <2>1. \A k \in 1 .. K : w[k] \in Nat
    BY <1>0, <1>2
  <2> QED BY <1>0, <2>1, PlacesRec
<1> HIDE DEF U, W
<1> DEFINE S == {k \in Nat : U[k + 2] = W[k + 1]}
<1>5. 0 \in S
  <2>1. 1 \in 1 .. N /\ 2 \in 1 .. N /\ 1 \in 1 .. K
    OBVIOUS
  <2>2. U[1] = U[0] * 62 + u[1] /\ U[2] = U[1] * 62 + u[2] /\ W[1] = W[0] * 62 + w[1]
    <3>1. U[1] = U[1 - 1] * 62 + u[1]
      BY <2>1, <1>3
    <3>2. U[2] = U[2 - 1] * 62 + u[2]
      BY <2>1, <1>3
    <3>3. W[1] = W[1 - 1] * 62 + w[1]
      BY <2>1, <1>4
    <3>4. 1 - 1 = 0 /\ 2 - 1 = 1
      OBVIOUS
    <3> QED BY <3>1, <3>2, <3>3, <3>4
  <2>3. U[1] = u[1]
    BY <2>2, <1>3
  <2>4. U[2] = u[1] * 62 + u[2]
    BY <2>2, <2>3
  <2>5. W[1] = u[1] * 62 + u[2]
    BY <2>2, <1>4
  <2> QED BY <2>4, <2>5
<1>6. ASSUME NEW n \in 0 .. M - 1, n \in S PROVE n + 1 \in S
  <2>1. /\ n + 1 \in 1 .. M /\ n + 1 \in Nat
        /\ n + 3 \in 1 .. N /\ (n + 3) - 1 = n + 2 /\ (n + 1) + 2 = n + 3
        /\ n + 2 \in 1 .. K /\ (n + 2) - 1 = n + 1 /\ (n + 1) + 1 = n + 2
    OBVIOUS
  <2>2. U[n + 3] = U[n + 2] * 62 + u[n + 3]
    BY <2>1, <1>3
  <2>3. W[n + 2] = W[n + 1] * 62 + w[n + 2]
    BY <2>1, <1>4
  <2>4. w[n + 2] = u[n + 3]
    BY <2>1
  <2>5. U[n + 2] = W[n + 1]
    BY <1>6
  <2>6. U[(n + 1) + 2] = W[(n + 1) + 1]
    BY <2>1, <2>2, <2>3, <2>4, <2>5
  <2> QED BY <2>1, <2>6
<1> HIDE DEF S
<1>7. M \in S
  <2>1. \A n \in 0 .. M : n \in S
    BY <1>5, <1>6, BoundedInduction
  <2> QED BY <2>1
<1>8. U[M + 2] = W[M + 1]
  BY <1>7 DEF S
<1>9. U[N] = W[K]
  BY <1>8
<1> QED BY <1>9 DEF U, W

\* Zeros stand for nothing.
LEMMA ZerosAlong ==
    ASSUME NEW N \in Nat, NEW base \in Nat, NEW u, \A k \in 1 .. N : u[k] \in Nat,
           NEW m \in 0 .. N, \A k \in 1 .. m : u[k] = 0
    PROVE  Places(u, N, base)[m] = 0
<1> DEFINE U == Places(u, N, base)
<1>1. /\ U \in [0 .. N -> Nat]
      /\ U[0] = 0
      /\ \A k \in 1 .. N : U[k] = U[k - 1] * base + u[k]
  BY PlacesRec
<1> HIDE DEF U
<1> DEFINE S == {k \in Nat : U[k] = 0}
<1>2. 0 \in S
  BY <1>1
<1>3. ASSUME NEW n \in 0 .. m - 1, n \in S PROVE n + 1 \in S
  <2>1. n + 1 \in 1 .. N /\ n + 1 \in 1 .. m /\ (n + 1) - 1 = n /\ n + 1 \in Nat
    OBVIOUS
  <2>2. U[n + 1] = U[n] * base + u[n + 1]
    BY <2>1, <1>1
  <2>3. U[n] = 0 /\ u[n + 1] = 0
    BY <1>3, <2>1
  <2>4. U[n + 1] = 0
    BY <2>2, <2>3
  <2> QED BY <2>1, <2>4
<1> HIDE DEF S
<1>4. m \in S
  <2>1. m \in Nat
    OBVIOUS
  <2>2. \A n \in 0 .. m : n \in S
    BY <1>2, <1>3, <2>1, BoundedInduction
  <2> QED BY <2>1, <2>2
<1>5. U[m] = 0
  BY <1>4 DEF S
<1> QED BY <1>5 DEF U

\* Zeros in front change nothing: u is m zeros before w.
LEMMA FrontZerosAlong ==
    ASSUME NEW M \in Nat, NEW m \in Nat, NEW base \in Nat, NEW u, NEW w,
           \A k \in 1 .. m : u[k] = 0,
           \A k \in 1 .. M : w[k] \in Nat /\ u[m + k] = w[k]
    PROVE  Places(u, m + M, base)[m + M] = Places(w, M, base)[M]
<1> DEFINE U == Places(u, m + M, base)
           W == Places(w, M, base)
<1>1. \A k \in 1 .. m + M : u[k] \in Nat
  <2> SUFFICES ASSUME NEW k \in 1 .. m + M PROVE u[k] \in Nat
    OBVIOUS
  <2>1. k \in 1 .. m \/ (k - m \in 1 .. M /\ m + (k - m) = k)
    OBVIOUS
  <2> QED BY <2>1
<1>2. m + M \in Nat /\ m \in 0 .. m + M
  OBVIOUS
<1>3. /\ U \in [0 .. m + M -> Nat]
      /\ \A k \in 1 .. m + M : U[k] = U[k - 1] * base + u[k]
  BY <1>1, <1>2, PlacesRec
<1>4. /\ W \in [0 .. M -> Nat]
      /\ W[0] = 0
      /\ \A k \in 1 .. M : W[k] = W[k - 1] * base + w[k]
  BY PlacesRec
<1>5. U[m] = 0
  BY <1>1, <1>2, ZerosAlong
<1> HIDE DEF U, W
<1> DEFINE S == {k \in Nat : U[m + k] = W[k]}
<1>6. 0 \in S
  <2>1. m + 0 = m
    OBVIOUS
  <2> QED BY <2>1, <1>4, <1>5
<1>7. ASSUME NEW n \in 0 .. M - 1, n \in S PROVE n + 1 \in S
  <2>1. /\ n + 1 \in 1 .. M /\ n + 1 \in Nat /\ (n + 1) - 1 = n
        /\ m + (n + 1) \in 1 .. m + M /\ (m + (n + 1)) - 1 = m + n
    OBVIOUS
  <2>2. U[m + (n + 1)] = U[m + n] * base + u[m + (n + 1)]
    BY <2>1, <1>3
  <2>3. W[n + 1] = W[n] * base + w[n + 1]
    BY <2>1, <1>4
  <2>4. u[m + (n + 1)] = w[n + 1]
    BY <2>1
  <2>5. U[m + n] = W[n]
    BY <1>7
  <2>6. U[m + (n + 1)] = W[n + 1]
    BY <2>2, <2>3, <2>4, <2>5
  <2> QED BY <2>1, <2>6
<1> HIDE DEF S
<1>8. M \in S
  <2>1. \A n \in 0 .. M : n \in S
    BY <1>6, <1>7, BoundedInduction
  <2> QED BY <2>1
<1>9. U[m + M] = W[M]
  BY <1>8 DEF S
<1> QED BY <1>9 DEF U, W

\* A number that is not zero stays.
LEMMA PositiveAlong ==
    ASSUME NEW N \in Nat, NEW s, \A k \in 1 .. N : s[k] \in Nat,
           NEW j \in 1 .. N, s[j] # 0
    PROVE  Places(s, N, 256)[N] > 0
<1> DEFINE A == Places(s, N, 256)
<1>1. /\ A \in [0 .. N -> Nat]
      /\ \A k \in 1 .. N : A[k] = A[k - 1] * 256 + s[k]
  BY PlacesRec
<1> HIDE DEF A
<1> DEFINE S == {k \in Nat : k >= j => A[k] > 0}
<1>2. 0 \in S
  OBVIOUS
<1>3. ASSUME NEW n \in 0 .. N - 1, n \in S PROVE n + 1 \in S
  <2>1. n + 1 \in 1 .. N /\ (n + 1) - 1 = n /\ n \in 0 .. N /\ n + 1 \in Nat
    OBVIOUS
  <2>2. A[n + 1] = A[n] * 256 + s[n + 1]
    BY <2>1, <1>1
  <2>3. A[n] \in Nat /\ s[n + 1] \in Nat
    BY <2>1, <1>1
  <2>4. CASE n + 1 < j
    BY <2>1, <2>4
  <2>5. CASE n + 1 = j
    <3>1. s[n + 1] > 0
      BY <2>3, <2>5
    <3>2. A[n + 1] > 0
      BY <2>2, <2>3, <3>1
    <3> QED BY <2>1, <3>2
  <2>6. CASE n >= j
    <3>1. A[n] > 0
      BY <1>3, <2>6
    <3>2. A[n + 1] > 0
      BY <2>2, <2>3, <3>1
    <3> QED BY <2>1, <3>2
  <2> QED BY <2>4, <2>5, <2>6
<1> HIDE DEF S
<1>4. N \in S
  <2>1. \A n \in 0 .. N : n \in S
    BY <1>2, <1>3, BoundedInduction
  <2> QED BY <2>1
<1>5. A[N] > 0
  BY <1>4 DEF S
<1> QED BY <1>5 DEF A

-----------------------------------------------------------------------------
(* The same about sequences. *)

\* What a number sequence stands for is a natural number.
LEMMA ValueNat ==
    ASSUME NEW s \in Seq(Nat), NEW base \in Nat
    PROVE  Value(s, base) \in Nat
<1> DEFINE N == Len(s)
<1>1. N \in Nat /\ \A k \in 1 .. N : s[k] \in Nat
  OBVIOUS
<1>2. Value(s, base) = Places(s, N, base)[N]
  BY ValueIsLast, Zenon
<1> HIDE DEF N
<1>3. Places(s, N, base) \in [0 .. N -> Nat] /\ N \in 0 .. N
  BY <1>1, PlacesRec
<1>4. Places(s, N, base)[N] \in Nat
  BY <1>3
<1> QED BY <1>2, <1>4, Zenon

\* One number stands for itself.
LEMMA ValueOne ==
    ASSUME NEW x \in Nat, NEW base \in Nat
    PROVE  Value(<<x>>, base) = x
<1> DEFINE s == <<x>>
           N == 1
<1>1. s[1] = x /\ Len(s) = 1
  OBVIOUS
<1>2. Value(s, base) = Places(s, N, base)[N]
  BY <1>1, ValueIsLast, Zenon
<1> HIDE DEF s
<1>3. /\ Places(s, 1, base)[0] = 0
      /\ \A k \in 1 .. 1 : Places(s, 1, base)[k] = Places(s, 1, base)[k - 1] * base + s[k]
  <2>1. 1 \in Nat /\ \A k \in 1 .. 1 : s[k] \in Nat
    BY <1>1
  <2> QED BY <2>1, PlacesRec
<1>4. Places(s, 1, base)[1] = Places(s, 1, base)[1 - 1] * base + s[1]
  BY <1>3
<1>5. 1 - 1 = 0 /\ 0 * base + x = x
  OBVIOUS
<1>6. Places(s, 1, base)[1] = x
  BY <1>1, <1>3, <1>4, <1>5
<1> QED BY <1>2, <1>6 DEF s

\* divideBy62 gives the quotient, as bytes, and the remainder, as a digit: what
\* the bytes stand for is 62 times the one and the other.
LEMMA DivideValue ==
    \A s : s \in Seq(Byte) =>
      /\ divideBy62(s).quotient \in Seq(Byte)
      /\ divideBy62(s).remainder \in 0 .. 61
      /\ Value(s, 256) = 62 * Value(divideBy62(s).quotient, 256)
                           + divideBy62(s).remainder
<1>1. ASSUME NEW s, s \in Seq(Byte)
      PROVE  /\ divideBy62(s).quotient \in Seq(Byte)
             /\ divideBy62(s).remainder \in 0 .. 61
             /\ Value(s, 256) = 62 * Value(divideBy62(s).quotient, 256)
                                  + divideBy62(s).remainder
  <2> DEFINE N == Len(s)
             q == divideBy62(s).quotient
             r == divideBy62(s).remainder
             h == [k \in 1 .. N |-> QuoOf(Carries(s, N)[k - 1], s[k])]
  <2>1. N \in Nat /\ \A k \in 1 .. N : s[k] \in Byte
    BY <1>1
  <2>2. q = h /\ r = Carries(s, N)[N]
    <3>1. Carry(s) = Carries(s, N)
      BY CarryIsCarries, Zenon
    <3>2. q = [k \in 1 .. N |-> ((Carries(s, N)[k - 1] * 256 + s[k]) \div 62) % 256]
      BY <3>1, Zenon DEF divideBy62, Radix
    <3>3. r = Carries(s, N)[N]
      BY <3>1, Zenon DEF divideBy62
    <3> QED BY <3>2, <3>3, Zenon DEF QuoOf
  <2>3. Value(s, 256) = Places(s, N, 256)[N]
    BY ValueIsLast, Zenon
  <2> HIDE DEF N, q, r
  <2>4. \A k \in 1 .. N : h[k] = QuoOf(Carries(s, N)[k - 1], s[k])
    BY Zenon
  <2> HIDE DEF h
  <2>5. /\ \A k \in 1 .. N : h[k] \in Byte
        /\ Places(s, N, 256)[N] = 62 * Places(h, N, 256)[N] + Carries(s, N)[N]
        /\ Carries(s, N)[N] \in 0 .. 61
    <3>1. N \in Nat
      BY <2>1
    <3>2. \A k \in 1 .. N : s[k] \in Byte
      BY <2>1
    <3> QED BY <3>1, <3>2, <2>4, DivideAlong
  <2>6. h \in [1 .. N -> Byte]
    BY <2>5 DEF h
  <2>7. h \in Seq(Byte) /\ Len(h) = N
    BY <2>1, <2>6
  <2>8. Value(h, 256) = Places(h, N, 256)[N]
    BY <2>7, ValueIsLast, Zenon
  <2>9. Value(q, 256) = Places(h, N, 256)[N] /\ q \in Seq(Byte)
    BY <2>2, <2>7, <2>8
  <2>10. Value(s, 256) = 62 * Value(q, 256) + r
    BY <2>2, <2>3, <2>5, <2>9
  <2>11. r \in 0 .. 61
    BY <2>2, <2>5
  <2> QED BY <2>9, <2>10, <2>11 DEF q, r
<1> QED BY <1>1

\* The two first digits may be put together.
LEMMA ShiftValue ==
    \A x, y \in Nat : \A s : s \in Seq(Nat) =>
      Value(<<x>> \o (<<y>> \o s), 62) = Value(<<x * 62 + y>> \o s, 62)
<1>1. ASSUME NEW x \in Nat, NEW y \in Nat, NEW s, s \in Seq(Nat)
      PROVE  Value(<<x>> \o (<<y>> \o s), 62) = Value(<<x * 62 + y>> \o s, 62)
  <2> DEFINE M == Len(s)
             N == M + 2
             K == M + 1
             u == <<x>> \o (<<y>> \o s)
             w == <<x * 62 + y>> \o s
  <2>1. /\ M \in Nat
        /\ \A k \in 1 .. M : s[k] \in Nat
        /\ Len(u) = N
        /\ Len(w) = K
        /\ u[1] = x /\ u[2] = y /\ w[1] = x * 62 + y
        /\ \A k \in 1 .. M : u[k + 2] = s[k] /\ w[k + 1] = s[k]
    BY <1>1
  <2>2. Value(u, 62) = Places(u, N, 62)[N]
    BY <2>1, ValueIsLast, Zenon
  <2>3. Value(w, 62) = Places(w, K, 62)[K]
    BY <2>1, ValueIsLast, Zenon
  <2> HIDE DEF M, u, w
  <2>4. \A k \in 1 .. M : u[k + 2] \in Nat /\ w[k + 1] = u[k + 2]
    BY <2>1
  <2>5. Places(u, N, 62)[N] = Places(w, K, 62)[K]
    <3>1. M \in Nat /\ N = M + 2 /\ K = M + 1
      BY <2>1
    <3> HIDE DEF N, K
    <3>2. u[1] \in Nat /\ u[2] \in Nat /\ w[1] = u[1] * 62 + u[2]
      BY <2>1
    <3> QED BY <3>1, <3>2, <2>4, ShiftAlong
  <2> QED BY <2>2, <2>3, <2>5, Zenon DEF u, w
<1> QED BY <1>1

\* Zeros in front change nothing.
LEMMA FrontZerosValue ==
    ASSUME NEW m \in Nat, NEW s \in Seq(Nat), NEW base \in Nat
    PROVE  Value([k \in 1 .. m |-> 0] \o s, base) = Value(s, base)
<1> DEFINE M == Len(s)
           z == [k \in 1 .. m |-> 0]
           u == z \o s
<1>1. z \in Seq(Nat) /\ Len(z) = m /\ \A k \in 1 .. m : z[k] = 0
  OBVIOUS
<1> HIDE DEF z
<1>2. /\ M \in Nat
      /\ \A k \in 1 .. M : s[k] \in Nat
      /\ Len(u) = m + M
      /\ \A k \in 1 .. m : u[k] = 0
      /\ \A k \in 1 .. M : u[m + k] = s[k]
  BY <1>1
<1>3. Value(u, base) = Places(u, m + M, base)[m + M]
  BY <1>2, ValueIsLast, Zenon
<1>4. Value(s, base) = Places(s, M, base)[M]
  BY ValueIsLast, Zenon
<1> HIDE DEF M, u
<1>5. Places(u, m + M, base)[m + M] = Places(s, M, base)[M]
  <2>1. M \in Nat
    BY <1>2
  <2>2. \A k \in 1 .. m : u[k] = 0
    BY <1>2
  <2>3. \A k \in 1 .. M : s[k] \in Nat /\ u[m + k] = s[k]
    BY <1>2
  <2> QED BY <2>1, <2>2, <2>3, FrontZerosAlong
<1> QED BY <1>3, <1>4, <1>5, Zenon DEF u, z

\* Bytes stand for zero exactly when they are all zero.
LEMMA ZeroValue ==
    ASSUME NEW s \in Seq(Byte)
    PROVE  isZero(s) <=> Value(s, 256) = 0
<1> DEFINE N == Len(s)
<1>1. N \in Nat /\ \A k \in 1 .. N : s[k] \in Nat
  <2>1. \A b \in Byte : b \in Nat
    BY DEF Byte
  <2>2. N \in Nat /\ \A k \in 1 .. N : s[k] \in Byte
    OBVIOUS
  <2> QED BY <2>1, <2>2
<1>2. Value(s, 256) = Places(s, N, 256)[N]
  BY ValueIsLast, Zenon
<1>3. isZero(s) <=> \A k \in 1 .. N : s[k] = 0
  BY DEF isZero
<1> HIDE DEF N
<1>4. ASSUME \A k \in 1 .. N : s[k] = 0
      PROVE  Places(s, N, 256)[N] = 0
  <2>1. N \in 0 .. N /\ 256 \in Nat
    BY <1>1
  <2> QED BY <1>1, <1>4, <2>1, ZerosAlong
<1>5. ASSUME NEW j \in 1 .. N, s[j] # 0
      PROVE  Places(s, N, 256)[N] # 0
  <2>1. Places(s, N, 256)[N] > 0
    BY <1>1, <1>5, PositiveAlong
  <2>2. ~(0 > 0)
    OBVIOUS
  <2> QED BY <2>1, <2>2, Zenon
<1> QED BY <1>2, <1>3, <1>4, <1>5, Zenon

-----------------------------------------------------------------------------
(* Leading zeros, and the digits in reading order. *)

\* A number of zeros in front that nothing continues is the number of leading
\* zeros: there is only one.
LEMMA LeadingZerosIs ==
    \A s, n : (/\ s \in Seq(Nat)
               /\ n \in 0 .. Len(s)
               /\ \A k \in 1 .. n : s[k] = 0
               /\ n < Len(s) => s[n + 1] # 0)
              => LeadingZeros(s) = n
<1> SUFFICES ASSUME NEW s, NEW n,
                    s \in Seq(Nat),
                    n \in 0 .. Len(s),
                    \A k \in 1 .. n : s[k] = 0,
                    n < Len(s) => s[n + 1] # 0
             PROVE  LeadingZeros(s) = n
  OBVIOUS
<1> DEFINE N == Len(s)
           Is(m) == (\A k \in 1 .. m : s[k] = 0) /\ (m < N => s[m + 1] # 0)
<1>1. N \in Nat /\ n \in 0 .. N
  OBVIOUS
<1>2. Is(n)
  OBVIOUS
<1>3. LeadingZeros(s) = CHOOSE m \in 0 .. N : Is(m)
  BY Zenon DEF LeadingZeros
<1> HIDE DEF N
<1>4. ASSUME NEW m \in 0 .. N, Is(m) PROVE m = n
  <2>1. m \in Nat /\ n \in Nat /\ m <= N /\ n <= N
    BY <1>1
  <2>2. ~(m < n)
    <3>1. ASSUME m < n PROVE FALSE
      <4>1. m < N /\ m + 1 \in 1 .. n
        BY <1>1, <2>1, <3>1
      <4> QED BY <1>2, <1>4, <4>1
    <3> QED BY <3>1
  <2>3. ~(n < m)
    <3>1. ASSUME n < m PROVE FALSE
      <4>1. n < N /\ n + 1 \in 1 .. m
        BY <1>1, <2>1, <3>1
      <4> QED BY <1>2, <1>4, <4>1
    <3> QED BY <3>1
  <2>4. \A a, b \in Nat : ~(a < b) /\ ~(b < a) => a = b
    OBVIOUS
  <2> QED BY <2>1, <2>2, <2>3, <2>4
<1> HIDE DEF Is
<1>5. \E m \in 0 .. N : Is(m)
  BY <1>1, <1>2, Zenon
<1>6. LeadingZeros(s) \in 0 .. N /\ Is(LeadingZeros(s))
  BY <1>3, <1>5, Zenon
<1> QED BY <1>4, <1>6, Zenon

\* Every sequence has its number of leading zeros.
LEMMA LeadingZerosOf ==
    \A s : s \in Seq(Nat) =>
      /\ LeadingZeros(s) \in 0 .. Len(s)
      /\ \A k \in 1 .. LeadingZeros(s) : s[k] = 0
      /\ LeadingZeros(s) < Len(s) => s[LeadingZeros(s) + 1] # 0
<1>1. ASSUME NEW s, s \in Seq(Nat)
      PROVE  /\ LeadingZeros(s) \in 0 .. Len(s)
             /\ \A k \in 1 .. LeadingZeros(s) : s[k] = 0
             /\ LeadingZeros(s) < Len(s) => s[LeadingZeros(s) + 1] # 0
  <2> DEFINE N == Len(s)
             Is(m) == (\A k \in 1 .. m : s[k] = 0) /\ (m < N => s[m + 1] # 0)
             Ends == {m \in 0 .. N : m < N => s[m + 1] # 0}
  <2>1. N \in Nat
    BY <1>1
  <2>2. LeadingZeros(s) = CHOOSE m \in 0 .. N : Is(m)
    BY Zenon DEF LeadingZeros
  <2> HIDE DEF N
  <2>3. N \in Ends /\ Ends \subseteq Nat
    BY <2>1
  <2>4. PICK n \in Ends : \A m \in Ends : n <= m
    BY <2>3, Smallest
  <2>5. n \in 0 .. N /\ (n < N => s[n + 1] # 0)
    OBVIOUS
  <2>6. \A k \in 1 .. n : s[k] = 0
    <3> SUFFICES ASSUME NEW k \in 1 .. n, s[k] # 0 PROVE FALSE
      OBVIOUS
    <3>1. k - 1 \in 0 .. N /\ (k - 1) + 1 = k /\ ~(n <= k - 1)
      BY <2>1, <2>5
    <3>2. k - 1 \in Ends
      BY <3>1
    <3> QED BY <2>4, <3>1, <3>2
  <2>7. Is(n)
    BY <2>5, <2>6
  <2> HIDE DEF Is, Ends
  <2>8. \E m \in 0 .. N : Is(m)
    BY <2>5, <2>7, Zenon
  <2>9. LeadingZeros(s) \in 0 .. N /\ Is(LeadingZeros(s))
    BY <2>2, <2>8, Zenon
  <2> QED BY <2>9, Zenon DEF Is, N
<1> QED BY <1>1

\* A reversed sequence.
LEMMA Reversed ==
    ASSUME NEW S, NEW s \in Seq(S)
    PROVE  /\ Reverse(s) \in Seq(S)
           /\ Len(Reverse(s)) = Len(s)
           /\ s # <<>> => Reverse(s)[1] = s[Len(s)]
<1>1. \A k \in 1 .. Len(s) : (Len(s) - k) + 1 \in 1 .. Len(s)
  OBVIOUS
<1>2. \A k \in 1 .. Len(s) : s[(Len(s) - k) + 1] \in S
  BY <1>1
<1>3. Reverse(s) \in Seq(S) /\ Len(Reverse(s)) = Len(s)
  BY <1>2 DEF Reverse
<1>4. ASSUME s # <<>> PROVE Reverse(s)[1] = s[Len(s)]
  <2>1. 1 \in 1 .. Len(s) /\ (Len(s) - 1) + 1 = Len(s)
    BY <1>4
  <2> QED BY <2>1 DEF Reverse
<1> QED BY <1>3, <1>4

\* Appending last is putting in front, read backwards.
LEMMA ReverseAppend ==
    ASSUME NEW S, NEW s \in Seq(S), NEW x \in S
    PROVE  Reverse(Append(s, x)) = <<x>> \o Reverse(s)
<1> DEFINE N == Len(s)
           a == Reverse(Append(s, x))
           b == <<x>> \o Reverse(s)
<1>1. N \in Nat /\ Append(s, x) \in Seq(S) /\ Len(Append(s, x)) = N + 1
  OBVIOUS
<1>2. a \in Seq(S) /\ Len(a) = N + 1
  BY <1>1, Reversed
<1>3. Reverse(s) \in Seq(S) /\ Len(Reverse(s)) = N
  BY Reversed
<1>4. b \in Seq(S) /\ Len(b) = N + 1
  BY <1>3
<1>5. ASSUME NEW k \in 1 .. N + 1 PROVE a[k] = b[k]
  <2>1. a[k] = Append(s, x)[((N + 1) - k) + 1]
    BY <1>1 DEF Reverse
  <2>2. CASE k = 1
    <3>1. a[k] = x
      BY <2>1, <2>2, <1>1
    <3>2. b[k] = x
      BY <2>2, <1>3
    <3> QED BY <3>1, <3>2
  <2>3. CASE k # 1
    <3>1. k - 1 \in 1 .. N /\ ((N + 1) - k) + 1 = (N - (k - 1)) + 1
          /\ (N - (k - 1)) + 1 \in 1 .. N
      BY <2>3, <1>1
    <3>2. a[k] = s[(N - (k - 1)) + 1]
      BY <2>1, <3>1
    <3>3. Reverse(s)[k - 1] = s[(N - (k - 1)) + 1]
      BY <3>1 DEF Reverse
    <3>4. b[k] = Reverse(s)[k - 1]
      BY <3>1, <2>3, <1>3, <1>4
    <3> QED BY <3>2, <3>3, <3>4
  <2> QED BY <2>2, <2>3
<1> HIDE DEF N, a, b
<1>6. a = b
  BY <1>2, <1>4, <1>5, SeqEqual
<1> QED BY <1>6 DEF a, b

-----------------------------------------------------------------------------
(* The invariant. *)

Digit == 0 .. 61

\* While dividing: bytes stay bytes, digits are digits, nothing of the input is
\* lost, and once nothing is left the last digit divided off is not zero, so
\* the digits read backwards begin with no zero of their own.
DivideInv ==
    pc = "divide" =>
        /\ num \in Seq(Byte)
        /\ result \in Seq(Digit)
        /\ Value(data, 256) = Value(<<Value(num, 256)>> \o Reverse(result), 62)
        /\ result # <<>> /\ isZero(num) => result[Len(result)] # 0

EncodeInv == data \in Seq(Byte) /\ DivideInv /\ RoundTrip

\* Bytes and digits are natural numbers.
LEMMA SmallNumbers == Seq(Byte) \subseteq Seq(Nat) /\ Seq(Digit) \subseteq Seq(Nat)
<1>1. Byte \subseteq Nat /\ Digit \subseteq Nat
  BY DEF Byte, Digit
<1> QED BY <1>1, SeqMonotonic

\* At the start nothing is divided off.
LEMMA EncodeInit == Init => EncodeInv
<1> SUFFICES ASSUME Init PROVE EncodeInv
  OBVIOUS
<1>1. data \in Seq(Byte) /\ num = data /\ result = <<>> /\ pc = "divide"
  BY InputsAssumption DEF Init
<1> DEFINE x == Value(data, 256)
<1>2. x \in Nat
  <2>1. data \in Seq(Nat)
    BY <1>1, SmallNumbers
  <2> QED BY <2>1, ValueNat
<1> HIDE DEF x
<1>3. <<x>> \o Reverse(<<>>) = <<x>>
  <2>1. Reverse(<<>>) = <<>>
    BY DEF Reverse
  <2>2. <<x>> \in Seq(Nat)
    BY <1>2
  <2> QED BY <2>1, <2>2, ConcatEmptySeq
<1>4. Value(<<x>> \o Reverse(<<>>), 62) = x
  <2>1. Value(<<x>>, 62) = x
    BY <1>2, ValueOne
  <2> QED BY <1>3, <2>1, Zenon
<1>5. Value(data, 256) = Value(<<Value(num, 256)>> \o Reverse(result), 62)
  BY <1>1, <1>4, Zenon DEF x
<1>6. result \in Seq(Digit)
  BY <1>1
<1>7. DivideInv
  BY <1>1, <1>5, <1>6, Zenon DEF DivideInv
<1>8. RoundTrip
  BY <1>1 DEF RoundTrip
<1> QED BY <1>1, <1>7, <1>8 DEF EncodeInv

\* A round of the loop divides off one digit (divideBy62).
LEMMA EncodeDivide == EncodeInv /\ Divide => EncodeInv'
<1> SUFFICES ASSUME EncodeInv, Divide PROVE EncodeInv'
  OBVIOUS
<1> DEFINE q == divideBy62(num).quotient
           r == divideBy62(num).remainder
<1>1. /\ pc = "divide" /\ pc' = "divide" /\ data' = data
      /\ ~isZero(num)
      /\ num' = q /\ result' = Append(result, r)
  BY DEF Divide
<1>2. /\ data \in Seq(Byte)
      /\ num \in Seq(Byte)
      /\ result \in Seq(Digit)
      /\ Value(data, 256) = Value(<<Value(num, 256)>> \o Reverse(result), 62)
  BY <1>1 DEF EncodeInv, DivideInv
<1>3. /\ q \in Seq(Byte)
      /\ r \in Digit
      /\ Value(num, 256) = 62 * Value(q, 256) + r
  BY <1>2, DivideValue DEF Digit
<1> HIDE DEF q, r
<1> DEFINE x == Value(num, 256)
           y == Value(q, 256)
<1>4. x \in Nat /\ y \in Nat /\ r \in Nat
  <2>1. num \in Seq(Nat) /\ q \in Seq(Nat)
    BY <1>2, <1>3, SmallNumbers
  <2> QED BY <2>1, <1>3, ValueNat DEF Digit
<1>5. x # 0
  BY <1>1, <1>2, ZeroValue
<1>6. isZero(q) => y = 0
  BY <1>3, ZeroValue
<1>7. x = 62 * y + r
  BY <1>3
<1> HIDE DEF x, y
<1>8. x = y * 62 + r
  BY <1>4, <1>7
<1>9. Reverse(Append(result, r)) = <<r>> \o Reverse(result)
  BY <1>2, <1>3, ReverseAppend
<1>10. Reverse(result) \in Seq(Nat)
  <2>1. Reverse(result) \in Seq(Digit)
    BY <1>2, Reversed
  <2> QED BY <2>1, SmallNumbers
<1>11. Value(<<y>> \o (<<r>> \o Reverse(result)), 62) = Value(<<y * 62 + r>> \o Reverse(result), 62)
  BY <1>4, <1>10, ShiftValue
<1>12. Value(data, 256) = Value(<<y>> \o Reverse(Append(result, r)), 62)
  <2>1. Value(data, 256) = Value(<<x>> \o Reverse(result), 62)
    BY <1>2, Zenon DEF x
  <2> QED BY <2>1, <1>8, <1>9, <1>11, Zenon
<1>13. Append(result, r) \in Seq(Digit)
  BY <1>2, <1>3
<1>14. isZero(q) => Append(result, r)[Len(Append(result, r))] # 0
  <2>1. Append(result, r)[Len(Append(result, r))] = r
    BY <1>2, <1>3
  <2>2. y = 0 => r # 0
    BY <1>4, <1>5, <1>7
  <2> QED BY <2>1, <2>2, <1>6, Zenon
<1>15. DivideInv'
  <2>1. num' \in Seq(Byte)
    BY <1>1, <1>3, Zenon
  <2>2. result' \in Seq(Digit)
    BY <1>1, <1>13, Zenon
  <2>3. Value(data', 256) = Value(<<Value(num', 256)>> \o Reverse(result'), 62)
    BY <1>1, <1>12, Zenon DEF y
  <2>4. isZero(num') => result'[Len(result')] # 0
    BY <1>1, <1>14, Zenon
  <2> QED BY <2>1, <2>2, <2>3, <2>4, Zenon DEF DivideInv
<1>16. RoundTrip'
  BY <1>1 DEF RoundTrip
<1> QED BY <1>1, <1>2, <1>15, <1>16 DEF EncodeInv

\* When nothing is left to divide, the digits are turned round and the leading
\* zeros put in front.
LEMMA EncodeFinish == EncodeInv /\ Finish => EncodeInv'
<1> SUFFICES ASSUME EncodeInv, Finish PROVE EncodeInv'
  OBVIOUS
<1> DEFINE n == LeadingZeros(data)
           Z == [k \in 1 .. n |-> 0]
           R == Reverse(result)
           new == Z \o R
<1>1. /\ pc = "divide" /\ pc' = "done" /\ data' = data
      /\ isZero(num)
      /\ result' = new
  BY DEF Finish
<1>2. /\ data \in Seq(Byte)
      /\ num \in Seq(Byte)
      /\ result \in Seq(Digit)
      /\ Value(data, 256) = Value(<<Value(num, 256)>> \o R, 62)
      /\ result # <<>> => result[Len(result)] # 0
  BY <1>1 DEF EncodeInv, DivideInv
<1>3. Value(num, 256) = 0
  BY <1>1, <1>2, ZeroValue
<1>4. /\ R \in Seq(Digit)
      /\ Len(R) = Len(result)
      /\ result # <<>> => R[1] # 0
  BY <1>2, Reversed
<1>5. R \in Seq(Nat) /\ data \in Seq(Nat)
  BY <1>2, <1>4, SmallNumbers
<1> HIDE DEF R
<1>6. n \in Nat
  BY <1>5, LeadingZerosOf
<1> HIDE DEF n
<1>7. Value(data, 256) = Value(R, 62)
  <2>1. [k \in 1 .. 1 |-> 0] = <<0>>
    BY SMT
  <2>2. Value([k \in 1 .. 1 |-> 0] \o R, 62) = Value(R, 62)
    BY <1>5, FrontZerosValue
  <2>3. Value(data, 256) = Value(<<0>> \o R, 62)
    BY <1>2, <1>3, Zenon
  <2> QED BY <2>1, <2>2, <2>3, Zenon
<1>8. Value(new, 62) = Value(R, 62)
  BY <1>5, <1>6, FrontZerosValue
<1>9. Z \in Seq(Digit) /\ Len(Z) = n /\ \A k \in 1 .. n : Z[k] = 0
  BY <1>6 DEF Digit
<1> HIDE DEF Z
<1>10. /\ new \in Seq(Digit)
       /\ Len(new) = n + Len(R)
       /\ \A k \in 1 .. n : new[k] = 0
       /\ n < Len(new) => new[n + 1] = R[1]
  BY <1>4, <1>6, <1>9
<1>11. n < Len(new) => new[n + 1] # 0
  <2>1. n < Len(new) => result # <<>>
    BY <1>2, <1>4, <1>6, <1>10
  <2> QED BY <2>1, <1>4, <1>10
<1>12. LeadingZeros(new) = n
  <2>1. new \in Seq(Nat)
    BY <1>10, SmallNumbers
  <2>2. n \in 0 .. Len(new)
    BY <1>4, <1>6, <1>10
  <2> QED BY <2>1, <2>2, <1>10, <1>11, LeadingZerosIs
<1>13. \A k \in 1 .. Len(new) : new[k] \in Digit
  BY <1>10
<1> HIDE DEF new
<1>14. RoundTrip'
  <2>1. Value(result', Radix) = Value(data', 256)
    BY <1>1, <1>7, <1>8, Zenon DEF Radix
  <2>2. LeadingZeros(result') = LeadingZeros(data')
    BY <1>1, <1>12, Zenon DEF n
  <2>3. \A k \in 1 .. Len(result') : result'[k] \in 0 .. Radix - 1
    BY <1>1, <1>13 DEF Digit, Radix
  <2> QED BY <2>1, <2>2, <2>3, Zenon DEF RoundTrip
<1>15. DivideInv'
  BY <1>1 DEF DivideInv
<1> QED BY <1>1, <1>2, <1>14, <1>15 DEF EncodeInv

\* The invariant holds along every encoding.
LEMMA EncodeInvariant == Spec => []EncodeInv
<1>1. EncodeInv /\ [Next]_vars => EncodeInv'
  <2> SUFFICES ASSUME EncodeInv, [Next]_vars PROVE EncodeInv'
    OBVIOUS
  <2>1. CASE Divide
    BY <2>1, EncodeDivide
  <2>2. CASE Finish
    BY <2>2, EncodeFinish
  <2>3. CASE UNCHANGED vars
    BY <2>3, Zenon DEF EncodeInv, DivideInv, RoundTrip, vars
  <2> QED BY <2>1, <2>2, <2>3 DEF Next
<1> QED BY EncodeInit, <1>1, PTL DEF Spec

-----------------------------------------------------------------------------
(* Theorems *)

\* Whatever the bytes and however many, what was divided off and what is left
\* make up the input at every round: dividing in place loses no carry and
\* overflows no byte (divideBy62).
THEOREM DivisionLosesNothing == Spec => []LoopValue
<1>1. EncodeInv => LoopValue
  BY Zenon DEF EncodeInv, DivideInv, LoopValue, Radix
<1> QED BY EncodeInvariant, <1>1, PTL

\* Whatever the bytes and however many, the digits give them back: the number,
\* the leading zeros, and no digit outside the alphabet (encodeBase62).
THEOREM EncodingRoundTrips == Spec => []RoundTrip
<1>1. EncodeInv => RoundTrip
  BY DEF EncodeInv
<1> QED BY EncodeInvariant, <1>1, PTL
=============================================================================
