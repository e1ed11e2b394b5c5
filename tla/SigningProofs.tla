---------------------------- MODULE SigningProofs ----------------------------
(***************************************************************************)
(* Theorems of SignedMessages: for every alphabet, every size of byte, key *)
(* and prefix, every keystore and whatever its owner does to it meanwhile, *)
(* every room, name, nonce and text, and every answer of the service.      *)
(*                                                                         *)
(* Base58 and decimal are recursive.  That such a function exists and      *)
(* obeys its own equation is shown once, for any recursion that looks back *)
(* to a smaller number (Recursion); what it computes is then shown by a    *)
(* least counterexample (LeastElement).                                    *)
(***************************************************************************)
EXTENDS SignedMessages, SequenceTheorems, FiniteSetTheorems, WellFoundedInduction,
        TLAPS

-----------------------------------------------------------------------------
(* Least elements and recursion *)

(* A nonempty set of natural numbers has a least element. *)
LEMMA LeastElement ==
  ASSUME NEW S, S \subseteq Nat, S # {}
  PROVE  \E x \in S : \A y \in S : x <= y
  <1> DEFINE R == OpToRel(<, Nat)
  <1>1. IsWellFoundedOn(R, Nat)
    BY NatLessThanWellFounded
  <1> HIDE DEF R
  <1>2. PICK x \in S : \A y \in S : ~(<<y, x>> \in R)
    BY <1>1, WFMin, Zenon
  <1>3. ASSUME NEW y \in S PROVE x <= y
    <2>1. y < x => <<y, x>> \in R
      BY DEF R, OpToRel
    <2> QED
      BY <1>2, <2>1
  <1> QED
    BY <1>3

(* A function that looks back from the numbers of Z, by step, and starts     *)
(* anywhere else.                                                            *)
Obeys(f, E, Z, prev, step, start) ==
    \A m \in E : f[m] = IF m \in Z THEN step[m][f[prev[m]]] ELSE start[m]

(* Definition by recursion: such a function exists. *)
LEMMA Recursion ==
  ASSUME NEW D, D \subseteq Nat, NEW S, NEW Z, Z \subseteq D,
         NEW prev \in [Z -> D], \A n \in Z : prev[n] < n,
         NEW step \in [Z -> [S -> S]], NEW start \in [D -> S]
  PROVE  \E f \in [D -> S] : Obeys(f, D, Z, prev, step, start)
  <1> DEFINE Closed(E) == E \subseteq D /\ \A n \in E \cap Z : prev[n] \in E
             Attempts(E) == {f \in [E -> S] : Obeys(f, E, Z, prev, step, start)}
             Upto(n) == {m \in D : m <= n}
             value(n) == (CHOOSE f \in Attempts(Upto(n)) : TRUE)[n]
  <1>1. \A n \in D : Closed(Upto(n)) /\ n \in Upto(n)
    <2>1. ASSUME NEW n \in D, NEW m \in Upto(n) \cap Z PROVE prev[m] \in Upto(n)
      <3>1. prev[m] \in D /\ prev[m] < m /\ m \in Nat /\ n \in Nat /\ m <= n
        OBVIOUS
      <3>2. prev[m] \in Nat
        BY <3>1
      <3>3. prev[m] <= n
        BY ONLY <3>1, <3>2
      <3> QED
        BY <3>1, <3>3
    <2> QED
      BY <2>1
  <1>2. ASSUME NEW E, NEW F, Closed(E), Closed(F), NEW f \in Attempts(E),
               NEW g \in Attempts(F), NEW n \in E \cap F
        PROVE  f[n] = g[n]
    <2> DEFINE Wrong == {m \in E \cap F : f[m] # g[m]}
    <2>1. ASSUME Wrong # {} PROVE FALSE
      <3>1. Wrong \subseteq Nat
        BY <1>2
      <3>2. PICK m \in Wrong : \A k \in Wrong : m <= k
        BY <2>1, <3>1, LeastElement
      <3>3. /\ f[m] = IF m \in Z THEN step[m][f[prev[m]]] ELSE start[m]
            /\ g[m] = IF m \in Z THEN step[m][g[prev[m]]] ELSE start[m]
        BY DEF Obeys
      <3>4. CASE m \in Z
        <4>1. prev[m] \in E \cap F /\ prev[m] < m /\ prev[m] \in Nat /\ m \in Nat
          BY <1>2, <3>4
        <4>2. prev[m] \notin Wrong
          BY <3>2, <4>1
        <4> QED
          BY <3>3, <3>4, <4>1, <4>2
      <3> QED
        BY <3>3, <3>4
    <2> QED
      BY <2>1
  <1>3. ASSUME NEW E, Closed(E), \A n \in E : Attempts(Upto(n)) # {}
        PROVE  [n \in E |-> value(n)] \in Attempts(E)
    <2> DEFINE g == [n \in E |-> value(n)]
    <2>1. ASSUME NEW n \in E
          PROVE  \E f \in Attempts(Upto(n)) : f[n] = value(n)
      BY <1>3
    <2>2. ASSUME NEW n \in E
          PROVE  /\ value(n) \in S
                 /\ value(n) = IF n \in Z THEN step[n][value(prev[n])] ELSE start[n]
      <3>1. PICK f \in Attempts(Upto(n)) : f[n] = value(n)
        BY <2>1
      <3>2. n \in D /\ n \in Upto(n) /\ Closed(Upto(n))
        BY <1>1, <1>3
      <3>3. /\ f[n] \in S
            /\ f[n] = IF n \in Z THEN step[n][f[prev[n]]] ELSE start[n]
        BY <3>2 DEF Obeys
      <3>4. ASSUME n \in Z PROVE f[prev[n]] = value(prev[n])
        <4>1. prev[n] \in E /\ prev[n] \in D
          BY <1>3, <3>4
        <4>2. PICK h \in Attempts(Upto(prev[n])) : h[prev[n]] = value(prev[n])
          BY <2>1, <4>1
        <4>3. /\ prev[n] \in Upto(n) \cap Upto(prev[n])
              /\ Closed(Upto(prev[n]))
          BY <1>1, <3>2, <3>4, <4>1
        <4> HIDE DEF Attempts, Upto, Closed, value
        <4>4. f[prev[n]] = h[prev[n]]
          BY <1>2, <3>2, <4>3
        <4> QED
          BY <4>2, <4>4
      <3> HIDE DEF value
      <3> QED
        BY <3>1, <3>3, <3>4
    <2> HIDE DEF value
    <2>3. g \in [E -> S]
      BY <2>2
    <2>4. ASSUME NEW n \in E
          PROVE  g[n] = IF n \in Z THEN step[n][g[prev[n]]] ELSE start[n]
      BY <1>3, <2>2
    <2> QED
      BY <2>3, <2>4 DEF Obeys
  <1>4. ASSUME NEW n \in D, Attempts(Upto(n)) = {} PROVE FALSE
    <2> DEFINE None == {m \in D : Attempts(Upto(m)) = {}}
    <2>1. PICK k \in None : \A m \in None : k <= m
      <3> HIDE DEF Attempts
      <3> QED
        BY <1>4, LeastElement
    <2> DEFINE Below == {m \in D : m < k}
    <2>2. Closed(Below)
      <3>1. ASSUME NEW m \in Below \cap Z PROVE prev[m] \in Below
        <4>1. prev[m] \in D /\ prev[m] < m /\ m \in Nat /\ k \in Nat /\ m < k
          OBVIOUS
        <4>2. prev[m] \in Nat
          BY <4>1
        <4>3. prev[m] < k
          BY ONLY <4>1, <4>2
        <4> QED
          BY <4>1, <4>3
      <3> QED
        BY <3>1
    <2>3. \A m \in Below : Attempts(Upto(m)) # {}
      <3> HIDE DEF Attempts, Upto
      <3>1. ASSUME NEW m \in Below PROVE m \notin None
        BY <2>1
      <3> QED
        BY <3>1
    <2>4. PICK g : g \in Attempts(Below)
      <3> HIDE DEF Attempts, Upto, value, Closed, Below
      <3> QED
        BY <1>3, <2>2, <2>3
    <2> DEFINE last == IF k \in Z THEN step[k][g[prev[k]]] ELSE start[k]
               h == [m \in Upto(k) |-> IF m = k THEN last ELSE g[m]]
    <2>5. g \in [Below -> S] /\ \A m \in Below :
             g[m] = IF m \in Z THEN step[m][g[prev[m]]] ELSE start[m]
      BY <2>4 DEF Obeys
    <2>6. k \in D /\ k \in Nat /\ (k \in Z => prev[k] \in Below)
      OBVIOUS
    <2>7. last \in S
      BY <2>5, <2>6
    <2>8. \A m \in Upto(k) : m = k \/ m \in Below
      BY <2>6
    <2>9. h \in [Upto(k) -> S]
      BY <2>5, <2>7, <2>8
    <2>10. ASSUME NEW m \in Upto(k)
           PROVE  h[m] = IF m \in Z THEN step[m][h[prev[m]]] ELSE start[m]
      <3>1. ASSUME m \in Z PROVE h[prev[m]] = g[prev[m]] /\ (m # k => prev[m] \in Below)
        <4>1. prev[m] \in Upto(k) /\ prev[m] # k
          BY <1>1, <2>6, <3>1
        <4> QED
          BY <2>2, <2>8, <3>1, <4>1
      <3>2. CASE m = k
        BY <3>1, <3>2
      <3>3. CASE m # k
        <4>1. m \in Below /\ h[m] = g[m]
          BY <2>8, <3>3
        <4> QED
          BY <2>5, <3>1, <3>3, <4>1
      <3> QED
        BY <3>2, <3>3
    <2>11. h \in Attempts(Upto(k))
      BY <2>9, <2>10 DEF Obeys
    <2> QED
      BY <2>11
  <1>5. Closed(D)
    OBVIOUS
  <1>6. [n \in D |-> value(n)] \in Attempts(D)
    <2> HIDE DEF Attempts, value, Upto, Closed
    <2> QED
      BY <1>3, <1>4, <1>5
  <1> QED
    BY <1>6

-----------------------------------------------------------------------------
(* Division *)

LEMMA Division ==
  ASSUME NEW b \in Nat \ {0}, NEW n \in Nat
  PROVE  /\ n \div b \in Nat /\ n % b \in 0 .. b - 1
         /\ n = (n \div b) * b + (n % b)
  <1>1. n \div b \in Int /\ n \div b >= 0 /\ n % b \in 0 .. b - 1
    OBVIOUS
  <1>2. n = (n \div b) * b + (n % b)
    BY Z3
  <1> QED
    BY <1>1, <1>2

(* A number has one quotient and one remainder. *)
LEMMA DivisionIsUnique ==
  ASSUME NEW b \in Nat \ {0}, NEW x \in Nat, NEW y \in Nat,
         NEW d \in 0 .. b - 1, NEW e \in 0 .. b - 1, x * b + d = y * b + e
  PROVE  x = y /\ d = e
  <1>1. ASSUME NEW u \in Nat, NEW v \in Nat, u < v PROVE u * b + b <= v * b
    <2>1. PICK w \in Nat : v = u + 1 + w
      <3>1. v - u - 1 \in Nat /\ v = u + 1 + (v - u - 1)
        BY <1>1
      <3> QED
        BY <3>1
    <2>2. v * b = u * b + b + w * b
      BY <2>1
    <2>3. w * b \in Nat /\ u * b \in Nat
      OBVIOUS
    <2> QED
      BY <2>2, <2>3
  <1>2. x * b \in Nat /\ y * b \in Nat
    OBVIOUS
  <1>3. ~(x < y)
    BY <1>1, <1>2
  <1>4. ~(y < x)
    BY <1>1, <1>2
  <1>5. x = y
    BY <1>3, <1>4
  <1> QED
    BY <1>2, <1>5

LEMMA DivisionOf ==
  ASSUME NEW b \in Nat \ {0}, NEW x \in Nat, NEW d \in 0 .. b - 1
  PROVE  /\ x * b + d \in Nat /\ (x # 0 \/ d # 0 => x * b + d # 0)
         /\ (x * b + d) \div b = x /\ (x * b + d) % b = d
  <1> DEFINE n == x * b + d
  <1>1. n \in Nat
    OBVIOUS
  <1> HIDE DEF n
  <1>2. /\ n \div b \in Nat /\ n % b \in 0 .. b - 1
        /\ n = (n \div b) * b + (n % b)
    BY <1>1, Division
  <1>3. x * b + d = (n \div b) * b + (n % b)
    BY <1>2 DEF n
  <1> DEFINE q == n \div b
             r == n % b
  <1>4. q \in Nat /\ r \in 0 .. b - 1 /\ x * b + d = q * b + r
    BY <1>2, <1>3
  <1> HIDE DEF q, r
  <1>5. x = q /\ d = r
    BY <1>4, DivisionIsUnique
  <1>6. x # 0 \/ d # 0 => n # 0
    <2>1. n = 0 => q = 0 /\ r = 0
      <3>1. 0 = 0 * b + 0 /\ 0 \in 0 .. b - 1
        OBVIOUS
      <3> QED
        BY <1>4, <3>1, DivisionIsUnique DEF n
    <2> QED
      BY <1>5, <2>1
  <1> QED
    BY <1>1, <1>5, <1>6 DEF n, q, r

LEMMA QuotientIsSmaller ==
  ASSUME NEW b \in Nat \ {0, 1}, NEW n \in Nat \ {0}
  PROVE  n \div b < n
  <1> DEFINE q == n \div b
  <1>1. q \in Nat /\ n % b \in 0 .. b - 1 /\ n = q * b + (n % b)
    BY Division
  <1> HIDE DEF q
  <1>2. PICK c \in Nat : b = c + 2
    <2>1. b - 2 \in Nat /\ b = (b - 2) + 2
      OBVIOUS
    <2> QED
      BY <2>1
  <1>3. q * b = q * c + q + q
    BY <1>1, <1>2
  <1>4. q * c \in Nat
    BY <1>1
  <1> QED
    BY <1>1, <1>3, <1>4 DEF q

-----------------------------------------------------------------------------
(* Numbers and their digits *)

(* ToDigits is well defined: it obeys its own equation. *)
LEMMA ToDigitsDef ==
  ASSUME NEW b \in Nat \ {0, 1}
  PROVE  /\ \A n \in Nat : ToDigits(b, n) \in Seq(0 .. b - 1)
         /\ ToDigits(b, 0) = <<>>
         /\ \A n \in Nat \ {0} :
               ToDigits(b, n) = Append(ToDigits(b, n \div b), n % b)
  <1> DEFINE S == Seq(0 .. b - 1)
             Z == Nat \ {0}
             prev == [n \in Z |-> n \div b]
             step == [n \in Z |-> [s \in S |-> Append(s, n % b)]]
             start == [n \in Nat |-> <<>>]
             Digits(g) == [n \in Nat |-> IF n = 0 THEN <<>>
                                         ELSE Append(g[n \div b], n % b)]
             digits == CHOOSE g : g = Digits(g)
  <1>1. \A n \in Z : prev[n] \in Nat /\ prev[n] < n
    BY Division, QuotientIsSmaller
  <1>2. step \in [Z -> [S -> S]]
    <2>1. ASSUME NEW n \in Z, NEW s \in S PROVE Append(s, n % b) \in S
      <3>1. n % b \in 0 .. b - 1
        BY Division
      <3> QED
        BY <3>1, AppendProperties
    <2> QED
      BY <2>1
  <1>3. PICK f \in [Nat -> S] : Obeys(f, Nat, Z, prev, step, start)
    <2>1. prev \in [Z -> Nat] /\ start \in [Nat -> S] /\ Z \subseteq Nat
      BY <1>1
    <2> HIDE DEF S, Z, prev, step, start
    <2> QED
      BY <1>1, <1>2, <2>1, Recursion
  <1>4. f = Digits(f)
    <2>1. ASSUME NEW n \in Nat
          PROVE  f[n] = IF n = 0 THEN <<>> ELSE Append(f[n \div b], n % b)
      <3>1. f[n] = IF n \in Z THEN step[n][f[prev[n]]] ELSE start[n]
        BY <1>3 DEF Obeys
      <3>2. CASE n = 0
        BY <3>1, <3>2
      <3>3. CASE n # 0
        <4>1. n \in Z /\ prev[n] = n \div b /\ f[prev[n]] \in S
          BY <1>1, <3>3
        <4>2. step[n][f[prev[n]]] = Append(f[prev[n]], n % b)
          BY <4>1
        <4> QED
          BY <3>1, <3>3, <4>1, <4>2
      <3> QED
        BY <3>2, <3>3
    <2> QED
      BY <2>1
  <1>5. digits = Digits(digits)
    <2> HIDE DEF Digits
    <2> QED
      BY <1>4
  <1>6. \A n \in Nat : ToDigits(b, n) = digits[n]
    BY DEF ToDigits
  <1> HIDE DEF digits
  <1>7. \A n \in Nat : digits[n] = IF n = 0 THEN <<>>
                                   ELSE Append(digits[n \div b], n % b)
    BY <1>5
  <1>8. \A n \in Nat : digits[n] \in S
    <2> DEFINE Wrong == {n \in Nat : digits[n] \notin S}
    <2>1. ASSUME Wrong # {} PROVE FALSE
      <3>1. PICK n \in Wrong : \A m \in Wrong : n <= m
        BY <2>1, LeastElement
      <3>2. n # 0
        <4>1. digits[0] = <<>>
          BY <1>7
        <4>2. <<>> \in S
          OBVIOUS
        <4> QED
          BY <4>1, <4>2
      <3>3. n \div b \in Nat /\ n \div b < n /\ n % b \in 0 .. b - 1
        BY <3>2, Division, QuotientIsSmaller
      <3>4. digits[n \div b] \in S
        <4> DEFINE m == n \div b
        <4>1. m \in Nat /\ ~(n <= m)
          BY <3>3
        <4> HIDE DEF m
        <4>2. m \notin Wrong
          BY <3>1, <4>1
        <4>3. digits[m] \in S
          BY <4>1, <4>2
        <4> QED
          BY <4>3 DEF m
      <3>5. digits[n] = Append(digits[n \div b], n % b)
        BY <1>7, <3>2
      <3>6. Append(digits[n \div b], n % b) \in S
        BY <3>3, <3>4, AppendProperties
      <3> QED
        BY <3>5, <3>6
    <2> QED
      BY <2>1
  <1>9. ToDigits(b, 0) = <<>>
    BY <1>6, <1>7
  <1>10. ASSUME NEW n \in Nat \ {0}
         PROVE  ToDigits(b, n) = Append(ToDigits(b, n \div b), n % b)
    <2>1. n \div b \in Nat
      BY Division
    <2>2. digits[n] = Append(digits[n \div b], n % b)
      BY <1>7
    <2> QED
      BY <1>6, <2>1, <2>2
  <1> QED
    BY <1>6, <1>8, <1>9, <1>10

(* FromDigits goes through a sequence once, from its first digit on. *)
LEMMA FromDigitsDef ==
  ASSUME NEW b \in Nat, NEW s \in Seq(Nat)
  PROVE  \E f \in [0 .. Len(s) -> Nat] :
            /\ f[0] = 0
            /\ \A i \in 1 .. Len(s) : f[i] = f[i - 1] * b + s[i]
            /\ FromDigits(b, s) = f[Len(s)]
  <1> DEFINE N == Len(s)
             D == 0 .. N
             Z == 1 .. N
             prev == [i \in Z |-> i - 1]
             step == [i \in Z |-> [x \in Nat |-> x * b + s[i]]]
             start == [i \in D |-> 0]
             Num(g) == [i \in 0 .. Len(s) |-> IF i = 0 THEN 0 ELSE g[i - 1] * b + s[i]]
             num == CHOOSE g : g = Num(g)
  <1>1. N \in Nat /\ \A i \in Z : s[i] \in Nat
    OBVIOUS
  <1>2. step \in [Z -> [Nat -> Nat]]
    <2>1. ASSUME NEW i \in Z, NEW x \in Nat PROVE x * b + s[i] \in Nat
      BY <1>1
    <2> QED
      BY <2>1
  <1>3. PICK f \in [D -> Nat] : Obeys(f, D, Z, prev, step, start)
    <2>1. /\ prev \in [Z -> D] /\ start \in [D -> Nat] /\ Z \subseteq D /\ D \subseteq Nat
          /\ \A i \in Z : prev[i] < i
      BY <1>1
    <2> HIDE DEF D, Z, prev, step, start
    <2> QED
      BY <1>2, <2>1, Recursion
  <1>4. f = Num(f)
    <2>1. ASSUME NEW i \in D
          PROVE  f[i] = IF i = 0 THEN 0 ELSE f[i - 1] * b + s[i]
      <3>1. f[i] = IF i \in Z THEN step[i][f[prev[i]]] ELSE start[i]
        BY <1>3 DEF Obeys
      <3>2. CASE i = 0
        BY <3>1, <3>2
      <3>3. CASE i # 0
        <4>1. i \in Z /\ prev[i] = i - 1 /\ i - 1 \in D
          BY <1>1, <3>3
        <4>2. f[i - 1] \in Nat
          BY <1>3, <4>1
        <4> QED
          BY <3>1, <3>3, <4>1, <4>2
      <3> QED
        BY <3>2, <3>3
    <2> QED
      BY <2>1
  <1>5. num = Num(num)
    <2> HIDE DEF Num
    <2> QED
      BY <1>4
  <1>6. FromDigits(b, s) = num[N]
    BY DEF FromDigits
  <1> HIDE DEF num
  <1>7. \A i \in D : num[i] = IF i = 0 THEN 0 ELSE num[i - 1] * b + s[i]
    BY <1>5
  <1>8. \A i \in D : num[i] = f[i]
    <2> DEFINE Wrong == {i \in D : num[i] # f[i]}
    <2>1. ASSUME Wrong # {} PROVE FALSE
      <3>1. PICK i \in Wrong : \A j \in Wrong : i <= j
        <4>1. Wrong \subseteq Nat
          BY <1>1
        <4> QED
          BY <2>1, <4>1, LeastElement
      <3>2. /\ num[i] = IF i = 0 THEN 0 ELSE num[i - 1] * b + s[i]
            /\ f[i] = IF i = 0 THEN 0 ELSE f[i - 1] * b + s[i]
        BY <1>4, <1>7
      <3>3. i # 0
        BY <3>2
      <3>4. i - 1 \in D /\ ~(i <= i - 1)
        BY <1>1, <3>3
      <3>5. num[i - 1] = f[i - 1]
        BY <3>1, <3>4
      <3> QED
        BY <3>2, <3>3, <3>5
    <2> QED
      BY <2>1
  <1>9. f[0] = 0 /\ \A i \in 1 .. N : f[i] = f[i - 1] * b + s[i]
    <2>1. \A i \in D : f[i] = IF i = 0 THEN 0 ELSE f[i - 1] * b + s[i]
      BY <1>4
    <2> QED
      BY <1>1, <2>1
  <1> QED
    BY <1>1, <1>6, <1>8, <1>9

LEMMA FromDigitsEmpty ==
  ASSUME NEW b \in Nat
  PROVE  FromDigits(b, <<>>) = 0
  <1>1. <<>> \in Seq(Nat) /\ Len(<<>>) = 0
    OBVIOUS
  <1>2. PICK f \in [0 .. Len(<<>>) -> Nat] :
            f[0] = 0 /\ FromDigits(b, <<>>) = f[Len(<<>>)]
    BY <1>1, FromDigitsDef
  <1> QED
    BY <1>1, <1>2

LEMMA FromDigitsAppend ==
  ASSUME NEW b \in Nat, NEW s \in Seq(Nat), NEW d \in Nat
  PROVE  /\ FromDigits(b, s) \in Nat
         /\ FromDigits(b, Append(s, d)) = FromDigits(b, s) * b + d
  <1> DEFINE t == Append(s, d)
             N == Len(s)
  <1>1. /\ t \in Seq(Nat) /\ Len(t) = N + 1 /\ t[N + 1] = d
        /\ \A i \in 1 .. N : t[i] = s[i]
    BY AppendProperties
  <1>2. N \in Nat
    OBVIOUS
  <1>3. PICK f \in [0 .. N -> Nat] :
            /\ f[0] = 0
            /\ \A i \in 1 .. N : f[i] = f[i - 1] * b + s[i]
            /\ FromDigits(b, s) = f[N]
    BY FromDigitsDef
  <1> HIDE DEF t, N
  <1>4. PICK g \in [0 .. N + 1 -> Nat] :
            /\ g[0] = 0
            /\ \A i \in 1 .. N + 1 : g[i] = g[i - 1] * b + t[i]
            /\ FromDigits(b, t) = g[N + 1]
    <2>1. \E g \in [0 .. Len(t) -> Nat] :
            /\ g[0] = 0
            /\ \A i \in 1 .. Len(t) : g[i] = g[i - 1] * b + t[i]
            /\ FromDigits(b, t) = g[Len(t)]
      BY <1>1, FromDigitsDef, Zenon
    <2> QED
      BY <1>1, <2>1
  <1>5. \A i \in 0 .. N : f[i] = g[i]
    <2> DEFINE Wrong == {i \in 0 .. N : f[i] # g[i]}
    <2>1. ASSUME Wrong # {} PROVE FALSE
      <3>1. PICK i \in Wrong : \A j \in Wrong : i <= j
        <4>1. Wrong \subseteq Nat
          BY <1>2
        <4> QED
          BY <2>1, <4>1, LeastElement
      <3>2. i # 0
        BY <1>3, <1>4
      <3>3. i \in 1 .. N /\ i \in 1 .. N + 1 /\ i - 1 \in 0 .. N /\ ~(i <= i - 1)
        BY <1>2, <3>2
      <3>4. f[i - 1] = g[i - 1]
        BY <3>1, <3>3
      <3>5. f[i] = f[i - 1] * b + s[i] /\ g[i] = g[i - 1] * b + s[i]
        BY <1>1, <1>3, <1>4, <3>3
      <3> QED
        BY <3>4, <3>5
    <2> QED
      BY <2>1
  <1>6. /\ FromDigits(b, t) = g[N + 1] /\ g[N + 1] = g[N] * b + d
        /\ g[N] = f[N] /\ f[N] \in Nat
    <2>1. N + 1 \in 1 .. N + 1 /\ N \in 0 .. N /\ N + 1 - 1 = N
      BY <1>2
    <2> QED
      BY <1>1, <1>3, <1>4, <1>5, <2>1
  <1> QED
    BY <1>3, <1>6 DEF t

(* The digits of a number give it back. *)
LEMMA DigitsOfNumber ==
  ASSUME NEW b \in Nat \ {0, 1}, NEW n \in Nat
  PROVE  FromDigits(b, ToDigits(b, n)) = n
  <1> DEFINE Wrong == {m \in Nat : FromDigits(b, ToDigits(b, m)) # m}
  <1>1. ASSUME Wrong # {} PROVE FALSE
    <2>1. PICK m \in Wrong : \A k \in Wrong : m <= k
      BY <1>1, LeastElement
    <2>2. m # 0
      BY ToDigitsDef, FromDigitsEmpty
    <2> DEFINE q == m \div b
               r == m % b
               s == ToDigits(b, q)
    <2>3. q \in Nat /\ q < m /\ r \in 0 .. b - 1 /\ m = q * b + r
      BY <2>2, Division, QuotientIsSmaller
    <2>4. ToDigits(b, m) = Append(s, r)
      BY <2>2, ToDigitsDef
    <2> HIDE DEF q, r
    <2>5. q \notin Wrong
      BY <2>1, <2>3
    <2>6. FromDigits(b, s) = q
      BY <2>3, <2>5
    <2>7. s \in Seq(Nat)
      <3>1. s \in Seq(0 .. b - 1)
        BY <2>3, ToDigitsDef
      <3> QED
        BY <3>1, SeqMonotonic, 0 .. b - 1 \subseteq Nat
    <2> HIDE DEF s
    <2>8. FromDigits(b, Append(s, r)) = q * b + r
      BY <2>3, <2>6, <2>7, FromDigitsAppend
    <2> QED
      BY <2>3, <2>4, <2>8
  <1> QED
    BY <1>1

(* Digits without a leading zero are those of their number. *)
LEMMA NumberOfDigits ==
  ASSUME NEW b \in Nat \ {0, 1}, NEW s \in Seq(0 .. b - 1), s # <<>> => s[1] # 0
  PROVE  ToDigits(b, FromDigits(b, s)) = s
  <1> DEFINE Fails(t) == /\ t \in Seq(0 .. b - 1) /\ t # <<>> => t[1] # 0
                         /\ ToDigits(b, FromDigits(b, t)) # t
             Wrong == {m \in Nat : \E t \in Seq(0 .. b - 1) : Fails(t) /\ Len(t) = m}
  <1>1. ASSUME Wrong # {} PROVE FALSE
    <2>1. PICK m \in Wrong : \A k \in Wrong : m <= k
      <3>1. Wrong \subseteq Nat
        OBVIOUS
      <3> HIDE DEF Wrong
      <3> QED
        BY <1>1, <3>1, LeastElement
    <2>2. PICK t \in Seq(0 .. b - 1) : Fails(t) /\ Len(t) = m
      OBVIOUS
    <2>3. t # <<>>
      BY <2>2, FromDigitsEmpty, ToDigitsDef
    <2>4. PICK u \in Seq(0 .. b - 1), d \in 0 .. b - 1 : t = Append(u, d)
      BY <2>2, <2>3, SequenceEmptyOrAppend
    <2>5. /\ m \in Nat /\ Len(u) = m - 1 /\ Len(u) \in Nat
          /\ u # <<>> => u[1] = t[1]
          /\ u = <<>> => d = t[1]
      <3>1. /\ Len(t) = Len(u) + 1 /\ \A i \in 1 .. Len(u) : t[i] = u[i]
            /\ t[Len(u) + 1] = d
        BY <2>4, AppendProperties
      <3>2. u # <<>> => 1 \in 1 .. Len(u)
        BY EmptySeq
      <3> QED
        BY <2>2, <3>1, <3>2
    <2>6. (u # <<>> => u[1] # 0) /\ (u = <<>> => d # 0)
      BY <2>2, <2>3, <2>5
    <2>7. ToDigits(b, FromDigits(b, u)) = u
      <3>1. Len(u) \notin Wrong
        <4>1. ~(m <= Len(u))
          BY <2>5
        <4> HIDE DEF Wrong
        <4> QED
          BY <2>1, <4>1
      <3>2. ~Fails(u)
        BY <2>5, <3>1
      <3> QED
        BY <2>6, <3>2
    <2> DEFINE x == FromDigits(b, u)
               n == x * b + d
    <2>8. x \in Nat /\ FromDigits(b, t) = n
      <3>1. u \in Seq(Nat) /\ d \in Nat
        BY SeqMonotonic, 0 .. b - 1 \subseteq Nat
      <3> QED
        BY <2>4, <3>1, FromDigitsAppend
    <2>9. u # <<>> => x # 0
      BY <2>7, ToDigitsDef
    <2> HIDE DEF x
    <2>10. n \in Nat /\ n # 0 /\ n \div b = x /\ n % b = d
      <3>1. b \in Nat \ {0} /\ (x # 0 \/ d # 0)
        BY <2>6, <2>9
      <3> QED
        BY <2>8, <3>1, DivisionOf, Zenon
    <2> HIDE DEF n
    <2>11. ToDigits(b, n) = Append(ToDigits(b, x), d)
      BY <2>10, ToDigitsDef
    <2> QED
      BY <2>2, <2>4, <2>7, <2>8, <2>11 DEF x
  <1>2. Len(s) \in Nat
    OBVIOUS
  <1>3. Len(s) \notin Wrong
    BY <1>1
  <1> QED
    BY <1>2, <1>3

(* The digits of a number do not begin with a zero. *)
LEMMA NoZeroLeads ==
  ASSUME NEW b \in Nat \ {0, 1}, NEW n \in Nat \ {0}
  PROVE  ToDigits(b, n) # <<>> /\ ToDigits(b, n)[1] # 0
  <1> DEFINE Wrong == {m \in Nat \ {0} : ToDigits(b, m) = <<>> \/ ToDigits(b, m)[1] = 0}
  <1>1. ASSUME Wrong # {} PROVE FALSE
    <2>1. PICK m \in Wrong : \A k \in Wrong : m <= k
      <3>1. Wrong \subseteq Nat
        OBVIOUS
      <3> HIDE DEF Wrong
      <3> QED
        BY <1>1, <3>1, LeastElement
    <2> DEFINE q == m \div b
               r == m % b
               s == ToDigits(b, q)
    <2>2. m \in Nat \ {0} /\ q \in Nat /\ q < m /\ r \in 0 .. b - 1 /\ m = q * b + r
      BY <2>1, Division, QuotientIsSmaller
    <2>3. ToDigits(b, m) = Append(s, r)
      BY <2>2, ToDigitsDef
    <2>4. s \in Seq(0 .. b - 1)
      BY <2>2, ToDigitsDef
    <2>5. q = 0 => s = <<>> /\ r # 0
      BY <2>2, ToDigitsDef
    <2>6. q # 0 => s # <<>> /\ s[1] # 0
      <3>1. q \notin Wrong
        <4>1. ~(m <= q)
          BY <2>2
        <4> HIDE DEF Wrong, q
        <4> QED
          BY <2>1, <4>1
      <3> QED
        BY <2>2, <3>1
    <2> HIDE DEF s, q, r
    <2>7. Append(s, r) # <<>> /\ Append(s, r)[1] # 0
      <3>1. /\ Len(Append(s, r)) = Len(s) + 1 /\ Len(s) \in Nat
            /\ \A i \in 1 .. Len(s) : Append(s, r)[i] = s[i]
            /\ Append(s, r)[Len(s) + 1] = r
        BY <2>2, <2>4, AppendProperties, LenProperties
      <3>2. CASE q = 0
        <4>1. s = <<>> /\ r # 0
          BY <2>5, <3>2
        <4> QED
          BY <3>1, <4>1
      <3>3. CASE q # 0
        <4>1. s # <<>> /\ s[1] # 0
          BY <2>6, <3>3
        <4>2. 1 \in 1 .. Len(s)
          BY <2>4, <4>1, EmptySeq
        <4> QED
          BY <3>1, <4>1, <4>2
      <3> QED
        BY <3>2, <3>3
    <2> QED
      BY <2>1, <2>3, <2>7
  <1> QED
    BY <1>1

-----------------------------------------------------------------------------
(* did:key strings *)

(* Nothing leads where the first digit is not zero. *)
LEMMA LeadingZerosOf ==
  ASSUME NEW S, NEW s \in Seq(S)
  PROVE  /\ LeadingZeros(s) \in Nat
         /\ LeadingZeros(s) = 0 <=> (s # <<>> => s[1] # 0)
  <1> DEFINE L == {i \in DOMAIN s : \A j \in 1 .. i : s[j] = 0}
  <1>1. Len(s) \in Nat /\ DOMAIN s = 1 .. Len(s) /\ (s # <<>> => Len(s) >= 1)
    BY LenProperties, EmptySeq
  <1>2. IsFiniteSet(L) /\ Cardinality(L) \in Nat /\ (Cardinality(L) = 0 <=> L = {})
    <2>1. IsFiniteSet(1 .. Len(s))
      BY <1>1, FS_Interval
    <2>2. L \subseteq 1 .. Len(s)
      BY <1>1
    <2> HIDE DEF L
    <2>3. IsFiniteSet(L)
      BY <2>1, <2>2, FS_Subset
    <2> QED
      BY <2>3, FS_CardinalityType, FS_EmptySet
  <1>3. L = {} <=> (s # <<>> => s[1] # 0)
    <2>1. ASSUME s # <<>>, s[1] = 0 PROVE 1 \in L
      BY <1>1, <2>1
    <2>2. ASSUME NEW i \in L PROVE s # <<>> /\ s[1] = 0
      BY <1>1
    <2> QED
      BY <2>1, <2>2
  <1> HIDE DEF L
  <1> QED
    BY <1>2, <1>3 DEF LeadingZeros, L

(* Zeros in front of a sequence: none, or its first element is a zero. *)
LEMMA ZerosBefore ==
  ASSUME NEW n \in Nat, NEW s \in Seq(Nat)
  PROVE  /\ Zeros(n) \o s \in Seq(Nat)
         /\ n = 0 => Zeros(n) \o s = s
         /\ n # 0 => (Zeros(n) \o s)[1] = 0
  <1>1. Zeros(n) \in Seq(Nat) /\ Len(Zeros(n)) = n
    BY DEF Zeros
  <1>2. n = 0 => Zeros(n) = <<>>
    BY DEF Zeros
  <1>3. n # 0 => Zeros(n)[1] = 0
    BY DEF Zeros
  <1>4. /\ Zeros(n) \o s \in Seq(Nat)
        /\ \A i \in 1 .. n + Len(s) : (Zeros(n) \o s)[i] =
              IF i <= n THEN Zeros(n)[i] ELSE s[i - n]
    BY <1>1, ConcatProperties
  <1>5. n = 0 => Zeros(n) \o s = s
    BY <1>2, ConcatEmptySeq
  <1>6. n # 0 => 1 \in 1 .. n + Len(s) /\ 1 <= n
    OBVIOUS
  <1> QED
    BY <1>3, <1>4, <1>5, <1>6

(* Base58 text without leading ones, and what it encodes. *)
LEMMA Base58RoundTrip ==
  ASSUME NEW text \in Seq(0 .. Base - 1), text # <<>>,
         _b58decode(text) # <<>> => _b58decode(text)[1] # 0
  PROVE  /\ _b58decode(text) \in Seq(0 .. Byte - 1)
         /\ _b58encode(_b58decode(text)) = text
  <1> DEFINE data == _b58decode(text)
             N == FromDigits(Base, text)
             digits == ToDigits(Byte, N)
  <1>1. Base \in Nat \ {0, 1} /\ Byte \in Nat \ {0, 1}
    BY DidAssumption
  <1>2. N \in Nat
    <2>1. text \in Seq(Nat)
      BY <1>1, SeqMonotonic, 0 .. Base - 1 \subseteq Nat
    <2> QED
      BY <1>1, <2>1, FromDigitsAppend
  <1>3. digits \in Seq(0 .. Byte - 1) /\ digits \in Seq(Nat)
    <2>1. digits \in Seq(0 .. Byte - 1)
      BY <1>1, <1>2, ToDigitsDef
    <2> HIDE DEF digits
    <2> QED
      BY <1>1, <2>1, SeqMonotonic, 0 .. Byte - 1 \subseteq Nat
  <1> HIDE DEF N, digits
  <1>4. data = Zeros(LeadingZeros(text)) \o digits
    BY DEF _b58decode, digits, N
  <1>5. LeadingZeros(text) \in Nat
    BY LeadingZerosOf
  <1>6. LeadingZeros(text) = 0
    <2>1. ASSUME LeadingZeros(text) # 0 PROVE FALSE
      <3>1. data[1] = 0
        BY <1>3, <1>4, <1>5, <2>1, ZerosBefore
      <3>2. data # <<>>
        <4>1. /\ Zeros(LeadingZeros(text)) \in Seq(Nat)
              /\ Zeros(LeadingZeros(text)) # <<>>
          BY <1>5, <2>1 DEF Zeros
        <4> QED
          BY <1>3, <1>4, <4>1, ConcatSimplifications
      <3> QED
        BY <3>1, <3>2
    <2> QED
      BY <2>1
  <1>7. data = digits
    <2>1. Zeros(0) \o digits = digits
      BY <1>3, ZerosBefore, 0 \in Nat
    <2> QED
      BY <1>4, <1>6, <2>1
  <1> HIDE DEF data
  <1>8. LeadingZeros(data) = 0
    BY <1>3, <1>7, LeadingZerosOf DEF data
  <1>9. FromDigits(Byte, data) = N
    BY <1>1, <1>2, <1>7, DigitsOfNumber DEF digits
  <1>10. ToDigits(Base, N) = text
    BY <1>1, <1>5, <1>6, LeadingZerosOf, NumberOfDigits DEF N
  <1>11. text \in Seq(Nat)
    BY <1>1, SeqMonotonic, 0 .. Base - 1 \subseteq Nat
  <1>12. _b58encode(data) = text
    <2>1. Zeros(0) \o text = text
      BY <1>11, ZerosBefore, 0 \in Nat
    <2> QED
      BY <1>8, <1>9, <1>10, <2>1 DEF _b58encode
  <1> QED
    BY <1>3, <1>7, <1>12 DEF data

(* Bytes without leading zeros, and the base58 text that encodes them. *)
LEMMA BytesRoundTrip ==
  ASSUME NEW data \in Seq(0 .. Byte - 1), data # <<>>, data[1] # 0
  PROVE  /\ _b58encode(data) \in Seq(0 .. Base - 1) /\ _b58encode(data) # <<>>
         /\ _b58decode(_b58encode(data)) = data
  <1> DEFINE N == FromDigits(Byte, data)
             text == ToDigits(Base, N)
  <1>1. Base \in Nat \ {0, 1} /\ Byte \in Nat \ {0, 1}
    BY DidAssumption
  <1>2. data \in Seq(Nat)
    BY <1>1, SeqMonotonic, 0 .. Byte - 1 \subseteq Nat
  <1>3. N \in Nat
    BY <1>1, <1>2, FromDigitsAppend
  <1>4. ToDigits(Byte, N) = data
    BY <1>1, NumberOfDigits
  <1> HIDE DEF N
  <1>5. N # 0
    BY <1>1, <1>4, ToDigitsDef
  <1>6. text \in Seq(0 .. Base - 1) /\ text # <<>> /\ text[1] # 0
    BY <1>1, <1>3, <1>5, ToDigitsDef, NoZeroLeads
  <1>7. FromDigits(Base, text) = N
    BY <1>1, <1>3, DigitsOfNumber
  <1> HIDE DEF text
  <1>8. text \in Seq(Nat)
    BY <1>1, <1>6, SeqMonotonic, 0 .. Base - 1 \subseteq Nat
  <1>9. LeadingZeros(data) = 0 /\ LeadingZeros(text) = 0
    BY <1>2, <1>6, <1>8, LeadingZerosOf
  <1>10. Zeros(0) \o text = text /\ Zeros(0) \o data = data
    BY <1>2, <1>8, ZerosBefore, 0 \in Nat
  <1>11. _b58encode(data) = text
    BY <1>9, <1>10 DEF _b58encode, N, text
  <1>12. _b58decode(text) = data
    BY <1>4, <1>7, <1>9, <1>10 DEF _b58decode
  <1> QED
    BY <1>6, <1>11, <1>12

(* A did:key string the validator lets through is the only one of its key:   *)
(* encoding the key gives it back.                                           *)
LEMMA EncodingIsCanonical ==
  ASSUME NEW did \in Dids, decode_did_key(did).error = "none"
  PROVE  encode_did_key(decode_did_key(did).key) = did
  <1> DEFINE text == did.text
             data == _b58decode(text)
             n == Len(ED25519_MULTICODEC)
             key == SubSeq(data, n + 1, n + KEY_LENGTH)
  <1>1. did = [scheme |-> did.scheme, text |-> text]
        /\ text \in Seq({NotAscii, BadLetter} \cup 0 .. Base - 1)
    BY DEF Dids
  <1>2. /\ did.scheme = "did:key:z" /\ text # <<>>
        /\ NotAscii \notin ToSet(text) /\ BadLetter \notin ToSet(text)
        /\ IsPrefix(ED25519_MULTICODEC, data)
        /\ Len(data) = n + KEY_LENGTH
        /\ decode_did_key(did).key = key
    <2> HIDE DEF data, key
    <2>1. /\ ~(did.scheme # "did:key:z" \/ text = <<>>)
          /\ NotAscii \notin ToSet(text) /\ BadLetter \notin ToSet(text)
      BY DEF decode_did_key, NoKey
    <2>2. decode_did_key(did) =
            IF IsPrefix(ED25519_MULTICODEC, data) /\ Len(data) = n + KEY_LENGTH
            THEN [error |-> "none", key |-> key] ELSE NoKey("DidKeyError")
      BY <2>1 DEF decode_did_key, data, key
    <2> QED
      BY <2>1, <2>2 DEF NoKey
  <1>3. text \in Seq(0 .. Base - 1)
    <2>1. \A i \in 1 .. Len(text) : text[i] \in ToSet(text)
      BY <1>1, LenProperties DEF ToSet
    <2> DEFINE S == {NotAscii, BadLetter} \cup 0 .. Base - 1
    <2> HIDE DEF text
    <2>2. ASSUME NEW i \in 1 .. Len(text) PROVE text[i] \in 0 .. Base - 1
      <3>1. text[i] \in S
        BY <1>1, ElementOfSeq
      <3>2. text[i] # NotAscii /\ text[i] # BadLetter
        BY <1>2, <2>1
      <3> QED
        BY <3>1, <3>2
    <2>3. Len(text) \in Nat /\ text = [i \in 1 .. Len(text) |-> text[i]]
      <3> HIDE DEF S
      <3> QED
        BY <1>1, LenProperties
    <2>4. text \in [1 .. Len(text) -> 0 .. Base - 1]
      BY <2>2, <2>3
    <2> QED
      BY <2>3, <2>4, SeqDef
  <1> HIDE DEF text, key
  <1>4. /\ n \in Nat \ {0} /\ KEY_LENGTH \in Nat
        /\ ED25519_MULTICODEC \in Seq(0 .. Byte - 1) /\ ED25519_MULTICODEC[1] # 0
    BY DidAssumption
  <1>5. data \in Seq(Nat)
    <2>1. Base \in Nat /\ Byte \in Nat \ {0, 1}
      BY DidAssumption
    <2>2. text \in Seq(Nat)
      BY <1>3, <2>1, SeqMonotonic, 0 .. Base - 1 \subseteq Nat
    <2>3. FromDigits(Base, text) \in Nat
      BY <2>1, <2>2, FromDigitsAppend
    <2>4. ToDigits(Byte, FromDigits(Base, text)) \in Seq(0 .. Byte - 1)
      BY <2>1, <2>3, ToDigitsDef
    <2>5. ToDigits(Byte, FromDigits(Base, text)) \in Seq(Nat)
      BY <2>1, <2>4, SeqMonotonic, 0 .. Byte - 1 \subseteq Nat
    <2> QED
      BY <1>3, <2>5, LeadingZerosOf, ZerosBefore DEF _b58decode
  <1> HIDE DEF data
  <1>6. data = ED25519_MULTICODEC \o key /\ data[1] # 0
    <2> HIDE DEF n
    <2>1. SubSeq(data, 1, n) = ED25519_MULTICODEC
      <3>1. SubSeq(ED25519_MULTICODEC, 1, n) = ED25519_MULTICODEC
        BY <1>4, SubSeqFull DEF n
      <3> QED
        BY <1>2, <3>1 DEF IsPrefix, n
    <2>2. SubSeq(data, 1, n) \o SubSeq(data, n + 1, n + KEY_LENGTH)
             = SubSeq(data, 1, n + KEY_LENGTH)
      <3>1. /\ 1 \in 1 .. Len(data) + 1 /\ n \in 1 - 1 .. Len(data)
            /\ n + KEY_LENGTH \in n .. Len(data)
        BY <1>2, <1>4
      <3> QED
        BY <1>5, <3>1, ConcatAdjacentSubSeq
    <2>3. SubSeq(data, 1, n + KEY_LENGTH) = data
      BY <1>2, <1>5, SubSeqFull
    <2>4. data[1] = SubSeq(data, 1, n)[1]
      BY <1>2, <1>4, <1>5
    <2> QED
      BY <1>4, <2>1, <2>2, <2>3, <2>4 DEF key
  <1>7. _b58encode(data) = text
    BY <1>2, <1>3, <1>6, Base58RoundTrip DEF data
  <1> QED
    BY <1>1, <1>2, <1>6, <1>7 DEF encode_did_key

(* Every key has a did: a text of letters that parses, to that key again,    *)
(* whatever zeros the key begins with (did.py, encode_did_key and            *)
(* decode_did_key).                                                          *)
THEOREM KeyIsRecovered ==
  ASSUME NEW key \in Seq(0 .. Byte - 1), Len(key) = KEY_LENGTH
  PROVE  /\ encode_did_key(key).text \in Seq(0 .. Base - 1)
         /\ decode_did_key(encode_did_key(key)) = [error |-> "none", key |-> key]
  <1> DEFINE n == Len(ED25519_MULTICODEC)
             data == ED25519_MULTICODEC \o key
             text == _b58encode(data)
             did == encode_did_key(key)
  <1>1. /\ n \in Nat \ {0} /\ KEY_LENGTH \in Nat \ {0}
        /\ ED25519_MULTICODEC \in Seq(0 .. Byte - 1) /\ ED25519_MULTICODEC[1] # 0
    BY DidAssumption, LenProperties
  <1>2. /\ data \in Seq(0 .. Byte - 1) /\ Len(data) = n + KEY_LENGTH
        /\ \A i \in 1 .. n + KEY_LENGTH :
              data[i] = IF i <= n THEN ED25519_MULTICODEC[i] ELSE key[i - n]
    BY <1>1, ConcatProperties
  <1> HIDE DEF n
  <1>3. data # <<>> /\ data[1] # 0
    <2>1. 1 \in 1 .. n + KEY_LENGTH /\ 1 <= n
      BY <1>1
    <2> HIDE DEF data
    <2> QED
      BY <1>1, <1>2, <2>1
  <1>4. IsPrefix(ED25519_MULTICODEC, data) /\ SubSeq(data, n + 1, n + KEY_LENGTH) = key
    <2>1. SubSeq(data, 1, n) = ED25519_MULTICODEC
      BY <1>1, ConcatSimplifications DEF n
    <2>2. SubSeq(data, n + 1, n + KEY_LENGTH) = key
      BY <1>1, <1>2, SubSeqProperties, LenProperties
    <2>3. SubSeq(ED25519_MULTICODEC, 1, n) = ED25519_MULTICODEC
      BY <1>1, SubSeqFull DEF n
    <2>4. n <= Len(data)
      BY <1>1, <1>2
    <2> QED
      BY <2>1, <2>2, <2>3, <2>4 DEF IsPrefix, n
  <1>5. did = [scheme |-> "did:key:z", text |-> text]
    BY DEF encode_did_key
  <1> HIDE DEF data
  <1>6. text \in Seq(0 .. Base - 1) /\ text # <<>> /\ _b58decode(text) = data
    BY <1>2, <1>3, BytesRoundTrip
  <1> HIDE DEF text, did
  <1>7. NotAscii \notin ToSet(text) /\ BadLetter \notin ToSet(text)
    <2>1. \A i \in 1 .. Len(text) : text[i] \in 0 .. Base - 1
      BY <1>6, ElementOfSeq
    <2>2. DOMAIN text = 1 .. Len(text)
      BY <1>6, LenProperties
    <2> QED
      BY <2>1, <2>2 DEF ToSet, NotAscii, BadLetter
  <1>8. decode_did_key(did) = [error |-> "none", key |-> key]
    <2>1. /\ did.scheme = "did:key:z" /\ did.text = text
      BY <1>5
    <2> QED
      BY <1>2, <1>4, <1>6, <1>7, <2>1 DEF decode_did_key, n
  <1> QED
    BY <1>5, <1>6, <1>8 DEF did

-----------------------------------------------------------------------------
(* The sweep *)

(* What texts, payloads and paths are made of. *)
DigitChars == {"0", "1", "2", "3", "4", "5", "6", "7", "8", "9"}
Symbols == Chars \cup DigitChars \cup {"%"}

(* The first and the last of some positions. *)
LEMMA MinMax ==
  ASSUME NEW n \in Nat, NEW P, P \subseteq 1 .. n, P # {}
  PROVE  /\ Min(P) \in P /\ \A i \in P : Min(P) <= i
         /\ Max(P) \in P /\ \A i \in P : i <= Max(P)
  <1>1. \E x \in P : \A y \in P : x <= y
    <2>1. P \subseteq Nat
      OBVIOUS
    <2> QED
      BY <2>1, LeastElement
  <1>2. \E x \in P : \A y \in P : x >= y
    <2> DEFINE Q == {n - i : i \in P}
    <2>1. PICK q \in Q : \A r \in Q : q <= r
      <3>1. Q \subseteq Nat /\ Q # {}
        <4>1. \A i \in P : n - i \in Nat
          OBVIOUS
        <4> QED
          BY <4>1
      <3> HIDE DEF Q
      <3> QED
        BY <3>1, LeastElement
    <2>2. PICK x \in P : q = n - x
      OBVIOUS
    <2>3. ASSUME NEW y \in P PROVE x >= y
      <3>1. n - x <= n - y
        BY <2>1, <2>2
      <3>2. x \in Nat /\ y \in Nat
        OBVIOUS
      <3> QED
        BY <3>1, <3>2
    <2> QED
      BY <2>3
  <1>3. Min(P) \in P /\ \A i \in P : Min(P) <= i
    BY <1>1 DEF Min
  <1>4. Max(P) \in P /\ \A i \in P : Max(P) >= i
    BY <1>2 DEF Max
  <1>5. P \subseteq Nat
    OBVIOUS
  <1> QED
    BY <1>3, <1>4, <1>5

(* Nothing to strip at either end. *)
Stripped(t) == t # <<>> => t[1] \notin WhiteSpace /\ t[Len(t)] \notin WhiteSpace

LEMMA StripKeepsStripped ==
  ASSUME NEW t \in Seq(Symbols), Stripped(t)
  PROVE  Strip(t) = t
  <1> DEFINE kept == {i \in DOMAIN t : t[i] \notin WhiteSpace}
  <1>1. Len(t) \in Nat /\ DOMAIN t = 1 .. Len(t)
    BY LenProperties
  <1>2. CASE t = <<>>
    <2>1. kept = {}
      BY <1>2
    <2> QED
      BY <1>2, <2>1 DEF Strip
  <1>3. CASE t # <<>>
    <2>1. Len(t) >= 1
      BY <1>3, EmptySeq
    <2>2. 1 \in kept /\ Len(t) \in kept /\ kept \subseteq 1 .. Len(t)
      BY <1>1, <1>3, <2>1 DEF Stripped
    <2> HIDE DEF kept
    <2>3. Min(kept) = 1 /\ Max(kept) = Len(t)
      <3>1. /\ Min(kept) \in kept /\ Min(kept) <= 1
            /\ Max(kept) \in kept /\ Len(t) <= Max(kept)
        BY <1>1, <2>2, MinMax
      <3>2. Min(kept) \in 1 .. Len(t) /\ Max(kept) \in 1 .. Len(t)
        BY <2>2, <3>1
      <3> QED
        BY <1>1, <3>1, <3>2
    <2>4. Strip(t) = SubSeq(t, Min(kept), Max(kept))
      BY <2>2 DEF Strip, kept
    <2> QED
      BY <2>3, <2>4, SubSeqFull
  <1> QED
    BY <1>2, <1>3

LEMMA StripStrips ==
  ASSUME NEW t \in Seq(Symbols)
  PROVE  /\ Strip(t) \in Seq(Symbols)
         /\ Stripped(Strip(t))
         /\ \A i \in DOMAIN Strip(t) : \E j \in DOMAIN t : Strip(t)[i] = t[j]
  <1> DEFINE kept == {i \in DOMAIN t : t[i] \notin WhiteSpace}
             a == Min(kept)
             b == Max(kept)
  <1>1. Len(t) \in Nat /\ DOMAIN t = 1 .. Len(t)
    BY LenProperties
  <1>2. CASE kept = {}
    <2>1. Strip(t) = <<>>
      BY <1>2 DEF Strip
    <2> QED
      BY <2>1 DEF Stripped
  <1>3. CASE kept # {}
    <2>1. a \in kept /\ b \in kept /\ a <= b
      <3>1. kept \subseteq 1 .. Len(t)
        BY <1>1
      <3> HIDE DEF kept
      <3> QED
        BY <1>1, <1>3, <3>1, MinMax
    <2>2. Strip(t) = SubSeq(t, a, b)
      BY <1>3 DEF Strip
    <2>3. a \in 1 .. Len(t) /\ b \in 1 .. Len(t) /\ t[a] \notin WhiteSpace /\ t[b] \notin WhiteSpace
      BY <1>1, <2>1
    <2> HIDE DEF a, b, kept
    <2>4. /\ Strip(t) \in Seq(Symbols) /\ Len(Strip(t)) = b - a + 1
          /\ \A i \in 1 .. b - a + 1 : Strip(t)[i] = t[a + i - 1]
      <3>1. a \in Int /\ b \in Int /\ \A i \in a .. b : t[i] \in Symbols
        BY <1>1, <2>3, ElementOfSeq
      <3> QED
        BY <2>1, <2>2, <3>1, SubSeqProperties
    <2>5. Strip(t)[1] = t[a] /\ Strip(t)[Len(Strip(t))] = t[b]
      <3>1. 1 \in 1 .. b - a + 1 /\ b - a + 1 \in 1 .. b - a + 1
            /\ a + 1 - 1 = a /\ a + (b - a + 1) - 1 = b
        BY <1>1, <2>1, <2>3
      <3> QED
        BY <2>4, <3>1
    <2>6. ASSUME NEW i \in DOMAIN Strip(t)
          PROVE  \E j \in DOMAIN t : Strip(t)[i] = t[j]
      <3>1. i \in 1 .. b - a + 1
        BY <2>4, LenProperties
      <3>2. a + i - 1 \in 1 .. Len(t)
        BY <1>1, <2>3, <3>1
      <3> QED
        BY <1>1, <2>4, <3>1, <3>2
    <2> QED
      BY <2>3, <2>4, <2>5, <2>6 DEF Stripped
  <1> QED
    BY <1>2, <1>3

LEMMA SpacesIs ==
  ASSUME NEW t \in Seq(Symbols)
  PROVE  /\ Spaces(t) \in Seq(Symbols)
         /\ \A i \in DOMAIN Spaces(t) : Spaces(t)[i] \notin SWEEP_CATEGORIES
         /\ (\A i \in DOMAIN t : t[i] \notin SWEEP_CATEGORIES) => Spaces(t) = t
  <1>1. Len(t) \in Nat /\ DOMAIN t = 1 .. Len(t) /\ \A i \in 1 .. Len(t) : t[i] \in Symbols
    BY LenProperties, ElementOfSeq
  <1>2. Spaces(t) \in [1 .. Len(t) -> Symbols]
    <2>1. " " \in Symbols
      BY DEF Symbols, Chars
    <2>2. \A i \in 1 .. Len(t) :
             (IF t[i] \in SWEEP_CATEGORIES THEN " " ELSE t[i]) \in Symbols
      BY <1>1, <2>1
    <2> QED
      BY <1>1, <2>2 DEF Spaces
  <1>3. Spaces(t) \in Seq(Symbols)
    BY <1>1, <1>2, SeqDef
  <1>4. \A i \in DOMAIN Spaces(t) : Spaces(t)[i] \notin SWEEP_CATEGORIES
    BY DEF Spaces, SWEEP_CATEGORIES
  <1>5. t = [i \in DOMAIN t |-> t[i]]
    BY LenProperties
  <1>6. (\A i \in DOMAIN t : t[i] \notin SWEEP_CATEGORIES) => Spaces(t) = t
    BY <1>5 DEF Spaces
  <1> QED
    BY <1>3, <1>4, <1>6

(* The sweep of a swept text is that text: canonical.py:34-36. *)
LEMMA SweepIsIdempotent ==
  ASSUME NEW t \in Seq(Symbols)
  PROVE  /\ single_line_sweep(t) \in Seq(Symbols)
         /\ single_line_sweep(single_line_sweep(t)) = single_line_sweep(t)
  <1> DEFINE u == Spaces(t)
             v == Strip(u)
  <1>1. /\ u \in Seq(Symbols)
        /\ \A i \in DOMAIN u : u[i] \notin SWEEP_CATEGORIES
    BY SpacesIs
  <1> HIDE DEF u
  <1>2. /\ v \in Seq(Symbols) /\ Stripped(v)
        /\ \A i \in DOMAIN v : \E j \in DOMAIN u : v[i] = u[j]
    BY <1>1, StripStrips
  <1> HIDE DEF v
  <1>3. Spaces(v) = v
    <2>1. \A i \in DOMAIN v : v[i] \notin SWEEP_CATEGORIES
      BY <1>1, <1>2
    <2> QED
      BY <1>2, <2>1, SpacesIs
  <1>4. Strip(v) = v
    BY <1>2, StripKeepsStripped
  <1> QED
    BY <1>2, <1>3, <1>4 DEF single_line_sweep, u, v

(* A text that is its own sweep has no newline. *)
LEMMA SweptHasNoNewline ==
  ASSUME NEW t \in Seq(Symbols), single_line_sweep(t) = t
  PROVE  \A i \in 1 .. Len(t) : t[i] # "nl"
  <1> DEFINE u == Spaces(t)
  <1>1. /\ u \in Seq(Symbols)
        /\ \A i \in DOMAIN u : u[i] \notin SWEEP_CATEGORIES
    BY SpacesIs
  <1>2. t = Strip(u)
    BY DEF single_line_sweep
  <1> HIDE DEF u
  <1>3. \A i \in DOMAIN t : \E j \in DOMAIN u : t[i] = u[j]
    BY <1>1, <1>2, StripStrips
  <1>4. \A i \in DOMAIN t : t[i] # "nl"
    BY <1>1, <1>3 DEF SWEEP_CATEGORIES
  <1> QED
    BY <1>4, LenProperties

-----------------------------------------------------------------------------
(* The path *)

Segments == Seq(Symbols)

(* Escaped and unescaped, a text is itself; a slash and a newline are never  *)
(* left as they are, and only dots become a segment of dots.                 *)
LEMMA EncodeSegment ==
  ASSUME NEW t \in Seq(Symbols)
  PROVE  /\ encode_path_segment(t) \in Seq(Segments)
         /\ Len(encode_path_segment(t)) = Len(t)
         /\ \A i \in 1 .. Len(t) :
               /\ encode_path_segment(t)[i] # <<"/">>
               /\ encode_path_segment(t)[i] = <<"%", "nl">> => t[i] = "nl"
         /\ decode_path_segment(encode_path_segment(t)) = t
  <1> DEFINE e == encode_path_segment(t)
  <1>1. Len(t) \in Nat /\ DOMAIN t = 1 .. Len(t) /\ \A i \in 1 .. Len(t) : t[i] \in Symbols
    BY LenProperties, ElementOfSeq
  <1>2. ASSUME NEW i \in 1 .. Len(t)
        PROVE  /\ e[i] \in Segments /\ e[i] # <<"/">> /\ e[i][Len(e[i])] = t[i]
               /\ e[i] = <<"%", "nl">> => t[i] = "nl"
    <2>1. e[i] = IF t[i] \in Unreserved THEN <<t[i]>> ELSE <<"%", t[i]>>
      BY <1>1 DEF encode_path_segment
    <2>2. CASE t[i] \in Unreserved
      BY <1>1, <2>1, <2>2 DEF Unreserved, NameChars, Segments
    <2>3. CASE t[i] \notin Unreserved
      <3>1. "%" \in Symbols
        BY DEF Symbols, Chars
      <3>2. <<"%", t[i]>> \in Segments
        BY <1>1, <3>1 DEF Segments
      <3> QED
        BY <2>1, <2>3, <3>2
    <2> QED
      BY <2>2, <2>3
  <1>3. DOMAIN e = 1 .. Len(t) /\ e = [i \in 1 .. Len(t) |-> e[i]]
    BY <1>1 DEF encode_path_segment
  <1>4. t = [i \in 1 .. Len(t) |-> t[i]]
    BY <1>1, LenProperties
  <1> HIDE DEF e
  <1>5. e \in [1 .. Len(t) -> Segments]
    BY <1>2, <1>3
  <1>6. e \in Seq(Segments) /\ Len(e) = Len(t)
    BY <1>1, <1>5, SeqDef, LenProperties
  <1>7. decode_path_segment(e) = t
    BY <1>2, <1>3, <1>4 DEF decode_path_segment, Last
  <1> QED
    BY <1>2, <1>6, <1>7 DEF e

(* Only dots are encoded as a segment of dots. *)
LEMMA DotsAreDots ==
  ASSUME NEW t \in Seq(Symbols), NEW e, Len(e) = Len(t), decode_path_segment(e) = t,
         DotSegment(e)
  PROVE  t \in Dots
  <1>1. CASE e = << <<".">> >>
    <2>1. Len(e) = 1 /\ DOMAIN e = 1 .. 1 /\ e[1] = <<".">> /\ Last(e[1]) = "."
      BY <1>1 DEF Last
    <2>2. t[1] = "."
      BY <2>1 DEF decode_path_segment
    <2>3. t = <<".">>
      <3>1. Len(t) = 1
        BY <2>1
      <3> QED
        BY <2>2, <3>1
    <2> QED
      BY <2>3 DEF Dots
  <1>2. CASE e = << <<".">>, <<".">> >>
    <2>1. /\ Len(e) = 2 /\ DOMAIN e = 1 .. 2
          /\ e[1] = <<".">> /\ e[2] = <<".">> /\ Last(<<".">>) = "."
      BY <1>2 DEF Last
    <2>2. t[1] = "." /\ t[2] = "."
      BY <2>1 DEF decode_path_segment
    <2>3. t = <<".", ".">>
      <3>1. Len(t) = 2
        BY <2>1
      <3> QED
        BY <2>2, <3>1
    <2> QED
      BY <2>3 DEF Dots
  <1> QED
    BY <1>1, <1>2 DEF DotSegment

FirstSlash(p) == SelectInSeq(p, LAMBDA c : c = <<"/">>)

(* Two segments with a slash between them, and a segment without a slash. *)
Joined(r, t) == r \o << <<"/">> >> \o t
NoSlash(r) == \A i \in 1 .. Len(r) : r[i] # <<"/">>

(* The path of two encoded segments has one slash, where the first ends. *)
LEMMA PathSplits ==
  ASSUME NEW r \in Seq(Segments), NoSlash(r),
         NEW t \in Seq(Segments), NoSlash(t), t # <<>>
  PROVE  /\ \A c \in ToSet(Joined(r, t)) : c = <<"/">> \/ c \in ToSet(r) \/ c \in ToSet(t)
         /\ FirstSlash(Joined(r, t)) = Len(r) + 1
         /\ SubSeq(Joined(r, t), 1, Len(r)) = r
         /\ SubSeq(Joined(r, t), Len(r) + 2, Len(Joined(r, t))) = t
  <1> DEFINE m == Len(r)
             k == Len(t)
             slash == << <<"/">> >>
             q == r \o slash
             p == Joined(r, t)
  <1>1. m \in Nat /\ k \in Nat /\ k >= 1
    BY EmptySeq, LenProperties
  <1>2. slash \in Seq(Segments) /\ Len(slash) = 1 /\ slash[1] = <<"/">>
    <2>1. "/" \in Symbols
      BY DEF Symbols, Chars
    <2>2. <<"/">> \in Segments
      BY <2>1 DEF Segments
    <2> QED
      BY <2>2
  <1> HIDE DEF slash
  <1>3. /\ q \in Seq(Segments) /\ Len(q) = m + 1
        /\ \A i \in 1 .. m + 1 : q[i] = IF i <= m THEN r[i] ELSE slash[i - m]
    <2>1. /\ q \in Seq(Segments) /\ Len(q) = Len(r) + Len(slash)
          /\ \A i \in 1 .. Len(r) + Len(slash) :
                q[i] = IF i <= Len(r) THEN r[i] ELSE slash[i - Len(r)]
      BY <1>2, ConcatProperties
    <2> QED
      BY <1>2, <2>1
  <1>4. p = q \o t
    BY DEF slash, Joined
  <1> HIDE DEF q, p
  <1>5. /\ p \in Seq(Segments) /\ Len(p) = m + 1 + k
        /\ \A i \in 1 .. m + 1 + k : p[i] = IF i <= m + 1 THEN q[i] ELSE t[i - (m + 1)]
    <2>1. /\ p \in Seq(Segments) /\ Len(p) = Len(q) + Len(t)
          /\ \A i \in 1 .. Len(q) + Len(t) :
                p[i] = IF i <= Len(q) THEN q[i] ELSE t[i - Len(q)]
      BY <1>3, <1>4, ConcatProperties
    <2> QED
      BY <1>3, <2>1
  <1>6. \A i \in 1 .. m : p[i] = r[i] /\ r[i] # <<"/">>
    BY <1>1, <1>3, <1>5 DEF NoSlash
  <1>7. p[m + 1] = <<"/">>
    BY <1>1, <1>2, <1>3, <1>5
  <1>8. \A i \in 1 .. k : /\ m + 1 + i \in 1 .. m + 1 + k
                          /\ p[m + 1 + i] = t[i] /\ t[i] # <<"/">>
    <2>1. \A i \in 1 .. k : t[i] # <<"/">>
      BY DEF NoSlash
    <2>2. \A i \in 1 .. k : /\ m + 1 + i \in 1 .. m + 1 + k
                            /\ ~(m + 1 + i <= m + 1) /\ (m + 1 + i) - (m + 1) = i
      BY <1>1
    <2> QED
      BY <1>5, <2>1, <2>2
  <1>9. \A c \in ToSet(p) : c = <<"/">> \/ c \in ToSet(r) \/ c \in ToSet(t)
    <2> SUFFICES ASSUME NEW i \in 1 .. m + 1 + k
                 PROVE  p[i] = <<"/">> \/ p[i] \in ToSet(r) \/ p[i] \in ToSet(t)
      BY <1>5, LenProperties DEF ToSet
    <2>1. CASE i \in 1 .. m
      BY <1>6, <2>1, LenProperties DEF ToSet
    <2>2. CASE i = m + 1
      BY <1>7, <2>2
    <2>3. CASE i \notin 1 .. m + 1
      <3>1. i - (m + 1) \in 1 .. k /\ m + 1 + (i - (m + 1)) = i
        BY <1>1, <2>3
      <3>2. p[i] = t[i - (m + 1)]
        BY <1>8, <3>1
      <3> QED
        BY <3>1, <3>2, LenProperties DEF ToSet
    <2> QED
      BY <1>1, <2>1, <2>2, <2>3
  <1>10. {i \in 1 .. Len(p) : p[i] = <<"/">>} = {m + 1}
    <2>1. ASSUME NEW i \in 1 .. Len(p), p[i] = <<"/">> PROVE i = m + 1
      <3>1. i \in 1 .. m \/ i = m + 1 \/ (i - (m + 1) \in 1 .. k /\ i = m + 1 + (i - (m + 1)))
        BY <1>1, <1>5
      <3>2. i \notin 1 .. m
        BY <1>6, <2>1
      <3>3. i - (m + 1) \in 1 .. k => i # m + 1 + (i - (m + 1))
        BY <1>8, <2>1
      <3> QED
        BY <3>1, <3>2, <3>3
    <2>2. m + 1 \in 1 .. Len(p)
      BY <1>1, <1>5
    <2> QED
      BY <1>7, <2>1, <2>2
  <1>11. FirstSlash(p) = m + 1
    <2>1. Min({m + 1}) = m + 1
      BY <1>1 DEF Min
    <2> QED
      BY <1>10, <2>1 DEF FirstSlash, SelectInSeq
  <1>12. SubSeq(p, 1, m) = r
    <2> DEFINE s == SubSeq(p, 1, m)
    <2>1. \A i \in 1 .. m : p[i] \in Segments
      BY <1>6, ElementOfSeq
    <2>2. s \in Seq(Segments) /\ Len(s) = m /\ \A i \in 1 .. m : s[i] = p[1 + i - 1]
      BY <1>1, <2>1, SubSeqProperties
    <2> HIDE DEF s
    <2>3. \A i \in 1 .. m : s[i] = r[i]
      BY <1>1, <1>6, <2>2
    <2>4. s = r
      BY <2>2, <2>3, SeqEqual
    <2> QED
      BY <2>4 DEF s
  <1>13. SubSeq(p, m + 2, Len(p)) = t
    <2> DEFINE s == SubSeq(p, m + 2, m + 1 + k)
    <2>1. \A i \in m + 2 .. m + 1 + k : p[i] \in Segments
      BY <1>1, <1>5, ElementOfSeq
    <2>2. /\ s \in Seq(Segments) /\ Len(s) = k
          /\ \A i \in 1 .. k : s[i] = p[m + 2 + i - 1]
      <3>1. m + 2 \in Int /\ m + 1 + k \in Int /\ (m + 1 + k) - (m + 2) + 1 = k
            /\ m + 2 <= m + 1 + k
        BY <1>1
      <3> QED
        BY <2>1, <3>1, SubSeqProperties
    <2> HIDE DEF s
    <2>3. \A i \in 1 .. k : s[i] = t[i]
      <3>1. \A i \in 1 .. k : m + 2 + i - 1 = m + 1 + i
        BY <1>1
      <3> QED
        BY <1>8, <2>2, <3>1
    <2>4. s = t
      BY <2>2, <2>3, SeqEqual
    <2> QED
      BY <1>5, <2>4 DEF s
  <1> QED
    BY <1>9, <1>11, <1>12, <1>13 DEF p

-----------------------------------------------------------------------------
(* The payload *)

Digit(d) == <<"0", "1", "2", "3", "4", "5", "6", "7", "8", "9">>[d + 1]

LEMMA DigitIs ==
  /\ \A d \in 0 .. 9 : Digit(d) \in DigitChars
  /\ \A d, e \in 0 .. 9 : Digit(d) = Digit(e) => d = e
  <1>1. \A d \in 0 .. 9 : d = 0 \/ d = 1 \/ d = 2 \/ d = 3 \/ d = 4
                          \/ d = 5 \/ d = 6 \/ d = 7 \/ d = 8 \/ d = 9
    OBVIOUS
  <1>2. /\ Digit(0) = "0" /\ Digit(1) = "1" /\ Digit(2) = "2" /\ Digit(3) = "3"
        /\ Digit(4) = "4" /\ Digit(5) = "5" /\ Digit(6) = "6" /\ Digit(7) = "7"
        /\ Digit(8) = "8" /\ Digit(9) = "9"
    BY DEF Digit
  <1>3. \A d \in 0 .. 9 : Digit(d) \in DigitChars
    BY <1>1, <1>2 DEF DigitChars
  <1>4. ASSUME NEW d \in 0 .. 9, NEW e \in 0 .. 9, Digit(d) = Digit(e) PROVE d = e
    BY <1>1, <1>2, <1>4
  <1> QED
    BY <1>3, <1>4

(* Decimal obeys its own equation. *)
LEMMA DecimalDef ==
  ASSUME NEW n \in Nat
  PROVE  /\ Decimal(n) \in Seq(DigitChars)
         /\ n < 10 => Decimal(n) = <<Digit(n)>>
         /\ n >= 10 => Decimal(n) = Append(Decimal(n \div 10), Digit(n % 10))
  <1> DEFINE S == Seq(DigitChars)
             Z == {m \in Nat : m >= 10}
             prev == [m \in Z |-> m \div 10]
             step == [m \in Z |-> [s \in S |-> Append(s, Digit(m % 10))]]
             start == [m \in Nat |-> IF m < 10 THEN <<Digit(m)>> ELSE <<>>]
             Digits(g) == [m \in Nat |-> IF m < 10 THEN <<Digit(m)>>
                                         ELSE Append(g[m \div 10], Digit(m % 10))]
             digits == CHOOSE g : g = Digits(g)
  <1>1. \A m \in Z : m \div 10 \in Nat /\ m \div 10 < m /\ Digit(m % 10) \in DigitChars
    <2>1. ASSUME NEW m \in Z
          PROVE  m \div 10 \in Nat /\ m \div 10 < m /\ m % 10 \in 0 .. 9
      OBVIOUS
    <2> QED
      BY <2>1, DigitIs
  <1>2. step \in [Z -> [S -> S]]
    <2>1. ASSUME NEW m \in Z, NEW s \in S PROVE Append(s, Digit(m % 10)) \in S
      BY <1>1, AppendProperties
    <2> QED
      BY <2>1
  <1>3. start \in [Nat -> S]
    <2>1. ASSUME NEW m \in Nat, m < 10 PROVE <<Digit(m)>> \in S
      <3>1. Digit(m) \in DigitChars
        BY <2>1, DigitIs
      <3> QED
        BY <3>1
    <2>2. <<>> \in S
      OBVIOUS
    <2> QED
      BY <2>1, <2>2
  <1>4. PICK f \in [Nat -> S] : Obeys(f, Nat, Z, prev, step, start)
    <2>1. /\ prev \in [Z -> Nat] /\ Z \subseteq Nat
          /\ \A m \in Z : prev[m] < m
      BY <1>1
    <2> HIDE DEF S, Z, prev, step, start
    <2> QED
      BY <1>2, <1>3, <2>1, Recursion
  <1>5. f = Digits(f)
    <2>1. ASSUME NEW m \in Nat
          PROVE  f[m] = IF m < 10 THEN <<Digit(m)>>
                        ELSE Append(f[m \div 10], Digit(m % 10))
      <3>1. f[m] = IF m \in Z THEN step[m][f[prev[m]]] ELSE start[m]
        BY <1>4 DEF Obeys
      <3>2. CASE m < 10
        BY <3>1, <3>2
      <3>3. CASE ~(m < 10)
        <4>1. m \in Z /\ prev[m] = m \div 10 /\ m \div 10 \in Nat
          BY <1>1, <3>3
        <4>2. f[prev[m]] \in S
          BY <1>4, <4>1
        <4>3. step[m][f[prev[m]]] = Append(f[prev[m]], Digit(m % 10))
          BY <4>1, <4>2
        <4> QED
          BY <3>1, <3>3, <4>1, <4>3
      <3> QED
        BY <3>2, <3>3
    <2> QED
      BY <2>1
  <1>6. digits = Digits(digits)
    <2> HIDE DEF Digits
    <2> QED
      BY <1>5
  <1>7. \A m \in Nat : Decimal(m) = digits[m]
    BY DEF Decimal, Digit
  <1> HIDE DEF digits
  <1>8. \A m \in Nat : digits[m] = IF m < 10 THEN <<Digit(m)>>
                                   ELSE Append(digits[m \div 10], Digit(m % 10))
    BY <1>6
  <1>9. \A m \in Nat : digits[m] \in S
    <2> DEFINE Wrong == {m \in Nat : digits[m] \notin S}
    <2>1. ASSUME Wrong # {} PROVE FALSE
      <3>1. PICK m \in Wrong : \A k \in Wrong : m <= k
        BY <2>1, LeastElement
      <3>2. CASE m < 10
        <4>1. digits[m] = start[m]
          BY <1>8, <3>2
        <4> HIDE DEF start
        <4>2. start[m] \in S
          BY <1>3
        <4> QED
          BY <4>1, <4>2
      <3>3. CASE ~(m < 10)
        <4> DEFINE k == m \div 10
        <4>1. m \in Z
          BY <3>3
        <4>2. k \in Nat /\ k < m /\ Digit(m % 10) \in DigitChars
          BY <1>1, <4>1
        <4>3. digits[m] = Append(digits[k], Digit(m % 10))
          BY <1>8, <3>3
        <4> HIDE DEF k
        <4>4. ~(m <= k)
          BY <4>2
        <4>5. k \notin Wrong
          BY <3>1, <4>4
        <4>6. digits[k] \in S
          BY <4>2, <4>5
        <4>7. digits[m] \in S
          BY <4>2, <4>3, <4>6, AppendProperties
        <4> QED
          BY <4>7
      <3> QED
        BY <3>2, <3>3
    <2> QED
      BY <2>1
  <1>10. n >= 10 => n \div 10 \in Nat /\ ~(n < 10)
    BY <1>1
  <1>11. n >= 10 => digits[n] = Append(digits[n \div 10], Digit(n % 10))
    BY <1>8, <1>10
  <1>12. n < 10 => digits[n] = <<Digit(n)>>
    BY <1>8
  <1> HIDE DEF S
  <1> QED
    BY <1>7, <1>9, <1>10, <1>11, <1>12 DEF S

(* No two nonces read the same. *)
LEMMA DecimalIsInjective ==
  ASSUME NEW n \in Nat, NEW m \in Nat, Decimal(n) = Decimal(m)
  PROVE  n = m
  <1> DEFINE Wrong == {k \in Nat : \E l \in Nat : Decimal(k) = Decimal(l) /\ k # l}
  <1>1. \A k \in Nat : /\ k < 10 => Len(Decimal(k)) = 1
                       /\ k >= 10 => Len(Decimal(k)) > 1
    <2>1. ASSUME NEW k \in Nat, k < 10 PROVE Len(Decimal(k)) = 1
      BY <2>1, DecimalDef
    <2>2. ASSUME NEW k \in Nat, k >= 10 PROVE Len(Decimal(k)) > 1
      <3> DEFINE q == k \div 10
      <3>1. /\ q \in Nat /\ k % 10 \in 0 .. 9
            /\ Decimal(k) = Append(Decimal(q), Digit(k % 10))
        <4>1. q \in Nat /\ k % 10 \in 0 .. 9
          OBVIOUS
        <4>2. Decimal(k) = Append(Decimal(q), Digit(k % 10))
          BY <2>2, DecimalDef
        <4> QED
          BY <4>1, <4>2
      <3> HIDE DEF q
      <3>2. Decimal(q) \in Seq(DigitChars) /\ Digit(k % 10) \in DigitChars
        BY <3>1, DecimalDef, DigitIs
      <3>3. Decimal(q) # <<>>
        <4>1. CASE q < 10
          BY <3>1, <4>1, DecimalDef
        <4>2. CASE q >= 10
          <5>1. q \div 10 \in Nat /\ q % 10 \in 0 .. 9
            BY <3>1
          <5>2. Decimal(q) = Append(Decimal(q \div 10), Digit(q % 10))
            BY <3>1, <4>2, DecimalDef
          <5>3. Decimal(q \div 10) \in Seq(DigitChars) /\ Digit(q % 10) \in DigitChars
            BY <5>1, DecimalDef, DigitIs
          <5> QED
            BY <5>2, <5>3, AppendProperties
        <4> QED
          BY <3>1, <4>1, <4>2
      <3>4. Len(Decimal(q)) >= 1
        BY <3>2, <3>3, EmptySeq
      <3>5. Len(Decimal(k)) = Len(Decimal(q)) + 1
        BY <3>1, <3>2, AppendProperties
      <3> QED
        BY <3>2, <3>4, <3>5, LenProperties
    <2> QED
      BY <2>1, <2>2
  <1>2. ASSUME Wrong # {} PROVE FALSE
    <2>1. PICK k \in Wrong : \A l \in Wrong : k <= l
      BY <1>2, LeastElement
    <2>2. PICK l \in Nat : Decimal(k) = Decimal(l) /\ k # l
      OBVIOUS
    <2>3. k \in Nat
      OBVIOUS
    <2> HIDE DEF Wrong
    <2>4. CASE k < 10
      <3>1. k \in 0 .. 9 /\ l \in 0 .. 9 /\ l < 10
        <4>1. Len(Decimal(l)) = 1
          BY <1>1, <2>2, <2>3, <2>4
        <4>2. ASSUME l >= 10 PROVE FALSE
          <5>1. Len(Decimal(l)) > 1
            BY <1>1, <4>2
          <5> QED
            BY <4>1, <5>1
        <4> QED
          BY <2>3, <2>4, <4>2
      <3>2. Decimal(k) = <<Digit(k)>> /\ Decimal(l) = <<Digit(l)>>
        BY <2>3, <2>4, <3>1, DecimalDef
      <3>3. Digit(k) = Digit(l)
        <4>1. <<Digit(k)>>[1] = <<Digit(l)>>[1]
          BY <2>2, <3>2
        <4> QED
          BY <4>1
      <3> QED
        BY <2>2, <3>1, <3>3, DigitIs
    <2>5. CASE k >= 10
      <3>1. l >= 10
        <4>1. Len(Decimal(l)) > 1
          BY <1>1, <2>2, <2>3, <2>5
        <4>2. ASSUME l < 10 PROVE FALSE
          <5>1. Len(Decimal(l)) = 1
            BY <1>1, <4>2
          <5> QED
            BY <4>1, <5>1
        <4> QED
          BY <4>2
      <3> DEFINE kq == k \div 10
                 lq == l \div 10
                 kr == k % 10
                 lr == l % 10
      <3>2. /\ kq \in Nat /\ lq \in Nat /\ kr \in 0 .. 9 /\ lr \in 0 .. 9
            /\ k = kq * 10 + kr /\ l = lq * 10 + lr /\ kq < k
        BY <2>3, <2>5
      <3>3. /\ Decimal(k) = Append(Decimal(kq), Digit(kr))
            /\ Decimal(l) = Append(Decimal(lq), Digit(lr))
        BY <2>3, <2>5, <3>1, DecimalDef
      <3> HIDE DEF kq, lq, kr, lr
      <3>4. /\ Decimal(kq) \in Seq(DigitChars) /\ Decimal(lq) \in Seq(DigitChars)
            /\ Digit(kr) \in DigitChars /\ Digit(lr) \in DigitChars
        BY <3>2, DecimalDef, DigitIs
      <3>5. Decimal(kq) = Decimal(lq) /\ Digit(kr) = Digit(lr)
        <4>1. Append(Decimal(kq), Digit(kr)) = Append(Decimal(lq), Digit(lr))
          BY <2>2, <3>3
        <4> QED
          BY <3>4, <4>1, AppendInjective
      <3>6. kq \notin Wrong
        BY <2>1, <3>2 DEF Wrong
      <3>7. kq = lq /\ kr = lr
        BY <3>2, <3>5, <3>6, DigitIs DEF Wrong
      <3> QED
        BY <2>2, <3>2, <3>7
    <2> QED
      BY <2>3, <2>4, <2>5
  <1> QED
    BY <1>2

(* A text without a separator, one, and anything: there is one reading. *)
LEMMA FirstBar ==
  ASSUME NEW r \in Seq(Symbols), NEW s \in Seq(Symbols),
         NEW t \in Seq(Symbols), NEW u \in Seq(Symbols),
         "|" \notin ToSet(r), "|" \notin ToSet(s),
         r \o (<<"|">> \o t) = s \o (<<"|">> \o u)
  PROVE  r = s /\ t = u
  <1> DEFINE x == <<"|">> \o t
             y == <<"|">> \o u
             p == r \o x
  <1>1. <<"|">> \in Seq(Symbols) /\ Len(<<"|">>) = 1
    <2>1. "|" \in Symbols
      BY DEF Symbols, Chars
    <2> QED
      BY <2>1
  <1>2. x \in Seq(Symbols) /\ Len(x) >= 1 /\ x[1] = "|"
    <2>1. /\ x \in Seq(Symbols) /\ Len(x) = 1 + Len(t) /\ Len(t) \in Nat
          /\ \A i \in 1 .. 1 + Len(t) : x[i] = IF i <= 1 THEN <<"|">>[i] ELSE t[i - 1]
      BY <1>1, ConcatProperties
    <2> QED
      BY <2>1
  <1>3. y \in Seq(Symbols) /\ Len(y) >= 1 /\ y[1] = "|"
    <2>1. /\ y \in Seq(Symbols) /\ Len(y) = 1 + Len(u) /\ Len(u) \in Nat
          /\ \A i \in 1 .. 1 + Len(u) : y[i] = IF i <= 1 THEN <<"|">>[i] ELSE u[i - 1]
      BY <1>1, ConcatProperties
    <2> QED
      BY <2>1
  <1>4. r \o x = s \o y
    OBVIOUS
  <1> HIDE DEF x, y
  <1>5. /\ Len(p) = Len(r) + Len(x) /\ Len(r) \in Nat /\ Len(x) \in Nat
        /\ \A i \in 1 .. Len(r) + Len(x) : p[i] = IF i <= Len(r) THEN r[i] ELSE x[i - Len(r)]
    BY <1>2, ConcatProperties, LenProperties
  <1>6. /\ Len(p) = Len(s) + Len(y) /\ Len(s) \in Nat /\ Len(y) \in Nat
        /\ \A i \in 1 .. Len(s) + Len(y) : p[i] = IF i <= Len(s) THEN s[i] ELSE y[i - Len(s)]
    BY <1>3, <1>4, ConcatProperties, LenProperties
  <1> HIDE DEF p
  <1>7. /\ \A i \in 1 .. Len(r) : p[i] = r[i] /\ r[i] # "|"
        /\ \A i \in 1 .. Len(s) : p[i] = s[i] /\ s[i] # "|"
    <2>1. ASSUME NEW i \in 1 .. Len(r) PROVE p[i] = r[i] /\ r[i] # "|"
      <3>1. r[i] \in ToSet(r)
        BY LenProperties DEF ToSet
      <3>2. i \in 1 .. Len(r) + Len(x) /\ i <= Len(r)
        BY <1>5
      <3> QED
        BY <1>5, <3>1, <3>2
    <2>2. ASSUME NEW i \in 1 .. Len(s) PROVE p[i] = s[i] /\ s[i] # "|"
      <3>1. s[i] \in ToSet(s)
        BY LenProperties DEF ToSet
      <3>2. i \in 1 .. Len(s) + Len(y) /\ i <= Len(s)
        BY <1>6
      <3> QED
        BY <1>6, <3>1, <3>2
    <2> QED
      BY <2>1, <2>2
  <1>8. p[Len(r) + 1] = "|" /\ p[Len(s) + 1] = "|"
    <2>1. /\ Len(r) + 1 \in 1 .. Len(r) + Len(x) /\ ~(Len(r) + 1 <= Len(r))
          /\ Len(r) + 1 - Len(r) = 1
      BY <1>2, <1>5
    <2>2. /\ Len(s) + 1 \in 1 .. Len(s) + Len(y) /\ ~(Len(s) + 1 <= Len(s))
          /\ Len(s) + 1 - Len(s) = 1
      BY <1>3, <1>6
    <2>3. p[Len(r) + 1] = x[1]
      BY <1>5, <2>1
    <2>4. p[Len(s) + 1] = y[1]
      BY <1>6, <2>2
    <2> QED
      BY <1>2, <1>3, <2>3, <2>4
  <1>9. Len(r) = Len(s)
    <2>1. ~(Len(r) < Len(s))
      <3>1. Len(r) < Len(s) => Len(r) + 1 \in 1 .. Len(s)
        BY <1>5, <1>6
      <3> QED
        BY <1>7, <1>8, <3>1
    <2>2. ~(Len(s) < Len(r))
      <3>1. Len(s) < Len(r) => Len(s) + 1 \in 1 .. Len(r)
        BY <1>5, <1>6
      <3> QED
        BY <1>7, <1>8, <3>1
    <2> QED
      BY <1>5, <1>6, <2>1, <2>2
  <1>10. r = s
    BY <1>7, <1>9, SeqEqual
  <1>11. x = y
    BY <1>2, <1>3, <1>4, <1>10, ConcatSimplifications
  <1>12. t = u
    BY <1>1, <1>11, ConcatSimplifications DEF x, y
  <1> QED
    BY <1>10, <1>12

-----------------------------------------------------------------------------
(* From a keystore to a capability *)

(* A call in progress, by its fields. *)
Fields == {"at", "passphrase", "allow_notes", "override", "expected", "key"}

(* The did a call expects is the one configured, and it has been parsed. *)
ExpectsConfigured ==
    /\ call.expected \in Dids
    /\ decode_did_key(call.expected).error = "none"
    /\ call.expected = IF call.override = NoOverride THEN ROOT_AGENT ELSE call.override

CallInv == call.at # "idle" =>
              /\ DOMAIN call = Fields
              /\ call.at # "settings" => ExpectsConfigured

CapabilityInv == capability.held => capability.did \in Dids

WiringInv == CallInv /\ CapabilityInv /\ CapabilityMatchesDid /\ DidsUnambiguous

Ambiguous == "DidMismatchError: ambiguous"

(* A decoded did has two fields. *)
LEMMA DecodeIsRecord ==
  ASSUME NEW did
  PROVE  decode_did_key(did) = [error |-> decode_did_key(did).error,
                                key   |-> decode_did_key(did).key]
  BY DEF decode_did_key, NoKey

LEMMA DecodeErrors ==
  ASSUME NEW did
  PROVE  decode_did_key(did).error \in {"none", "DidKeyError", "UnicodeEncodeError"}
  BY DEF decode_did_key, NoKey

(* settings.load: what it expects parses, whether or not it was overridden. *)
LEMMA ExpectedParses ==
  ASSUME NEW override \in Overrides \cup {NoOverride},
         ExpectedDid(override).error = "none"
  PROVE  /\ ExpectedDid(override).did \in Dids
         /\ decode_did_key(ExpectedDid(override).did).error = "none"
         /\ ExpectedDid(override).did =
               IF override = NoOverride THEN ROOT_AGENT ELSE override
  <1>1. CASE override = NoOverride
    BY <1>1, RootAssumption DEF ExpectedDid
  <1>2. CASE override # NoOverride
    <2> DEFINE parsed == decode_did_key(override)
    <2>1. /\ ExpectedDid(override).did = override
          /\ ExpectedDid(override).error =
                IF parsed.error = "DidKeyError" THEN "ConfigError" ELSE parsed.error
      BY <1>2 DEF ExpectedDid
    <2>2. override \in Dids
      BY <1>2, RootAssumption
    <2> QED
      BY <1>2, <2>1, <2>2
  <1> QED
    BY <1>1, <1>2

(* The call ended without a capability. *)
LEMMA RefusalKeeps ==
  ASSUME WiringInv, NEW how, how # Ambiguous, Refuse(how)
  PROVE  WiringInv'
  <1>1. call' = NoCall /\ outcome' = how /\ capability' = capability
    BY DEF Refuse, EndCall
  <1>2. CallInv'
    BY <1>1 DEF CallInv, NoCall
  <1>3. CapabilityInv' /\ CapabilityMatchesDid'
    BY <1>1 DEF WiringInv, CapabilityInv, CapabilityMatchesDid
  <1>4. DidsUnambiguous'
    BY <1>1 DEF DidsUnambiguous, Ambiguous
  <1> QED
    BY <1>2, <1>3, <1>4 DEF WiringInv

(* A step that keeps what the call expects and the capability. *)
LEMMA ExpectationLasts ==
  ASSUME WiringInv, call.at \notin {"idle", "settings"},
         NEW stage, NEW key, call' = [call EXCEPT !.at = stage, !.key = key],
         UNCHANGED <<capability, outcome>>
  PROVE  WiringInv'
  <1>1. DOMAIN call = Fields /\ ExpectsConfigured
    BY DEF WiringInv, CallInv
  <1>2. /\ DOMAIN call' = Fields
        /\ call'.expected = call.expected /\ call'.override = call.override
    BY <1>1 DEF Fields
  <1>3. ExpectsConfigured'
    BY <1>1, <1>2 DEF ExpectsConfigured
  <1>4. CapabilityInv' /\ CapabilityMatchesDid' /\ DidsUnambiguous'
    BY DEF WiringInv, CapabilityInv, CapabilityMatchesDid, DidsUnambiguous
  <1> QED
    BY <1>2, <1>3, <1>4 DEF WiringInv, CallInv

(* A look at the path goes on or refuses. *)
LEMMA CheckKeeps ==
  ASSUME WiringInv, NEW stage, stage # "idle", stage # "settings",
         NEW ok, NEW next, NEW refusal, refusal # Ambiguous, Check(stage, ok, next, refusal)
  PROVE  WiringInv'
  <1>1. CASE ok
    <2>1. /\ call.at = stage /\ call' = [call EXCEPT !.at = next]
          /\ UNCHANGED <<capability, outcome>>
      BY <1>1 DEF Check, OnTo
    <2>2. DOMAIN call = Fields
      BY <2>1 DEF WiringInv, CallInv
    <2>3. call' = [call EXCEPT !.at = next, !.key = call.key]
      BY <2>1, <2>2 DEF Fields
    <2> QED
      BY <2>1, <2>3, ExpectationLasts
  <1>2. CASE ~ok
    BY <1>2, RefusalKeeps DEF Check
  <1> QED
    BY <1>1, <1>2

LEMMA LoadSettingsKeeps ==
  ASSUME WiringInv, NEW env \in Environs, LoadSettings(env)
  PROVE  WiringInv'
  <1> DEFINE root == ExpectedDid(env.override)
  <1>1. \/ \E how : how # Ambiguous /\ Refuse(how)
        \/ /\ root.error = "none"
           /\ call' = [call EXCEPT !.at = "inside", !.expected = root.did,
                                   !.override = env.override]
           /\ UNCHANGED <<capability, outcome>>
    <2>1. root.error # Ambiguous
      BY DecodeErrors DEF ExpectedDid, Ambiguous
    <2>2. "ConfigError" # Ambiguous
      BY DEF Ambiguous
    <2> HIDE DEF root
    <2>3. \/ Refuse("ConfigError") \/ Refuse(root.error)
          \/ /\ root.error = "none"
             /\ call' = [call EXCEPT !.at = "inside", !.expected = root.did,
                                     !.override = env.override]
             /\ UNCHANGED <<capability, outcome>>
      BY DEF LoadSettings, root
    <2> QED
      BY <2>1, <2>2, <2>3
  <1>2. CASE \E how : how # Ambiguous /\ Refuse(how)
    BY <1>2, RefusalKeeps
  <1>3. CASE /\ root.error = "none"
             /\ call' = [call EXCEPT !.at = "inside", !.expected = root.did,
                                     !.override = env.override]
             /\ UNCHANGED <<capability, outcome>>
    <2>1. DOMAIN call = Fields
      BY DEF LoadSettings, WiringInv, CallInv
    <2>2. /\ DOMAIN call' = Fields /\ call'.at = "inside"
          /\ call'.expected = root.did /\ call'.override = env.override
      BY <1>3, <2>1 DEF Fields
    <2>3. ExpectsConfigured'
      <3>1. /\ root.did \in Dids /\ decode_did_key(root.did).error = "none"
            /\ root.did = IF env.override = NoOverride THEN ROOT_AGENT ELSE env.override
        <4>1. env.override \in Overrides \cup {NoOverride}
          BY DEF Environs
        <4> QED
          BY <1>3, <4>1, ExpectedParses
      <3> HIDE DEF root
      <3> QED
        BY <2>2, <3>1 DEF ExpectsConfigured
    <2>4. CapabilityInv' /\ CapabilityMatchesDid' /\ DidsUnambiguous'
      BY <1>3 DEF WiringInv, CapabilityInv, CapabilityMatchesDid, DidsUnambiguous
    <2> QED
      BY <2>2, <2>3, <2>4 DEF WiringInv, CallInv
  <1> QED
    BY <1>1, <1>2, <1>3

(* assert_key_matches_did: what it lets through is the configured pair, and   *)
(* it never finds a second name of a key.                                    *)
LEMMA MatchKeeps ==
  ASSUME WiringInv, Match
  PROVE  WiringInv'
  <1>1. call.at = "match" /\ ExpectsConfigured
    BY DEF Match, WiringInv, CallInv
  <1>2. CASE call.key # decode_did_key(call.expected).key
    <2>1. Refuse("DidMismatchError") /\ "DidMismatchError" # Ambiguous
      BY <1>2 DEF Match, Ambiguous
    <2> QED
      BY <2>1, RefusalKeeps
  <1>3. CASE call.key = decode_did_key(call.expected).key
    <2>1. encode_did_key(call.key) = call.expected
      BY <1>1, <1>3, EncodingIsCanonical DEF ExpectsConfigured
    <2>2. /\ capability' = [held |-> TRUE, key |-> call.key, did |-> call.expected,
                            allow_notes |-> call.allow_notes,
                            configured |-> call.override]
          /\ call' = NoCall /\ outcome' = "granted"
      BY <1>3, <2>1 DEF Match, EndCall
    <2>3. decode_did_key(call.expected) = [error |-> "none", key |-> call.key]
      BY <1>1, <1>3, DecodeIsRecord DEF ExpectsConfigured
    <2>4. /\ capability'.key = call.key /\ capability'.did = call.expected
          /\ capability'.configured = call.override
      BY <2>2
    <2>5. CapabilityInv' /\ CapabilityMatchesDid'
      BY <1>1, <2>3, <2>4 DEF CapabilityInv, CapabilityMatchesDid, ExpectsConfigured
    <2>6. CallInv' /\ DidsUnambiguous'
      BY <2>2 DEF CallInv, NoCall, DidsUnambiguous
    <2> QED
      BY <2>5, <2>6 DEF WiringInv
  <1> QED
    BY <1>2, <1>3

LEMMA WiringKeeps ==
  ASSUME WiringInv, Wiring
  PROVE  WiringInv'
  <1>1. ASSUME NEW enable \in BOOLEAN, NEW passphrase \in Passphrases,
               NEW notes \in BOOLEAN, NEW found \in Stores,
               CallSigner(enable, passphrase, notes, found)
        PROVE  WiringInv'
    <2>1. /\ call'.at = "settings" /\ DOMAIN call' = Fields /\ outcome' = "none"
          /\ UNCHANGED capability
      BY <1>1 DEF CallSigner, Fields
    <2> QED
      BY <2>1 DEF WiringInv, CallInv, CapabilityInv, CapabilityMatchesDid, DidsUnambiguous
  <1>2. ASSUME NEW enable \in BOOLEAN, NEW passphrase \in Passphrases,
               CallRefused(enable, passphrase)
        PROVE  WiringInv'
    <2>1. UNCHANGED <<call, capability>> /\ outcome' \in {"KeystoreError", "KeyNotWiredError"}
      BY <1>2 DEF CallRefused
    <2>2. DidsUnambiguous'
      BY <2>1 DEF DidsUnambiguous
    <2> QED
      BY <2>1, <2>2 DEF WiringInv, CallInv, ExpectsConfigured, CapabilityInv,
                        CapabilityMatchesDid
  <1>3. /\ "KeystoreError" # Ambiguous /\ "KeystorePermissionError" # Ambiguous
        /\ "OSError" # Ambiguous
    BY DEF Ambiguous
  <1>4. CASE Inside \/ Symlink \/ Exists \/ IsFile \/ MeasurePassphrase \/ Parent
    <2>1. CASE Inside
      BY <1>3, <2>1, CheckKeeps, Zenon DEF Inside
    <2>2. CASE Symlink
      BY <1>3, <2>2, CheckKeeps, Zenon DEF Symlink
    <2>3. CASE Exists
      BY <1>3, <2>3, CheckKeeps, Zenon DEF Exists
    <2>4. CASE IsFile
      BY <1>3, <2>4, CheckKeeps, Zenon DEF IsFile
    <2>5. CASE MeasurePassphrase
      BY <1>3, <2>5, CheckKeeps, Zenon DEF MeasurePassphrase
    <2>6. CASE Parent
      BY <1>3, <2>6, CheckKeeps, Zenon DEF Parent
    <2> QED
      BY <1>4, <2>1, <2>2, <2>3, <2>4, <2>5, <2>6
  <1>5. CASE Mode
    <2>1. CASE Check("mode", store.private, "parent", "KeystorePermissionError")
      BY <1>3, <2>1, CheckKeeps, Zenon
    <2>2. CASE Refuse("OSError")
      BY <1>3, <2>2, RefusalKeeps
    <2> QED
      BY <1>5, <2>1, <2>2 DEF Mode
  <1>6. CASE ReadKeystore
    <2>1. CASE Refuse("KeystoreError")
      BY <1>3, <2>1, RefusalKeeps
    <2>2. CASE /\ call' = [call EXCEPT !.at = "match", !.key = store.content.key]
               /\ UNCHANGED <<capability, outcome>>
      BY <1>6, <2>2, ExpectationLasts DEF ReadKeystore
    <2> QED
      BY <1>6, <2>1, <2>2 DEF ReadKeystore
  <1>7. ASSUME NEW found \in Stores, ChangeStore(found)
        PROVE  WiringInv'
    <2>1. UNCHANGED <<call, capability, outcome>>
      BY <1>7 DEF ChangeStore
    <2> QED
      BY <2>1 DEF WiringInv, CallInv, ExpectsConfigured, CapabilityInv,
                  CapabilityMatchesDid, DidsUnambiguous
  <1> QED
    BY <1>1, <1>2, <1>4, <1>5, <1>6, <1>7, LoadSettingsKeeps, MatchKeeps DEF Wiring

LEMMA NextKeepsWiring ==
  ASSUME WiringInv, [Next]_vars
  PROVE  WiringInv'
  <1>1. CASE UNCHANGED wiringVars
    BY <1>1 DEF wiringVars, WiringInv, CallInv, ExpectsConfigured, CapabilityInv,
                CapabilityMatchesDid, DidsUnambiguous
  <1>2. CASE Wiring
    BY <1>2, WiringKeeps
  <1> QED
    BY <1>1, <1>2 DEF Next, vars, SignMessage, SignNote, SendMessage, ReadRoom, Forget

LEMMA WiringStarts == Init => WiringInv
  BY DEF Init, WiringInit, WiringInv, CallInv, CapabilityInv, CapabilityMatchesDid,
         DidsUnambiguous, NoCall, NoCapability

(* The key a program signs with is the key of the did it was configured for, *)
(* whatever was at the keystore path at each of the eight looks, and the     *)
(* capability signs under exactly that did (identity/wiring.py,              *)
(* assert_key_matches_did).                                                  *)
THEOREM KeyIsTheDids == Spec => []CapabilityMatchesDid
  <1>1. WiringInv /\ [Next]_vars => WiringInv'
    BY NextKeepsWiring
  <1>2. WiringInv => CapabilityMatchesDid
    BY DEF WiringInv
  <1> QED
    BY <1>1, <1>2, WiringStarts, PTL DEF Spec

(* The second comparison of assert_key_matches_did never fails: its comment  *)
(* "unreachable while encoding is canonical" (identity/wiring.py:95) is true *)
(* of every base, every prefix that does not begin with a zero byte and      *)
(* every length of key.                                                      *)
THEOREM DidsAreUnambiguous == Spec => []DidsUnambiguous
  <1>1. WiringInv /\ [Next]_vars => WiringInv'
    BY NextKeepsWiring
  <1>2. WiringInv => DidsUnambiguous
    BY DEF WiringInv
  <1> QED
    BY <1>1, <1>2, WiringStarts, PTL DEF Spec

-----------------------------------------------------------------------------
(* The two payloads and their readings *)

LEMMA CharsAreSymbols ==
  ASSUME NEW t \in Seq(Chars)
  PROVE  t \in Seq(Symbols)
  BY SeqMonotonic, Chars \subseteq Symbols DEF Symbols

LEMMA DecimalIsText ==
  ASSUME NEW n \in Nat
  PROVE  /\ Decimal(n) \in Seq(Symbols)
         /\ ToSet(Decimal(n)) \subseteq DigitChars
         /\ "|" \notin ToSet(Decimal(n))
  <1>1. Decimal(n) \in Seq(DigitChars)
    BY DecimalDef
  <1>2. Decimal(n) \in Seq(Symbols)
    BY <1>1, SeqMonotonic, DigitChars \subseteq Symbols DEF Symbols
  <1>3. ToSet(Decimal(n)) \subseteq DigitChars
    BY <1>1, LenProperties, ElementOfSeq DEF ToSet
  <1>4. "|" \notin DigitChars
    BY DEF DigitChars
  <1> QED
    BY <1>2, <1>3, <1>4

(* Two texts with a separator between them. *)
Bar(r, t) == r \o (<<"|">> \o t)

LEMMA BarIsText ==
  ASSUME NEW r \in Seq(Symbols), NEW t \in Seq(Symbols)
  PROVE  Bar(r, t) \in Seq(Symbols) /\ (r \o <<"|">>) \o t = Bar(r, t)
  <1>1. "|" \in Symbols
    BY DEF Symbols, Chars
  <1>2. <<"|">> \in Seq(Symbols)
    BY <1>1
  <1>3. <<"|">> \o t \in Seq(Symbols)
    BY <1>2, ConcatProperties
  <1>4. Bar(r, t) \in Seq(Symbols)
    BY <1>3, ConcatProperties DEF Bar
  <1>5. (r \o <<"|">>) \o t = Bar(r, t)
    BY <1>2, ConcatAssociative DEF Bar
  <1> QED
    BY <1>4, <1>5

(* What is joined from left to right reads from right to left. *)
LEMMA BarsAssociate ==
  ASSUME NEW r \in Seq(Symbols), NEW s \in Seq(Symbols), NEW t \in Seq(Symbols)
  PROVE  Bar(Bar(r, s), t) = Bar(r, Bar(s, t))
  <1> DEFINE x == <<"|">> \o s
             y == <<"|">> \o t
  <1>1. "|" \in Symbols
    BY DEF Symbols, Chars
  <1>2. <<"|">> \in Seq(Symbols)
    BY <1>1
  <1>3. x \in Seq(Symbols) /\ y \in Seq(Symbols)
    BY <1>2, ConcatProperties
  <1>4. x \o y = <<"|">> \o (s \o y)
    <2> HIDE DEF y
    <2> QED
      BY <1>2, <1>3, ConcatAssociative
  <1> HIDE DEF x, y
  <1>5. (r \o x) \o y = r \o (x \o y)
    BY <1>3, ConcatAssociative, SMTT(30)
  <1> QED
    BY <1>4, <1>5 DEF Bar, x, y

(* There is one reading with a first part that holds no separator. *)
LEMMA BarSplits ==
  ASSUME NEW r \in Seq(Symbols), NEW s \in Seq(Symbols),
         NEW t \in Seq(Symbols), NEW u \in Seq(Symbols),
         "|" \notin ToSet(r), "|" \notin ToSet(s), Bar(r, t) = Bar(s, u)
  PROVE  r = s /\ t = u
  BY FirstBar DEF Bar

LEMMA MessagePayloadIs ==
  ASSUME NEW r \in Seq(Symbols), NEW n \in Nat, NEW t \in Seq(Symbols)
  PROVE  /\ message_payload(r, n, t) = Bar(r, Bar(Decimal(n), t))
         /\ message_payload(r, n, t) \in Seq(Symbols)
         /\ Bar(Decimal(n), t) \in Seq(Symbols)
  <1> DEFINE d == Decimal(n)
  <1>1. d \in Seq(Symbols)
    BY DecimalIsText
  <1>2. message_payload(r, n, t) = (((r \o <<"|">>) \o d) \o <<"|">>) \o t
    BY DEF message_payload
  <1> HIDE DEF d
  <1>3. (r \o <<"|">>) \o d = Bar(r, d) /\ Bar(r, d) \in Seq(Symbols)
    BY <1>1, BarIsText
  <1>4. (Bar(r, d) \o <<"|">>) \o t = Bar(Bar(r, d), t)
    BY <1>3, BarIsText
  <1>5. Bar(d, t) \in Seq(Symbols)
    BY <1>1, BarIsText
  <1>6. Bar(Bar(r, d), t) = Bar(r, Bar(d, t))
    BY <1>1, BarsAssociate
  <1>7. Bar(r, Bar(d, t)) \in Seq(Symbols)
    BY <1>5, BarIsText
  <1> QED
    BY <1>2, <1>3, <1>4, <1>5, <1>6, <1>7 DEF d

LEMMA NotePayloadIs ==
  ASSUME NEW r \in Seq(Symbols), NEW k \in Seq(Symbols), NEW n \in Nat,
         NEW t \in Seq(Symbols)
  PROVE  /\ note_payload(r, k, n, t) = Bar(r, Bar(k, Bar(Decimal(n), t)))
         /\ note_payload(r, k, n, t) \in Seq(Symbols)
         /\ Bar(k, Bar(Decimal(n), t)) \in Seq(Symbols)
         /\ Bar(Decimal(n), t) \in Seq(Symbols)
  <1> DEFINE d == Decimal(n)
             p == Bar(r, k)
  <1>1. d \in Seq(Symbols)
    BY DecimalIsText
  <1>2. note_payload(r, k, n, t)
           = (((((r \o <<"|">>) \o k) \o <<"|">>) \o d) \o <<"|">>) \o t
    BY DEF note_payload
  <1> HIDE DEF d
  <1>3. (r \o <<"|">>) \o k = p /\ p \in Seq(Symbols)
    BY BarIsText
  <1> HIDE DEF p
  <1>4. (p \o <<"|">>) \o d = Bar(p, d) /\ Bar(p, d) \in Seq(Symbols)
    BY <1>1, <1>3, BarIsText
  <1>5. (Bar(p, d) \o <<"|">>) \o t = Bar(Bar(p, d), t)
    BY <1>4, BarIsText
  <1>6. Bar(d, t) \in Seq(Symbols) /\ Bar(k, Bar(d, t)) \in Seq(Symbols)
    <2>1. Bar(d, t) \in Seq(Symbols)
      BY <1>1, BarIsText
    <2> QED
      BY <2>1, BarIsText
  <1>7. Bar(Bar(p, d), t) = Bar(p, Bar(d, t))
    BY <1>1, <1>3, BarsAssociate
  <1>8. p = Bar(r, k)
    BY DEF p
  <1>9. Bar(Bar(r, k), Bar(d, t)) = Bar(r, Bar(k, Bar(d, t)))
    BY <1>6, BarsAssociate
  <1>10. Bar(r, Bar(k, Bar(d, t))) \in Seq(Symbols)
    BY <1>6, BarIsText
  <1> QED
    BY <1>2, <1>3, <1>4, <1>5, <1>6, <1>7, <1>8, <1>9, <1>10 DEF d

(* Two messages with the same payload are the same message. *)
LEMMA OneMessage ==
  ASSUME NEW r \in Seq(Symbols), NEW n \in Nat, NEW t \in Seq(Symbols),
         NEW s \in Seq(Symbols), NEW m \in Nat, NEW u \in Seq(Symbols),
         ValidRoom(r), ValidRoom(s),
         message_payload(r, n, t) = message_payload(s, m, u)
  PROVE  r = s /\ n = m /\ t = u
  <1> DEFINE x == Bar(Decimal(n), t)
             y == Bar(Decimal(m), u)
  <1>1. /\ x \in Seq(Symbols) /\ message_payload(r, n, t) = Bar(r, x)
        /\ y \in Seq(Symbols) /\ message_payload(s, m, u) = Bar(s, y)
    BY MessagePayloadIs
  <1>2. "|" \notin ToSet(r) /\ "|" \notin ToSet(s)
    BY DEF ValidRoom
  <1> HIDE DEF x, y
  <1>3. r = s /\ x = y
    BY <1>1, <1>2, BarSplits
  <1>4. Decimal(n) = Decimal(m) /\ t = u
    <2>1. Bar(Decimal(n), t) = Bar(Decimal(m), u)
      BY <1>3 DEF x, y
    <2> QED
      BY <2>1, DecimalIsText, BarSplits
  <1> QED
    BY <1>3, <1>4, DecimalIsInjective

(* A name holds name characters, and perhaps a newline at its end. *)
LEMMA NameHolds ==
  ASSUME NEW name \in Seq(Symbols), ValidName(name)
  PROVE  ToSet(name) \subseteq NameChars \cup {"nl"}
  <1> DEFINE body == IF name # <<>> /\ Last(name) = "nl" THEN Front(name) ELSE name
  <1>1. ToSet(body) \subseteq NameChars
    BY DEF ValidName, NAME_RE
  <1>2. Len(name) \in Nat /\ DOMAIN name = 1 .. Len(name)
    BY LenProperties
  <1>3. CASE name # <<>> /\ Last(name) = "nl"
    <2> DEFINE n == Len(name)
               front == SubSeq(name, 1, n - 1)
    <2>1. /\ front \in Seq(Symbols) /\ Len(front) = n - 1
          /\ \A i \in 1 .. n - 1 : front[i] = name[i]
      <3>1. n >= 1
        BY <1>3, EmptySeq
      <3>2. \A i \in 1 .. n - 1 : name[i] \in Symbols
        BY <1>2, ElementOfSeq
      <3> QED
        BY <1>2, <3>1, <3>2, SubSeqProperties
    <2>2. ToSet(front) \subseteq NameChars
      BY <1>1, <1>3 DEF Front
    <2> HIDE DEF front
    <2>3. \A i \in 1 .. n - 1 : name[i] \in NameChars
      BY <2>1, <2>2, LenProperties DEF ToSet
    <2>4. name[n] = "nl"
      BY <1>3 DEF Last
    <2>5. ASSUME NEW i \in 1 .. n PROVE name[i] \in NameChars \cup {"nl"}
      <3>1. n \in Nat
        BY <1>2
      <3> HIDE DEF n
      <3>2. i \in 1 .. n - 1 \/ i = n
        BY <3>1
      <3> QED
        BY <2>3, <2>4, <3>2
    <2> QED
      BY <1>2, <2>5 DEF ToSet
  <1>4. CASE ~(name # <<>> /\ Last(name) = "nl")
    BY <1>1, <1>4
  <1> QED
    BY <1>3, <1>4

(* A message with the payload of a note: its room is the note's namespace,   *)
(* and its nonce reads as the note's key.                                    *)
LEMMA MessageOfNote ==
  ASSUME NEW r \in Seq(Symbols), NEW n \in Nat, NEW t \in Seq(Symbols),
         NEW s \in Seq(Symbols), NEW k \in Seq(Symbols), NEW m \in Nat,
         NEW u \in Seq(Symbols), ValidRoom(r), ValidName(s), ValidName(k),
         message_payload(r, n, t) = note_payload(s, k, m, u)
  PROVE  r = s /\ ToSet(k) \subseteq {"1"}
  <1> DEFINE x == Bar(Decimal(n), t)
             z == Bar(Decimal(m), u)
             y == Bar(k, z)
  <1>1. /\ x \in Seq(Symbols) /\ message_payload(r, n, t) = Bar(r, x)
        /\ y \in Seq(Symbols) /\ note_payload(s, k, m, u) = Bar(s, y)
        /\ z \in Seq(Symbols)
    BY MessagePayloadIs, NotePayloadIs
  <1>2. "|" \notin ToSet(r) /\ "|" \notin ToSet(s) /\ "|" \notin ToSet(k)
    <2>1. "|" \notin NameChars \cup {"nl"}
      BY DEF NameChars
    <2> QED
      BY <2>1, NameHolds DEF ValidRoom
  <1> HIDE DEF x, y
  <1>3. r = s /\ x = y
    BY <1>1, <1>2, BarSplits
  <1>4. Decimal(n) = k
    <2>1. Bar(Decimal(n), t) = Bar(k, z)
      BY <1>3 DEF x, y
    <2>2. Decimal(n) \in Seq(Symbols) /\ "|" \notin ToSet(Decimal(n))
      BY DecimalIsText
    <2> HIDE DEF z
    <2> QED
      BY <1>1, <1>2, <2>1, <2>2, BarSplits
  <1>5. ToSet(k) \subseteq DigitChars /\ ToSet(k) \subseteq NameChars \cup {"nl"}
    BY <1>4, DecimalIsText, NameHolds
  <1>6. DigitChars \cap (NameChars \cup {"nl"}) \subseteq {"1"}
    BY DEF DigitChars, NameChars
  <1> QED
    BY <1>3, <1>5, <1>6

-----------------------------------------------------------------------------
(* Signing, sending and reading *)

(* A signed message: swept, valid, and signed by the capability. *)
MessageInv ==
    write.kind = "message" =>
        /\ capability.held /\ write.did = capability.did
        /\ write.room \in Seq(Symbols) /\ ValidRoom(write.room)
        /\ write.nonce \in Nat /\ ValidNonce(write.nonce)
        /\ write.text \in Seq(Symbols)
        /\ write.swept_text \in Seq(Symbols) /\ ValidMessage(write.swept_text)
        /\ single_line_sweep(write.swept_text) = write.swept_text
        /\ write.signature = Sign(capability.key,
                message_payload(write.room, write.nonce, write.swept_text))

(* A signed note. *)
NoteInv ==
    write.kind = "note" =>
        /\ capability.held /\ write.did = capability.did
        /\ write.namespace \in Seq(Symbols) /\ ValidName(write.namespace)
        /\ write.key \in Seq(Symbols) /\ ValidName(write.key)
        /\ write.nonce \in Nat
        /\ write.swept_value \in Seq(Symbols)
        /\ write.signature = Sign(capability.key,
                note_payload(write.namespace, write.key, write.nonce, write.swept_value))

(* A message is read only when there is a write to read back, and only a     *)
(* message is answered.                                                      *)
SeenInv == /\ seen.kind = "message" => write.kind \in {"message", "note"}
           /\ service # "none" => write.kind = "message"

Inv == /\ WiringInv
       /\ MessageInv
       /\ NoteInv
       /\ SeenInv
       /\ SignedIsAccepted
       /\ VerifiedIsAuthentic

LEMMA ArgumentsAreTexts ==
  /\ \A t \in Rooms \cup Names \cup Texts : t \in Seq(Symbols)
  /\ \A a \in Arguments(Rooms) \cup Arguments(Names) \cup Arguments(Texts) :
        a.from = "program" => a.chars \in Seq(Symbols)
  <1>1. \A t \in Rooms \cup Names \cup Texts : t \in Seq(Symbols)
    BY ArgumentsAssumption, CharsAreSymbols
  <1>2. ASSUME NEW a \in Arguments(Rooms) \cup Arguments(Names) \cup Arguments(Texts),
               a.from = "program"
        PROVE  a.chars \in Rooms \cup Names \cup Texts
    BY <1>2 DEF Arguments
  <1> QED
    BY <1>1, <1>2

(* CapabilitySigner.sign_technocore_message *)
LEMMA SignMessageKeeps ==
  ASSUME Inv, NEW room \in Arguments(Rooms), NEW nonce \in Nonces,
         NEW text \in Arguments(Texts),
         SignMessage(room, nonce, text)
  PROVE  Inv'
  <1> DEFINE swept == single_line_sweep(text.chars)
             refusal == write'.kind = "refused"
  <1>1. WiringInv'
    BY NextKeepsWiring DEF Inv, Next, Ready, SignMessage
  <1>2. /\ capability.held /\ UNCHANGED <<capability, service, seen>>
        /\ seen.kind # "message" /\ service = "none"
    BY DEF SignMessage, Ready, Inv, SeenInv, wiringVars
  <1>3. SeenInv' /\ SignedIsAccepted' /\ VerifiedIsAuthentic'
    BY <1>2 DEF Inv, SeenInv, SignedIsAccepted, VerifiedIsAuthentic
  <1>4. CASE refusal
    BY <1>1, <1>3, <1>4 DEF Inv, MessageInv, NoteInv
  <1>5. CASE ~refusal
    <2> DEFINE r == room.chars
    <2>1. /\ room.from = "program" /\ text.from = "program"
          /\ ValidRoom(r) /\ ValidNonce(nonce) /\ ValidMessage(swept)
          /\ write' = [kind |-> "message", did |-> capability.did, room |-> r,
                       nonce |-> nonce, text |-> text.chars, swept_text |-> swept,
                       signature |-> Sign(capability.key,
                                          message_payload(r, nonce, swept))]
      BY <1>5 DEF SignMessage, sign_technocore_message, _guard, Refused
    <2>2. /\ text.chars \in Seq(Symbols) /\ r \in Seq(Symbols)
          /\ nonce \in Nat
      BY <2>1, ArgumentsAreTexts, ArgumentsAssumption DEF ValidNonce
    <2>3. swept \in Seq(Symbols) /\ single_line_sweep(swept) = swept
      BY <2>2, SweepIsIdempotent
    <2> HIDE DEF swept, r
    <2>4. /\ write'.kind = "message" /\ write'.did = capability.did
          /\ write'.room = r /\ write'.nonce = nonce
          /\ write'.text = text.chars /\ write'.swept_text = swept
          /\ write'.signature = Sign(capability.key, message_payload(r, nonce, swept))
      BY <2>1
    <2>5. MessageInv' /\ NoteInv'
      BY <1>2, <2>1, <2>2, <2>3, <2>4 DEF MessageInv, NoteInv
    <2> QED
      BY <1>1, <1>3, <2>5 DEF Inv
  <1> QED
    BY <1>4, <1>5

(* CapabilitySigner.sign_technocore_note *)
LEMMA SignNoteKeeps ==
  ASSUME Inv, NEW namespace \in Arguments(Names), NEW key \in Arguments(Names),
         NEW nonce \in Nonces, NEW value \in Arguments(Texts),
         SignNote(namespace, key, nonce, value)
  PROVE  Inv'
  <1> DEFINE swept == single_line_sweep(value.chars)
             refusal == write'.kind = "refused"
  <1>1. WiringInv'
    BY NextKeepsWiring DEF Inv, Next, Ready, SignNote
  <1>2. /\ capability.held /\ UNCHANGED <<capability, service, seen>>
        /\ seen.kind # "message" /\ service = "none"
    BY DEF SignNote, Ready, Inv, SeenInv, wiringVars
  <1>3. SeenInv' /\ SignedIsAccepted' /\ VerifiedIsAuthentic'
    BY <1>2 DEF Inv, SeenInv, SignedIsAccepted, VerifiedIsAuthentic
  <1>4. CASE refusal
    BY <1>1, <1>3, <1>4 DEF Inv, MessageInv, NoteInv
  <1>5. CASE ~refusal
    <2> DEFINE ns == namespace.chars
               k == key.chars
    <2>1. /\ namespace.from = "program" /\ key.from = "program" /\ value.from = "program"
          /\ ValidName(ns) /\ ValidName(k) /\ ValidNonce(nonce)
          /\ write' = [kind |-> "note", did |-> capability.did, namespace |-> ns,
                       key |-> k, nonce |-> nonce, swept_value |-> swept,
                       signature |-> Sign(capability.key,
                                          note_payload(ns, k, nonce, swept))]
      BY <1>5 DEF SignNote, sign_technocore_note, _guard, Refused
    <2>2. /\ value.chars \in Seq(Symbols) /\ ns \in Seq(Symbols)
          /\ k \in Seq(Symbols) /\ nonce \in Nat
      BY <2>1, ArgumentsAreTexts, ArgumentsAssumption DEF ValidNonce
    <2>3. swept \in Seq(Symbols)
      BY <2>2, SweepIsIdempotent
    <2> HIDE DEF swept, ns, k
    <2>4. /\ write'.kind = "note" /\ write'.did = capability.did
          /\ write'.namespace = ns /\ write'.key = k /\ write'.nonce = nonce
          /\ write'.swept_value = swept
          /\ write'.signature = Sign(capability.key, note_payload(ns, k, nonce, swept))
      BY <2>1
    <2>5. MessageInv' /\ NoteInv'
      BY <1>2, <2>1, <2>2, <2>3, <2>4 DEF MessageInv, NoteInv
    <2> QED
      BY <1>1, <1>3, <2>5 DEF Inv
  <1> QED
    BY <1>4, <1>5

(* What the capability signed verifies under its did. *)
LEMMA WriteVerifies ==
  ASSUME Inv, write.kind = "message"
  PROVE  verify(write.did, write.signature,
                message_payload(write.room, write.nonce, write.swept_text))
  <1>1. /\ capability.held /\ write.did = capability.did
        /\ write.signature = Sign(capability.key,
                message_payload(write.room, write.nonce, write.swept_text))
    BY DEF Inv, MessageInv
  <1>2. decode_did_key(capability.did) = [error |-> "none", key |-> capability.key]
    BY <1>1 DEF Inv, WiringInv, CapabilityMatchesDid
  <1> QED
    BY <1>1, <1>2 DEF verify

(* The service reads the room and the text that were sent. *)
LEMMA ServiceAccepts ==
  ASSUME Inv, write.kind = "message", NEW answer \in ServiceAnswers
  PROVE  /\ answer \notin {"fails local verification", "403 bad signature"}
         /\ answer = "404 not found" => write.room \in Dots \/ write.swept_text \in Dots
         /\ answer = "400 room" => ~NAME_RE(write.room)
  <1> DEFINE r == encode_path_segment(write.room)
             t == encode_path_segment(write.swept_text)
             slash == FirstSlash(Path)
             before == SubSeq(Path, 1, slash - 1)
             after == SubSeq(Path, slash + 1, Len(Path))
             room == decode_path_segment(before)
             text == ServiceSweep(decode_path_segment(after))
             lost == \/ slash = 0 \/ <<"/">> \in ToSet(after)
                     \/ <<"%", "nl">> \in ToSet(Path)
                     \/ DotSegment(before) \/ DotSegment(after)
  <1>1. /\ write.room \in Seq(Symbols) /\ write.swept_text \in Seq(Symbols)
        /\ single_line_sweep(write.swept_text) = write.swept_text
        /\ single_line_sweep(write.room) = write.room
        /\ write.swept_text # <<>>
    BY DEF Inv, MessageInv, ValidMessage, ValidRoom
  <1>2. /\ r \in Seq(Segments) /\ Len(r) = Len(write.room)
        /\ \A i \in 1 .. Len(r) : r[i] # <<"/">> /\ r[i] # <<"%", "nl">>
        /\ decode_path_segment(r) = write.room
    BY <1>1, EncodeSegment, SweptHasNoNewline
  <1>3. /\ t \in Seq(Segments) /\ Len(t) = Len(write.swept_text)
        /\ \A i \in 1 .. Len(t) : t[i] # <<"/">> /\ t[i] # <<"%", "nl">>
        /\ decode_path_segment(t) = write.swept_text
    BY <1>1, EncodeSegment, SweptHasNoNewline
  <1>4. t # <<>>
    <2>1. Len(write.swept_text) # 0
      BY <1>1, EmptySeq
    <2> HIDE DEF t
    <2> QED
      BY <1>3, <2>1
  <1>5. Path = r \o << <<"/">> >> \o t
    BY DEF Path
  <1> HIDE DEF r, t
  <1>6. /\ slash = Len(r) + 1
        /\ SubSeq(Path, 1, Len(r)) = r
        /\ SubSeq(Path, Len(r) + 2, Len(Path)) = t
        /\ \A c \in ToSet(Path) : c = <<"/">> \/ c \in ToSet(r) \/ c \in ToSet(t)
    <2>1. /\ r \in Seq(Segments) /\ NoSlash(r)
          /\ t \in Seq(Segments) /\ NoSlash(t) /\ t # <<>>
      BY <1>2, <1>3, <1>4 DEF NoSlash
    <2>2. Path = Joined(r, t)
      BY <1>5 DEF Joined
    <2> QED
      BY ONLY <2>1, <2>2, PathSplits DEF slash
  <1> HIDE DEF slash
  <1>7. Len(r) \in Nat /\ slash - 1 = Len(r) /\ slash + 1 = Len(r) + 2 /\ slash # 0
    BY <1>2, <1>6, LenProperties
  <1>8. before = r /\ after = t
    BY <1>6, <1>7
  <1>9. room = write.room
    BY <1>2, <1>8
  <1>10. text = write.swept_text
    BY <1>1, <1>3, <1>8 DEF ServiceSweep, single_line_sweep
  <1>11. <<"/">> \notin ToSet(t) /\ <<"%", "nl">> \notin ToSet(t)
         /\ <<"%", "nl">> \notin ToSet(r)
    <2>1. ToSet(t) = {t[i] : i \in 1 .. Len(t)} /\ ToSet(r) = {r[i] : i \in 1 .. Len(r)}
      BY <1>2, <1>3, LenProperties DEF ToSet
    <2> QED
      BY <1>2, <1>3, <2>1
  <1>12. lost => write.room \in Dots \/ write.swept_text \in Dots
    <2>1. <<"%", "nl">> # <<"/">>
      OBVIOUS
    <2>2. <<"%", "nl">> \notin ToSet(Path)
      BY <1>6, <1>11, <2>1
    <2>3. lost => DotSegment(r) \/ DotSegment(t)
      BY <1>7, <1>8, <1>11, <2>2
    <2>4. DotSegment(r) => write.room \in Dots
      BY <1>1, <1>2, DotsAreDots
    <2>5. DotSegment(t) => write.swept_text \in Dots
      BY <1>1, <1>3, DotsAreDots
    <2> QED
      BY <2>3, <2>4, <2>5
  <1>13. ServiceAnswers =
           IF lost THEN {"404 not found"}
           ELSE IF ~NAME_RE(room) THEN {"400 room"}
           ELSE IF ~verify(write.did, write.signature,
                           message_payload(room, write.nonce, text))
           THEN {"403 bad signature"}
           ELSE IF write.nonce < 1 THEN {"400 nonce"}
           ELSE {"200 stored", "400 nonce", "422 duplicate"}
    BY DEF ServiceAnswers, slash, FirstSlash, SelectInSeq
  <1>14. verify(write.did, write.signature, message_payload(room, write.nonce, text))
    BY <1>9, <1>10, WriteVerifies
  <1> HIDE DEF lost, room, text
  <1> QED
    BY <1>9, <1>12, <1>13, <1>14

LEMMA SendKeeps ==
  ASSUME Inv, SendMessage
  PROVE  Inv'
  <1>1. WiringInv'
    BY NextKeepsWiring DEF Inv, Next
  <1>2. write.kind = "message" /\ UNCHANGED <<capability, write, seen>>
    BY DEF SendMessage, wiringVars
  <1>3. verify_message(write.did, write.signature, write.room, write.nonce,
                       write.swept_text)
    <2>1. /\ ValidRoom(write.room) /\ ValidNonce(write.nonce)
          /\ ValidMessage(write.swept_text)
          /\ single_line_sweep(write.swept_text) = write.swept_text
      BY <1>2 DEF Inv, MessageInv
    <2> QED
      BY <1>2, <2>1, WriteVerifies DEF verify_message
  <1>4. service' \in ServiceAnswers
    BY <1>3 DEF SendMessage
  <1>5. SignedIsAccepted'
    BY <1>2, <1>4, ServiceAccepts DEF SignedIsAccepted
  <1>6. MessageInv' /\ NoteInv'
    BY <1>2 DEF Inv, MessageInv, NoteInv
  <1>7. SeenInv' /\ VerifiedIsAuthentic'
    BY <1>2 DEF Inv, SeenInv, VerifiedIsAuthentic, ToldTruly
  <1> QED
    BY <1>1, <1>5, <1>6, <1>7 DEF Inv

(* Whatever the service says, it says of a room, a nonce and a text. *)
LEMMA ResplitsAreTexts ==
  ASSUME NEW payload \in Seq(Symbols), NEW said \in Resplits(payload)
  PROVE  /\ said.room \in Seq(Symbols) /\ said.text \in Seq(Symbols)
         /\ said.nonce \in Nonces
  <1> DEFINE bars == {i \in DOMAIN payload : payload[i] = "|"}
             part(i, j) == SubSeq(payload, i + 1, j - 1)
             reading(i, j) == [nonce : {m \in Nonces : Decimal(m) = part(i, j)},
                               room : {part(0, i)}, text : {part(j, Len(payload) + 1)}]
  <1>1. PICK i \in bars, j \in bars : said \in reading(i, j)
    <2>1. said \in UNION {UNION {reading(i, j) : j \in {k \in bars : i < k}} : i \in bars}
      BY DEF Resplits
    <2> HIDE DEF bars, reading
    <2>2. PICK i \in bars : said \in UNION {reading(i, j) : j \in {k \in bars : i < k}}
      BY <2>1
    <2>3. PICK j \in bars : said \in reading(i, j)
      BY <2>2
    <2> QED
      BY <2>3
  <1>2. /\ said.room = part(0, i) /\ said.text = part(j, Len(payload) + 1)
        /\ said.nonce \in Nonces
    BY <1>1
  <1>3. Len(payload) \in Nat /\ i \in 1 .. Len(payload) /\ j \in 1 .. Len(payload)
    BY LenProperties
  <1>4. part(0, i) \in Seq(Symbols)
    <2>1. \A k \in 0 + 1 .. i - 1 : payload[k] \in Symbols
      BY <1>3, ElementOfSeq
    <2>2. 0 + 1 \in Int /\ i - 1 \in Int
      BY <1>3
    <2> QED
      BY <2>1, <2>2, SubSeqProperties
  <1>5. part(j, Len(payload) + 1) \in Seq(Symbols)
    <2>1. \A k \in j + 1 .. (Len(payload) + 1) - 1 : payload[k] \in Symbols
      BY <1>3, ElementOfSeq
    <2>2. j + 1 \in Int /\ (Len(payload) + 1) - 1 \in Int
      BY <1>3
    <2> QED
      BY <2>1, <2>2, SubSeqProperties
  <1> HIDE DEF part
  <1> QED
    BY <1>2, <1>4, <1>5

LEMMA SaidIsText ==
  ASSUME Inv, write.kind \in {"message", "note"}, NEW said \in Said
  PROVE  /\ said.room \in Seq(Symbols) /\ said.text \in Seq(Symbols)
         /\ said.nonce \in Int
  <1>1. write.signature.payload \in Seq(Symbols)
    <2>1. CASE write.kind = "message"
      BY <2>1, MessagePayloadIs DEF Inv, MessageInv, Sign
    <2>2. CASE write.kind = "note"
      <3>1. /\ write.namespace \in Seq(Symbols) /\ write.key \in Seq(Symbols)
            /\ write.nonce \in Nat /\ write.swept_value \in Seq(Symbols)
            /\ write.signature.payload = note_payload(write.namespace, write.key,
                                              write.nonce, write.swept_value)
        BY <2>2 DEF Inv, NoteInv, Sign
      <3> DEFINE s == write.namespace
                 k == write.key
                 n == write.nonce
                 t == write.swept_value
      <3>2. s \in Seq(Symbols) /\ k \in Seq(Symbols) /\ n \in Nat /\ t \in Seq(Symbols)
        BY <3>1
      <3>3. write.signature.payload = note_payload(s, k, n, t)
        BY <3>1
      <3> HIDE DEF s, k, n, t
      <3>4. note_payload(s, k, n, t) \in Seq(Symbols)
        BY <3>2, NotePayloadIs, Zenon
      <3> QED
        BY <3>3, <3>4
    <2> QED
      BY <2>1, <2>2
  <1>2. CASE said \in Resplits(write.signature.payload)
    BY <1>1, <1>2, ResplitsAreTexts, ArgumentsAssumption
  <1>3. CASE said \notin Resplits(write.signature.payload)
    <2> DEFINE honest == [room |-> write.room, nonce |-> write.nonce,
                          text |-> write.swept_text]
    <2>1. /\ write.kind = "message"
          /\ \/ said = [honest EXCEPT !.text = write.text]
             \/ said = [honest EXCEPT !.text = Append(write.swept_text, "a")]
             \/ \E r \in Rooms : said = [honest EXCEPT !.room = r]
             \/ \E n \in Nonces : said = [honest EXCEPT !.nonce = n]
      BY <1>3 DEF Said
    <2>2. /\ write.room \in Seq(Symbols) /\ write.nonce \in Nat
          /\ write.text \in Seq(Symbols) /\ write.swept_text \in Seq(Symbols)
      BY <2>1 DEF Inv, MessageInv
    <2>3. Append(write.swept_text, "a") \in Seq(Symbols)
      <3>1. "a" \in Symbols
        BY DEF Symbols, Chars
      <3> QED
        BY <2>2, <3>1, AppendProperties
    <2>4. /\ said.room \in {write.room} \cup Rooms
          /\ said.nonce \in {write.nonce} \cup Nonces
          /\ said.text \in {write.swept_text, write.text, Append(write.swept_text, "a")}
      BY <2>1
    <2>5. \A r \in Rooms : r \in Seq(Symbols)
      BY ArgumentsAreTexts
    <2>6. said.nonce \in Int
      <3>1. write.nonce \in Int /\ Nonces \subseteq Int
        BY <2>2, ArgumentsAssumption
      <3> QED
        BY <2>4, <3>1
    <2>7. said.room \in Seq(Symbols)
      BY <2>2, <2>4, <2>5
    <2>8. said.text \in Seq(Symbols)
      BY <2>2, <2>3, <2>4
    <2> QED
      BY <2>6, <2>7, <2>8
  <1> QED
    BY <1>2, <1>3

(* Whoever a signature of the capability verifies under is the capability. *)
LEMMA AuthorIsTheWriter ==
  ASSUME Inv, capability.held, write.did = capability.did,
         NEW author \in {write.did} \cup Strangers, NEW payload, NEW signed,
         write.signature = Sign(capability.key, signed),
         verify(author, write.signature, payload)
  PROVE  author = write.did /\ payload = signed
  <1>1. author \in Dids /\ capability.did \in Dids
    BY ArgumentsAssumption DEF Inv, WiringInv, CapabilityInv
  <1>2. /\ decode_did_key(author).error = "none"
        /\ Sign(capability.key, signed) = Sign(decode_did_key(author).key, payload)
    BY DEF verify
  <1>3. capability.key = decode_did_key(author).key /\ signed = payload
    BY <1>2 DEF Sign
  <1>4. decode_did_key(capability.did) = [error |-> "none", key |-> capability.key]
    BY DEF Inv, WiringInv, CapabilityMatchesDid
  <1>5. encode_did_key(capability.key) = author
    BY <1>1, <1>2, <1>3, EncodingIsCanonical
  <1>6. /\ decode_did_key(capability.did).error = "none"
        /\ decode_did_key(capability.did).key = capability.key
    BY <1>4
  <1>7. encode_did_key(capability.key) = capability.did
    BY <1>1, <1>6, EncodingIsCanonical
  <1> QED
    BY <1>3, <1>5, <1>7

(* _to_message *)
LEMMA ReadKeeps ==
  ASSUME Inv, Known, NEW author \in {write.did} \cup Strangers,
         NEW signed \in BOOLEAN, NEW form \in NonceForms, NEW said \in Said,
         ReadRoom(author, signed, form, said)
  PROVE  Inv'
  <1>1. WiringInv'
    BY NextKeepsWiring DEF Inv, Next
  <1>2. /\ write.kind \in {"message", "note"}
        /\ UNCHANGED <<capability, write, service>>
        /\ seen' = _to_message(author, signed, form, said)
        /\ ValidRoom(said.room)
    BY DEF ReadRoom, Known, wiringVars
  <1>3. MessageInv' /\ NoteInv' /\ SeenInv' /\ SignedIsAccepted'
    BY <1>2 DEF Inv, MessageInv, NoteInv, SeenInv, SignedIsAccepted
  <1>4. ASSUME seen'.kind = "message", seen'.verified
        PROVE  /\ seen'.did = write.did
               /\ write.kind = "message" =>
                     /\ seen'.room = write.room
                     /\ single_line_sweep(seen'.text) = write.swept_text
                     /\ seen'.nonce \in {write.nonce, -1}
               /\ write.kind = "note" =>
                     /\ seen'.room = write.namespace /\ ToSet(write.key) \subseteq {"1"}
    <2> DEFINE swept == single_line_sweep(said.text)
               payload == message_payload(said.room, said.nonce, swept)
    <2>1. /\ verify_message(author, write.signature, said.room, said.nonce, said.text)
          /\ seen'.did = author /\ seen'.room = said.room /\ seen'.text = said.text
          /\ seen'.nonce \in {said.nonce, -1}
      BY <1>2, <1>4 DEF _to_message, Refused
    <2>2. /\ ValidNonce(said.nonce) /\ verify(author, write.signature, payload)
      BY <2>1 DEF verify_message
    <2>3. /\ said.room \in Seq(Symbols) /\ said.text \in Seq(Symbols)
          /\ said.nonce \in Nat
      BY <1>2, <2>2, SaidIsText DEF ValidNonce
    <2>4. swept \in Seq(Symbols)
      BY <2>3, SweepIsIdempotent
    <2>5. CASE write.kind = "message"
      <3> DEFINE signedPayload == message_payload(write.room, write.nonce, write.swept_text)
      <3>1. /\ capability.held /\ write.did = capability.did
            /\ write.signature = Sign(capability.key, signedPayload)
            /\ write.room \in Seq(Symbols) /\ ValidRoom(write.room)
            /\ write.nonce \in Nat /\ write.swept_text \in Seq(Symbols)
        BY <2>5 DEF Inv, MessageInv
      <3> HIDE DEF signedPayload, payload, swept
      <3>2. author = write.did /\ payload = signedPayload
        BY <2>2, <3>1, AuthorIsTheWriter
      <3>3. message_payload(said.room, said.nonce, swept)
              = message_payload(write.room, write.nonce, write.swept_text)
        BY <3>2 DEF payload, signedPayload
      <3>4. /\ said.room = write.room /\ said.nonce = write.nonce
            /\ swept = write.swept_text
        <4> DEFINE r == said.room
                   n == said.nonce
                   s == write.room
                   m == write.nonce
                   u == write.swept_text
        <4>1. /\ r \in Seq(Symbols) /\ n \in Nat /\ swept \in Seq(Symbols)
              /\ s \in Seq(Symbols) /\ m \in Nat /\ u \in Seq(Symbols)
              /\ ValidRoom(r) /\ ValidRoom(s)
              /\ message_payload(r, n, swept) = message_payload(s, m, u)
          BY <1>2, <2>3, <2>4, <3>1, <3>3
        <4> HIDE DEF r, n, s, m, u
        <4>2. r = s /\ n = m /\ swept = u
          BY <4>1, OneMessage
        <4> QED
          BY <4>2 DEF r, n, s, m, u
      <3> QED
        BY <2>1, <2>5, <3>2, <3>4 DEF swept
    <2>6. CASE write.kind = "note"
      <3> DEFINE signedPayload == note_payload(write.namespace, write.key, write.nonce,
                                               write.swept_value)
      <3>1. /\ capability.held /\ write.did = capability.did
            /\ write.signature = Sign(capability.key, signedPayload)
            /\ write.namespace \in Seq(Symbols) /\ ValidName(write.namespace)
            /\ write.key \in Seq(Symbols) /\ ValidName(write.key)
            /\ write.nonce \in Nat /\ write.swept_value \in Seq(Symbols)
        BY <2>6 DEF Inv, NoteInv
      <3> HIDE DEF signedPayload, payload, swept
      <3>2. author = write.did /\ payload = signedPayload
        BY <2>2, <3>1, AuthorIsTheWriter
      <3>3. message_payload(said.room, said.nonce, swept)
              = note_payload(write.namespace, write.key, write.nonce, write.swept_value)
        BY <3>2 DEF payload, signedPayload
      <3>4. said.room = write.namespace /\ ToSet(write.key) \subseteq {"1"}
        <4> DEFINE r == said.room
                   n == said.nonce
                   s == write.namespace
                   k == write.key
                   m == write.nonce
                   u == write.swept_value
        <4>1. /\ r \in Seq(Symbols) /\ n \in Nat /\ swept \in Seq(Symbols)
              /\ s \in Seq(Symbols) /\ k \in Seq(Symbols) /\ m \in Nat
              /\ u \in Seq(Symbols) /\ ValidRoom(r) /\ ValidName(s) /\ ValidName(k)
              /\ message_payload(r, n, swept) = note_payload(s, k, m, u)
          BY <1>2, <2>3, <2>4, <3>1, <3>3
        <4> HIDE DEF r, n, s, k, m, u
        <4>2. r = s /\ ToSet(k) \subseteq {"1"}
          BY <4>1, MessageOfNote
        <4> QED
          BY <4>2 DEF r, s, k
      <3> QED
        BY <2>1, <2>6, <3>2, <3>4
    <2> QED
      BY <1>2, <2>5, <2>6
  <1>5. ASSUME seen'.kind = "message", ToldTruly'
        PROVE  seen'.verified
    <2>1. /\ write.kind = "message" /\ seen'.signature_returned
          /\ seen'.did = write.did /\ seen'.room = write.room
          /\ seen'.nonce = write.nonce
          /\ single_line_sweep(seen'.text) = write.swept_text
      BY <1>2, <1>5 DEF ToldTruly
    <2>2. /\ seen'.did = author /\ seen'.room = said.room /\ seen'.text = said.text
          /\ seen'.signature_returned = signed
          /\ seen'.nonce = IF form \in {"int", "digits"} THEN said.nonce ELSE -1
          /\ seen'.verified = (/\ signed /\ form \in {"int", "digits", "spaced", "float"}
                               /\ verify_message(author, write.signature, said.room,
                                                 said.nonce, said.text))
      BY <1>2, <1>5 DEF _to_message, Refused
    <2>3. /\ ValidRoom(write.room) /\ ValidNonce(write.nonce) /\ write.nonce # -1
          /\ ValidMessage(write.swept_text)
      BY <2>1 DEF Inv, MessageInv
    <2>4. /\ signed /\ form \in {"int", "digits"} /\ author = write.did
          /\ said.room = write.room /\ said.nonce = write.nonce
          /\ single_line_sweep(said.text) = write.swept_text
      BY <2>1, <2>2, <2>3
    <2>5. verify_message(author, write.signature, said.room, said.nonce, said.text)
      BY <2>1, <2>3, <2>4, WriteVerifies DEF verify_message
    <2> QED
      BY <2>2, <2>4, <2>5
  <1>6. VerifiedIsAuthentic'
    BY <1>2, <1>4, <1>5 DEF VerifiedIsAuthentic
  <1> QED
    BY <1>1, <1>3, <1>6 DEF Inv

LEMMA ForgetKeeps ==
  ASSUME Inv, Forget
  PROVE  Inv'
  <1>1. WiringInv'
    BY NextKeepsWiring DEF Inv, Next
  <1>2. write' = NoWrite /\ service' = "none" /\ seen' = NoMessage
    BY DEF Forget
  <1>3. MessageInv' /\ NoteInv' /\ SeenInv' /\ SignedIsAccepted' /\ VerifiedIsAuthentic'
    BY <1>2 DEF MessageInv, NoteInv, SeenInv, SignedIsAccepted, VerifiedIsAuthentic,
                NoWrite, NoMessage
  <1> QED
    BY <1>1, <1>3 DEF Inv

LEMMA NextKeeps ==
  ASSUME Inv, [Next]_vars
  PROVE  Inv'
  <1>1. CASE ~capability.held /\ Wiring /\ UNCHANGED <<write, service, seen>>
    <2>1. WiringInv'
      BY <1>1, WiringKeeps DEF Inv
    <2>2. write.kind # "message" /\ write.kind # "note" /\ seen.kind # "message"
      BY <1>1 DEF Inv, MessageInv, NoteInv, SeenInv
    <2>3. /\ MessageInv' /\ NoteInv' /\ SeenInv'
          /\ SignedIsAccepted' /\ VerifiedIsAuthentic'
      BY <1>1, <2>2 DEF Inv, MessageInv, NoteInv, SeenInv, SignedIsAccepted,
                        VerifiedIsAuthentic
    <2> QED
      BY <2>1, <2>3 DEF Inv
  <1>2. CASE UNCHANGED vars
    <2>1. WiringInv'
      BY <1>2, NextKeepsWiring DEF Inv
    <2>2. UNCHANGED <<capability, write, service, seen>>
      BY <1>2 DEF vars, wiringVars
    <2>3. /\ MessageInv' /\ NoteInv' /\ SeenInv'
          /\ SignedIsAccepted' /\ VerifiedIsAuthentic'
      BY <2>2 DEF Inv, MessageInv, NoteInv, SeenInv, SignedIsAccepted,
                  VerifiedIsAuthentic, ToldTruly
    <2> QED
      BY <2>1, <2>3 DEF Inv
  <1> QED
    BY <1>1, <1>2, SignMessageKeeps, SignNoteKeeps, SendKeeps, ReadKeeps, ForgetKeeps
       DEF Next

LEMMA InvStarts == Init => Inv
  BY WiringStarts DEF Init, Inv, MessageInv, NoteInv, SeenInv, SignedIsAccepted,
     VerifiedIsAuthentic, NoWrite, NoMessage

(* What the capability signs verifies here, passes the path and verifies at  *)
(* the service after its own sweep, for every room, nonce and text           *)
(* (canonical.py:34-36, SignedWrite.path).  Only a room or a text of one or  *)
(* two dots is lost on the way, and only a room outside the service's rule   *)
(* is refused for its characters (canonical.py:182-187).                     *)
THEOREM SignedTextsAreAccepted == Spec => []SignedIsAccepted
  <1>1. Inv /\ [Next]_vars => Inv'
    BY NextKeeps
  <1>2. Inv => SignedIsAccepted
    BY DEF Inv
  <1> QED
    BY <1>1, <1>2, InvStarts, PTL DEF Spec

(* A message shown as verified is the message its author signed, whatever    *)
(* the service answered: no other room, nonce or text has its bytes, and no  *)
(* other did has its key.  A note has the bytes of a message only when its   *)
(* key is a number (_to_message, verify_message, canonical.py).              *)
THEOREM VerifiedMessagesAreAuthentic == Spec => []VerifiedIsAuthentic
  <1>1. Inv /\ [Next]_vars => Inv'
    BY NextKeeps
  <1>2. Inv => VerifiedIsAuthentic
    BY DEF Inv
  <1> QED
    BY <1>1, <1>2, InvStarts, PTL DEF Spec
=============================================================================
