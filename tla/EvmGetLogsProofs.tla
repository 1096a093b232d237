-------------------------- MODULE EvmGetLogsProofs --------------------------
(***************************************************************************)
(* Proofs about EvmGetLogs for every range, limit and node: a successful   *)
(* call has read each block exactly once, its requests are bounded by the  *)
(* range, the span it works with never widens, and the call implements     *)
(* LogReader.                                                              *)
(***************************************************************************)
EXTENDS EvmGetLogs, SequenceTheorems, TLAPS

Windows == Seq(Int \X Int)

\* Popping keeps the lower part of the stack as it is.
LEMMA RestIndex ==
  ASSUME stack \in Windows, stack # <<>>
  PROVE  /\ Rest \in Windows
         /\ Len(Rest) = Len(stack) - 1
         /\ Len(stack) \in Nat \ {0}
         /\ Top \in Int \X Int
         /\ \A i \in 1..(Len(stack) - 1) : Rest[i] = stack[i]
<1>1. Len(stack) \in Nat \ {0}
  BY EmptySeq DEF Windows
<1>2. \A i \in 1..Len(stack) : stack[i] \in Int \X Int
  BY ElementOfSeq DEF Windows
<1>3. Top \in Int \X Int
  <2>1. Len(stack) \in 1..Len(stack)
    BY <1>1
  <2> QED BY <1>2, <2>1 DEF Top
<1>4. \A i \in 1..(Len(stack) - 1) : stack[i] \in Int \X Int
  BY <1>1, <1>2
<1>5. 1 \in Int /\ Len(stack) - 1 \in Int
  BY <1>1
<1>6. Rest \in Windows
  BY <1>4, <1>5, SubSeqProperties DEF Rest, Windows
<1>7. Len(Rest) = IF 1 <= Len(stack) - 1 THEN (Len(stack) - 1) - 1 + 1 ELSE 0
  BY <1>4, <1>5, SubSeqProperties DEF Rest
<1>8. \A i \in 1..((Len(stack) - 1) - 1 + 1) : Rest[i] = stack[1 + i - 1]
  BY <1>4, <1>5, SubSeqProperties DEF Rest
<1>9. Len(Rest) = Len(stack) - 1
  <2> DEFINE n == Len(stack)
  <2>1. n \in Nat /\ n >= 1
    BY <1>1
  <2> HIDE DEF n
  <2>2. (IF 1 <= n - 1 THEN (n - 1) - 1 + 1 ELSE 0) = n - 1
    BY <2>1
  <2> QED BY <1>7, <2>2 DEF n
<1>10. \A i \in 1..(Len(stack) - 1) : Rest[i] = stack[i]
  BY <1>1, <1>8
<1> QED BY <1>1, <1>3, <1>6, <1>9, <1>10

\* Cutting replaces the top by two windows.
LEMMA CutIndex ==
  ASSUME stack \in Windows, stack # <<>>, NEW n \in Int
  PROVE  /\ Cut(n) \in Windows
         /\ Len(Cut(n)) = Len(stack) + 1
         /\ \A i \in 1..(Len(stack) - 1) : Cut(n)[i] = stack[i]
         /\ Cut(n)[Len(stack)] = <<Top[1] + n, Top[2]>>
         /\ Cut(n)[Len(stack) + 1] = <<Top[1], Top[1] + n - 1>>
<1> DEFINE low == <<Top[1] + n, Top[2]>>
           high == <<Top[1], Top[1] + n - 1>>
<1>1. low \in Int \X Int /\ high \in Int \X Int
  BY RestIndex
<1>2. <<low, high>> \in Windows /\ Len(<<low, high>>) = 2
      /\ <<low, high>>[1] = low /\ <<low, high>>[2] = high
  BY <1>1 DEF Windows
<1> HIDE DEF low, high
<1>3. Cut(n) = Rest \o <<low, high>>
  BY DEF Cut, low, high
<1> DEFINE two == <<low, high>>
<1> HIDE DEF two
<1>4. /\ Rest \o two \in Windows
      /\ Len(Rest \o two) = Len(Rest) + Len(two)
      /\ \A i \in 1..(Len(Rest) + Len(two)) :
           (Rest \o two)[i] = IF i <= Len(Rest) THEN Rest[i] ELSE two[i - Len(Rest)]
  BY <1>2, RestIndex, ConcatProperties DEF Windows, two
<1>5. Len(two) = 2 /\ two[1] = low /\ two[2] = high
  BY <1>2 DEF two
<1>6. Len(Rest) \in Nat /\ Len(Rest) = Len(stack) - 1 /\ Len(stack) \in Nat
  BY RestIndex
<1>7. /\ Len(Rest \o two) = Len(stack) + 1
      /\ \A i \in 1..(Len(stack) - 1) : (Rest \o two)[i] = Rest[i]
      /\ (Rest \o two)[Len(stack)] = low
      /\ (Rest \o two)[Len(stack) + 1] = high
  BY <1>4, <1>5, <1>6
<1> QED BY <1>3, <1>4, <1>7, RestIndex DEF low, high, two

\* Cutting inside the top window keeps the tiling and its lower end.
LEMMA CutTiles ==
  ASSUME TypeOK, from <= to, Tiled, stack # <<>>,
         NEW n \in Nat, 0 < n, n <= Top[2] - Top[1],
         stack' = Cut(n), from' = from, to' = to
  PROVE  /\ Tiled'
         /\ stack' \in Windows
         /\ stack' # <<>>
         /\ Len(stack') = Len(stack) + 1
         /\ Frontier' = Frontier
<1> DEFINE L == Len(stack)
<1>1. stack \in Windows /\ from \in Nat /\ to \in Nat
  BY DEF TypeOK, Windows
<1>0. L \in Nat \ {0} /\ Top \in Int \X Int
  BY <1>1, RestIndex
<1>a. n \in Int
  OBVIOUS
<1>b. /\ stack' \in Windows
      /\ Len(stack') = L + 1
      /\ \A i \in 1..(L - 1) : stack'[i] = stack[i]
      /\ stack'[L] = <<Top[1] + n, Top[2]>>
      /\ stack'[L + 1] = <<Top[1], Top[1] + n - 1>>
  BY <1>1, <1>a, CutIndex, Zenon
<1>2. /\ stack' \in Windows
      /\ Len(stack') = L + 1
      /\ L \in Nat \ {0}
      /\ \A i \in 1..(L - 1) : stack'[i] = stack[i]
      /\ stack'[L] = <<Top[1] + n, Top[2]>>
      /\ stack'[L + 1] = <<Top[1], Top[1] + n - 1>>
      /\ Top \in Int \X Int
      /\ Top = stack[L]
  BY <1>0, <1>b DEF Top
<1>3. stack' # <<>>
  BY <1>2, EmptySeq DEF Windows
<1>4. Top' = <<Top[1], Top[1] + n - 1>>
  BY <1>2 DEF Top
<1>5. Frontier' = Frontier
  BY <1>2, <1>3, <1>4 DEF Frontier
<1>6. \A i \in 1..L : stack[i] \in Int \X Int
  BY <1>1 DEF Windows
<1>7. /\ \A i \in 1..L : from <= stack[i][1] /\ stack[i][1] <= stack[i][2]
      /\ \A i \in 1..L : stack[i][2] + i <= to + 1
      /\ \A i \in 1..(L - 1) : stack[i][1] = stack[i + 1][2] + 1
      /\ stack[1][2] = to
  BY DEF Tiled
<1>8. \A i \in 1..(L + 1) : /\ from <= stack'[i][1] /\ stack'[i][1] <= stack'[i][2]
                            /\ stack'[i][2] + i <= to + 1
  <2> SUFFICES ASSUME NEW i \in 1..(L + 1)
               PROVE  /\ from <= stack'[i][1] /\ stack'[i][1] <= stack'[i][2]
                      /\ stack'[i][2] + i <= to + 1
    OBVIOUS
  <2>1. CASE i \in 1..(L - 1)
    BY <2>1, <1>2, <1>7
  <2>a. ASSUME NEW a \in Int, NEW b \in Int, NEW k \in Nat, NEW lo \in Nat, NEW hi \in Nat,
               lo <= a, a + n <= b, b + k <= hi + 1
        PROVE  /\ lo <= a + n /\ a + n <= b /\ b + k <= hi + 1
               /\ a <= a + n - 1 /\ a + n - 1 + (k + 1) <= hi + 1
    BY <2>a
  <2>b. /\ Top[1] \in Int /\ Top[2] \in Int
        /\ L \in Nat /\ L \in 1..L /\ from \in Nat /\ to \in Nat
    BY <1>1, <1>2
  <2>c. from <= Top[1] /\ Top[1] + n <= Top[2] /\ Top[2] + L <= to + 1
    BY <2>b, <1>2, <1>7
  <2>d. /\ from <= Top[1] + n /\ Top[1] + n <= Top[2] /\ Top[2] + L <= to + 1
        /\ Top[1] <= Top[1] + n - 1 /\ Top[1] + n - 1 + (L + 1) <= to + 1
    BY <2>a, <2>b, <2>c
  <2>2. CASE i = L
    BY <2>2, <2>d, <1>2
  <2>3. CASE i = L + 1
    <3>1. stack'[i] = <<Top[1], Top[1] + n - 1>>
      BY <2>3, <1>2
    <3>2. stack'[i][1] = Top[1] /\ stack'[i][2] = Top[1] + n - 1
      BY <3>1
    <3>3. from <= Top[1] /\ Top[1] <= Top[1] + n - 1 /\ Top[1] + n - 1 + i <= to + 1
      BY <2>3, <2>c, <2>d
    <3> QED BY <3>2, <3>3
  <2> QED BY <2>1, <2>2, <2>3, <1>2
<1>9. \A i \in 1..L : stack'[i][1] = stack'[i + 1][2] + 1
  <2> SUFFICES ASSUME NEW i \in 1..L
               PROVE  stack'[i][1] = stack'[i + 1][2] + 1
    OBVIOUS
  <2>1. CASE i = L
    BY <2>1, <1>2
  <2>2. CASE i = L - 1
    BY <2>2, <1>2, <1>7
  <2>3. CASE i \in 1..(L - 2)
    <3>1. i \in 1..(L - 1) /\ i + 1 \in 1..(L - 1)
      BY <2>3, <1>2
    <3> QED BY <3>1, <1>2, <1>7
  <2> QED BY <2>1, <2>2, <2>3, <1>2
<1>10. stack'[1][2] = to
  <2>1. CASE L = 1
    BY <2>1, <1>2, <1>7
  <2>2. CASE L > 1
    BY <2>2, <1>2, <1>7
  <2>3. L = 1 \/ L > 1
    <3> DEFINE k == Len(stack)
    <3>1. k \in Nat \ {0}
      BY <1>0
    <3> HIDE DEF k
    <3>2. k = 1 \/ k > 1
      BY <3>1
    <3> QED BY <3>2 DEF k
  <2> QED BY <2>1, <2>2, <2>3
<1> QED BY <1>2, <1>3, <1>5, <1>8, <1>9, <1>10 DEF Tiled

\* Popping a window keeps the tiling; its lower end moves past the window.
LEMMA PopTiles ==
  ASSUME TypeOK, from <= to, Tiled, stack # <<>>,
         stack' = Rest, from' = from, to' = to
  PROVE  /\ Tiled'
         /\ stack' \in Windows
         /\ Len(stack') = Len(stack) - 1
         /\ Frontier' = Top[2] + 1
<1> DEFINE L == Len(stack)
<1>1. stack \in Windows /\ from \in Nat /\ to \in Nat
  BY DEF TypeOK, Windows
<1>2. /\ stack' \in Windows
      /\ Len(stack') = L - 1
      /\ L \in Nat \ {0}
      /\ \A i \in 1..(L - 1) : stack'[i] = stack[i]
      /\ Top = stack[L]
      /\ Top \in Int \X Int
  BY <1>1, RestIndex DEF Top
<1>3. Tiled'
  <2>1. /\ \A i \in 1..L : from <= stack[i][1] /\ stack[i][1] <= stack[i][2]
        /\ \A i \in 1..L : stack[i][2] + i <= to + 1
        /\ \A i \in 1..(L - 1) : stack[i][1] = stack[i + 1][2] + 1
        /\ stack[1][2] = to
    BY DEF Tiled
  <2>2. \A i \in 1..(L - 1) : /\ from <= stack'[i][1] /\ stack'[i][1] <= stack'[i][2]
                              /\ stack'[i][2] + i <= to + 1
    BY <1>2, <2>1
  <2>3. \A i \in 1..(L - 2) : stack'[i][1] = stack'[i + 1][2] + 1
    <3> SUFFICES ASSUME NEW i \in 1..(L - 2) PROVE stack'[i][1] = stack'[i + 1][2] + 1
      OBVIOUS
    <3>1. i \in 1..(L - 1) /\ i + 1 \in 1..(L - 1)
      BY <1>2
    <3> QED BY <3>1, <1>2, <2>1
  <2>4. stack' # <<>> => stack'[1][2] = to
    <3> SUFFICES ASSUME stack' # <<>> PROVE stack'[1][2] = to
      OBVIOUS
    <3>1. Len(stack') \in Nat \ {0}
      BY <1>2, EmptySeq DEF Windows
    <3>2. 1 \in 1..(L - 1)
      BY <1>2, <3>1
    <3> QED BY <3>2, <1>2, <2>1
  <2>5. (L - 1) - 1 = L - 2
    BY <1>2
  <2> QED BY <1>2, <2>2, <2>3, <2>4, <2>5 DEF Tiled
<1>4. CASE L = 1
  <2>1. stack' = <<>>
    BY <1>2, <1>4 DEF Windows
  <2>2. Top[2] = to
    BY <1>2, <1>4 DEF Tiled
  <2> QED BY <1>2, <1>3, <2>1, <2>2 DEF Frontier
<1>5. CASE L > 1
  <2>1. stack' # <<>>
    BY <1>2, <1>5 DEF Windows
  <2>2. Top' = stack[L - 1]
    BY <1>2, <1>5 DEF Top
  <2>3. stack[L - 1][1] = stack[L][2] + 1
    BY <1>2, <1>5 DEF Tiled
  <2> QED BY <1>2, <1>3, <2>1, <2>2, <2>3 DEF Frontier
<1> QED BY <1>2, <1>4, <1>5

\* What one iteration of the loop keeps true when the range is not empty.
LoopInv == Tiled /\ Counted /\ \A b \in from..to : out[b] = IF b < Frontier THEN 1 ELSE 0

\* A cut or a split inside the top window keeps the loop invariant.
LEMMA CutKeeps ==
  ASSUME TypeOK, from <= to, LoopInv, stack # <<>>, status = "running", status' = status,
         NEW n \in Nat, 0 < n, n <= Top[2] - Top[1],
         stack' = Cut(n), from' = from, to' = to, out' = out, requests' = requests,
         \/ splits' = splits /\ attempts' = attempts
         \/ splits' = splits + 1 /\ attempts' = attempts + 1
  PROVE  LoopInv' /\ stack' \in Windows
<1>1. /\ Tiled' /\ stack' \in Windows /\ stack' # <<>>
      /\ Len(stack') = Len(stack) + 1 /\ Frontier' = Frontier
  BY CutTiles DEF LoopInv
<1>2. /\ from \in Nat /\ to \in Nat /\ splits \in Nat /\ attempts \in Nat /\ requests \in Nat
  BY DEF TypeOK
<1>3. \A b \in from'..to' : out'[b] = IF b < Frontier' THEN 1 ELSE 0
  BY <1>1 DEF LoopInv
<1>4. Top \in Int \X Int /\ Len(stack) \in Nat /\ Len(stack) \in 1..Len(stack)
  BY RestIndex DEF TypeOK, Windows
<1>5. /\ Top[2] + Len(stack) <= to + 1
      /\ requests + from <= Top[1]
      /\ splits < requests + Len(stack)
      /\ attempts = requests + splits
      /\ splits + from <= to
  BY <1>4 DEF LoopInv, Tiled, Counted, Top, Frontier
<1>6. Frontier = Top[1]
  BY DEF Frontier
<1> DEFINE k == Len(stack)
           a == Top[1]
           b == Top[2]
<1>7. k \in Nat /\ a \in Int /\ b \in Int
  BY <1>4
<1> HIDE DEF k, a, b
<1>8. /\ b + k <= to + 1 /\ requests + from <= a /\ splits < requests + k
      /\ n <= b - a
  BY <1>5 DEF a, b, k
<1>9. splits + 1 + from <= to /\ splits + 1 < requests + (k + 1)
  BY <1>2, <1>7, <1>8
<1>10. splits' + from' <= to' /\ splits' < requests' + Len(stack')
  BY <1>1, <1>2, <1>5, <1>9 DEF k
<1>11. attempts' = requests' + splits'
  BY <1>2, <1>5
<1>12. requests <= to - from
  BY <1>2, <1>7, <1>8
<1>13. RequestsBounded'
  <2>1. splits' \in Nat /\ attempts' \in Nat
    BY <1>2
  <2>2. splits' + from <= to /\ attempts' = requests + splits'
    BY <1>10, <1>11
  <2>3. ASSUME NEW r \in Nat, NEW x \in Nat, NEW f \in Nat, NEW t \in Nat,
               r <= t - f, x + f <= t
        PROVE  r + x < 2 * (t - f + 1)
    BY <2>3
  <2>4. attempts' < 2 * (to - from + 1)
    BY <1>2, <1>12, <2>1, <2>2, <2>3
  <2> QED BY <1>2, <2>4 DEF RequestsBounded, Width
<1>14. Counted'
  BY <1>1, <1>5, <1>6, <1>10, <1>11, <1>13 DEF Counted
<1> QED BY <1>1, <1>3, <1>14 DEF LoopInv

\* An answered window keeps it.
LEMMA AnswerKeeps ==
  ASSUME TypeOK, from <= to, LoopInv, stack # <<>>, status = "running", status' = status,
         stack' = Rest, from' = from, to' = to,
         out' = [b \in from..to |-> IF Top[1] <= b /\ b <= Top[2] THEN out[b] + 1 ELSE out[b]],
         requests' = requests + 1, attempts' = attempts + 1, splits' = splits
  PROVE  LoopInv' /\ stack' \in Windows
<1>1. /\ Tiled' /\ stack' \in Windows
      /\ Len(stack') = Len(stack) - 1 /\ Frontier' = Top[2] + 1
  BY PopTiles DEF LoopInv
<1>2. /\ from \in Nat /\ to \in Nat /\ splits \in Nat /\ attempts \in Nat /\ requests \in Nat
  BY DEF TypeOK
<1>3. Top \in Int \X Int /\ Len(stack) \in Nat /\ Len(stack) \in 1..Len(stack)
  BY RestIndex DEF TypeOK, Windows
<1>4. Frontier = Top[1]
  BY DEF Frontier
<1>5. \A b \in from'..to' : out'[b] = IF b < Frontier' THEN 1 ELSE 0
  <2> SUFFICES ASSUME NEW b \in from..to
               PROVE  out'[b] = IF b < Top[2] + 1 THEN 1 ELSE 0
    BY <1>1
  <2>1. Top[1] <= Top[2]
    BY <1>3 DEF LoopInv, Tiled, Top
  <2>2. out[b] = IF b < Top[1] THEN 1 ELSE 0
    BY <1>4 DEF LoopInv
  <2> QED BY <1>2, <1>3, <2>1, <2>2
<1>6. /\ Top[2] + Len(stack) <= to + 1
      /\ requests + from <= Top[1]
      /\ Top[1] <= Top[2]
      /\ splits < requests + Len(stack)
      /\ attempts = requests + splits
      /\ splits + from <= to
  BY <1>3 DEF LoopInv, Tiled, Counted, Top, Frontier
<1> DEFINE k == Len(stack)
           a == Top[1]
           b == Top[2]
<1>7. k \in Nat /\ k >= 1 /\ a \in Int /\ b \in Int
  BY <1>3
<1> HIDE DEF k, a, b
<1>8. /\ b + k <= to + 1 /\ requests + from <= a /\ a <= b /\ splits < requests + k
  BY <1>6 DEF a, b, k
<1>9. requests + 1 + from <= b + 1 /\ splits < requests + 1 + (k - 1) /\ requests + from <= to
  BY <1>2, <1>7, <1>8
<1>10. requests' + from' <= Frontier' /\ splits' < requests' + Len(stack')
  BY <1>1, <1>9 DEF k, b
<1>11. attempts' = requests' + splits' /\ splits' + from' <= to'
  BY <1>2, <1>6
<1>12. RequestsBounded'
  <2>1. attempts = requests + splits /\ splits + from <= to /\ requests + from <= to
    BY <1>6, <1>9
  <2>2. attempts' < 2 * (to - from + 1)
    BY <1>2, <2>1
  <2> QED BY <1>2, <2>2 DEF RequestsBounded, Width
<1>13. Counted'
  BY <1>10, <1>11, <1>12 DEF Counted
<1> QED BY <1>1, <1>5, <1>13 DEF LoopInv

\* Returning leaves the windows as they are; a last attempt still counts.
LEMMA ReturnKeeps ==
  ASSUME TypeOK, from <= to, LoopInv, status = "running", status' # "running",
         status' = "ok" => stack = <<>>,
         attempts' = attempts \/ (stack # <<>> /\ attempts' = attempts + 1),
         UNCHANGED <<from, to, stack, out, requests, splits>>
  PROVE  LoopInv'
<1>1. /\ from \in Nat /\ to \in Nat /\ splits \in Nat /\ attempts \in Nat /\ requests \in Nat
  BY DEF TypeOK
<1>2. Frontier' = Frontier /\ Tiled'
  BY DEF Frontier, Top, Tiled, LoopInv
<1>3. RequestsBounded'
  <2>1. CASE attempts' = attempts
    BY <2>1 DEF LoopInv, Counted, RequestsBounded, Width
  <2>2. CASE stack # <<>> /\ attempts' = attempts + 1
    <3>1. Top \in Int \X Int /\ Len(stack) \in Nat /\ Len(stack) \in 1..Len(stack)
      BY <2>2, RestIndex DEF TypeOK, Windows
    <3>2. /\ Top[2] + Len(stack) <= to + 1
          /\ requests + from <= Top[1]
          /\ Top[1] <= Top[2]
          /\ attempts = requests + splits
          /\ splits + from <= to
      BY <2>2, <3>1 DEF LoopInv, Tiled, Counted, Top, Frontier
    <3> DEFINE k == Len(stack)
               a == Top[1]
               b == Top[2]
    <3>3. k \in Nat /\ k >= 1 /\ a \in Int /\ b \in Int
      BY <3>1
    <3> HIDE DEF k, a, b
    <3>4. b + k <= to + 1 /\ requests + from <= a /\ a <= b
      BY <3>2 DEF a, b, k
    <3>5. requests + from <= to
      BY <1>1, <3>3, <3>4
    <3>6. attempts + 1 < 2 * (to - from + 1)
      BY <1>1, <3>2, <3>5
    <3> QED BY <1>1, <2>2, <3>6 DEF RequestsBounded, Width
  <2> QED BY <2>1, <2>2
<1>4. requests' + from' <= Frontier' /\ splits' + from' <= to'
  BY <1>2 DEF LoopInv, Counted
<1>5. status' = "ok" => stack' = <<>>
  OBVIOUS
<1>6. Counted'
  BY <1>3, <1>4, <1>5 DEF Counted
<1> QED BY <1>2, <1>6 DEF LoopInv

----------------------------------------------------------------------------
Inv == TypeOK /\ LogsInv

\* Halving stays strictly inside a window of at least two blocks.
LEMMA HalfInside ==
  ASSUME NEW a \in Int, NEW b \in Int, a < b
  PROVE  /\ (b - a) \div 2 + 1 \in Nat
         /\ 0 < (b - a) \div 2 + 1
         /\ (b - a) \div 2 + 1 <= b - a
OBVIOUS

\* On an empty range nothing is asked.
LEMMA EmptyStep ==
  ASSUME Inv, [Next]_vars, from > to
  PROVE  TypeOK' /\ (attempts' = 0 /\ (stack' = <<>> \/ stack' = <<<<from', to'>>>>))
         /\ from' = from /\ to' = to /\ spanCap' = spanCap
<1>1. from' = from /\ to' = to
  BY DEF Next, vars
<1>2. attempts = 0 /\ (stack = <<>> \/ stack = <<<<from, to>>>>)
  BY DEF Inv, LogsInv
<1>3. from \in Int /\ to \in Int
  BY DEF Inv, TypeOK
<1>4. CASE UNCHANGED vars
  BY <1>2, <1>4 DEF Inv, TypeOK, vars
<1>5. CASE Finish
  BY <1>1, <1>2, <1>5 DEF Finish, Inv, TypeOK
<1>6. CASE SkipEmpty
  <2>1. stack' = <<>>
    <3>1. Len(stack) = 1
      BY <1>2, <1>6 DEF SkipEmpty, Popping
    <3>2. SubSeq(stack, 1, 0) = <<>>
      BY SubSeqEmpty
    <3> QED BY <1>6, <3>1, <3>2 DEF SkipEmpty, Rest
  <2>2. stack' \in Seq(Int \X Int)
    BY <2>1, EmptySeq
  <2> QED BY <1>1, <1>2, <1>6, <2>1, <2>2 DEF SkipEmpty, Inv, TypeOK
<1>7. ASSUME Popping, Top[1] <= Top[2] PROVE FALSE
  BY <1>2, <1>3, <1>7 DEF Popping, Top
<1> QED BY <1>4, <1>5, <1>6, <1>7
        DEF Next, CutToSpan, TooManyLogRequests, Request, Answered, TransportError,
            RangeError, OtherError

\* Every step of a non-empty range keeps types, invariant and the span.
LEMMA LoopStep ==
  ASSUME Inv, [Next]_vars, from <= to
  PROVE  TypeOK' /\ LoopInv' /\ from' = from /\ to' = to
         /\ (\A c, d \in spanCap' : c = d)
         /\ (\A c \in spanCap : \E d \in spanCap' : d <= c)
<1> USE ConstantsAssumption
<1>1. from' = from /\ to' = to
  BY DEF Next, vars
<1>2. TypeOK /\ LoopInv /\ \A c, d \in spanCap : c = d
  BY DEF Inv, LogsInv, LoopInv
<1>3. spanCap \subseteq Nat
  BY <1>2 DEF TypeOK
<1>4. ASSUME spanCap' = spanCap
      PROVE  (\A c, d \in spanCap' : c = d) /\ (\A c \in spanCap : \E d \in spanCap' : d <= c)
  BY <1>2, <1>3, <1>4
<1>5. CASE UNCHANGED vars
  <2>1. TypeOK'
    BY <1>2, <1>5 DEF TypeOK, vars
  <2>2. LoopInv'
    BY <1>2, <1>5 DEF LoopInv, Tiled, Counted, Frontier, Top, RequestsBounded, Width, vars
  <2> QED BY <1>1, <1>4, <1>5, <2>1, <2>2 DEF vars
<1>6. CASE Finish
  <2>1. TypeOK'
    BY <1>1, <1>2, <1>6 DEF TypeOK, Finish
  <2>2. LoopInv'
    BY <1>1, <1>2, <1>6, ReturnKeeps DEF Finish
  <2> QED BY <1>1, <1>4, <1>6, <2>1, <2>2 DEF Finish
<1>7. ASSUME Popping PROVE /\ stack # <<>> /\ Top \in Int \X Int /\ Top[1] <= Top[2]
                           /\ status = "running"
  <2>1. stack # <<>> /\ stack \in Windows /\ status = "running"
    BY <1>2, <1>7 DEF Popping, TypeOK, Windows
  <2>2. Len(stack) \in 1..Len(stack) /\ Top \in Int \X Int
    BY <2>1, RestIndex
  <2> QED BY <1>2, <2>1, <2>2 DEF LoopInv, Tiled, Top
<1>8. CASE SkipEmpty
  BY <1>7, <1>8 DEF SkipEmpty
<1>9. CASE CutToSpan
  <2>1. PICK cap \in spanCap : Top[2] - Top[1] >= cap /\ stack' = Cut(cap)
    BY <1>9 DEF CutToSpan
  <2>2. cap \in Nat /\ 0 < cap /\ cap <= Top[2] - Top[1]
    BY <1>2, <2>1, <1>7, <1>9 DEF TypeOK, CutToSpan
  <2>3. LoopInv' /\ stack' \in Windows
    BY <1>1, <1>2, <1>7, <1>9, <2>1, <2>2, CutKeeps DEF CutToSpan
  <2>4. TypeOK'
    BY <1>1, <1>2, <1>9, <2>3 DEF TypeOK, CutToSpan, Windows
  <2> QED BY <1>1, <1>4, <1>9, <2>3, <2>4 DEF CutToSpan
<1>10. CASE TooManyLogRequests
  <2>1. TypeOK'
    BY <1>1, <1>2, <1>10 DEF TypeOK, TooManyLogRequests, Errors
  <2>2. LoopInv'
    BY <1>1, <1>2, <1>7, <1>10, ReturnKeeps DEF TooManyLogRequests
  <2> QED BY <1>1, <1>4, <1>10, <2>1, <2>2 DEF TooManyLogRequests
<1>11. CASE OtherError
  <2>1. TypeOK'
    BY <1>1, <1>2, <1>11 DEF TypeOK, OtherError, Request, Errors
  <2>2. LoopInv'
    BY <1>1, <1>2, <1>7, <1>11, ReturnKeeps DEF OtherError, Request
  <2> QED BY <1>1, <1>4, <1>11, <2>1, <2>2 DEF OtherError, Request
<1>12. CASE Answered
  <2>1. PICK n \in AnswerSizes :
          IF collected + n > MaxLogs
          THEN /\ status' = "TooManyLogs"
               /\ UNCHANGED <<stack, out, collected, requests>>
          ELSE /\ stack' = Rest
               /\ out' = [b \in from..to |->
                            IF Top[1] <= b /\ b <= Top[2] THEN out[b] + 1 ELSE out[b]]
               /\ collected' = collected + n
               /\ requests' = requests + 1
               /\ UNCHANGED status
    BY <1>12 DEF Answered
  <2>2. attempts' = attempts + 1 /\ splits' = splits /\ spanCap' = spanCap /\ Popping
    BY <1>12 DEF Answered, Request
  <2>3. CASE collected + n > MaxLogs
    <3>1. TypeOK'
      BY <1>1, <1>2, <2>1, <2>2, <2>3 DEF TypeOK, Errors
    <3>2. LoopInv'
      BY <1>1, <1>2, <1>7, <2>1, <2>2, <2>3, ReturnKeeps
    <3> QED BY <1>1, <1>4, <2>2, <3>1, <3>2
  <2>4. CASE ~(collected + n > MaxLogs)
    <3>1. LoopInv' /\ stack' \in Windows
      BY <1>1, <1>2, <1>7, <2>1, <2>2, <2>4, AnswerKeeps
    <3>2. collected' \in 0..MaxLogs
      BY <1>2, <2>1, <2>4 DEF TypeOK
    <3>3. out' \in [from..to -> Nat]
      <4>1. out \in [from..to -> Nat]
        BY <1>2 DEF TypeOK
      <4>2. \A b \in from..to : (IF Top[1] <= b /\ b <= Top[2] THEN out[b] + 1 ELSE out[b]) \in Nat
        BY <4>1
      <4> QED BY <2>1, <2>4, <4>2
    <3>4. TypeOK'
      BY <1>1, <1>2, <2>1, <2>2, <2>4, <3>1, <3>2, <3>3 DEF TypeOK, Windows
    <3> QED BY <1>1, <1>4, <2>2, <3>1, <3>4
  <2> QED BY <2>3, <2>4
<1>13. ASSUME Popping, Top[1] # Top[2]
       PROVE  LET h == (Top[2] - Top[1]) \div 2 + 1 IN
              h \in Nat /\ 0 < h /\ h <= Top[2] - Top[1]
  <2>1. Top[1] \in Int /\ Top[2] \in Int /\ Top[1] < Top[2]
    BY <1>7, <1>13
  <2> QED BY <2>1, HalfInside
<1>14. CASE TransportError
  <2>1. attempts' = attempts + 1 /\ spanCap' = spanCap /\ Popping
        /\ UNCHANGED <<out, collected, requests>>
    BY <1>14 DEF TransportError, Request
  <2>2. CASE Top[1] = Top[2] \/ splits >= MaxSplits
    <3>1. status' = "Provider" /\ UNCHANGED <<stack, splits>>
      BY <1>14, <2>2 DEF TransportError
    <3>2. TypeOK'
      BY <1>1, <1>2, <2>1, <3>1 DEF TypeOK, Errors
    <3>3. LoopInv'
      BY <1>1, <1>2, <1>7, <2>1, <3>1, ReturnKeeps
    <3> QED BY <1>1, <1>4, <2>1, <3>2, <3>3
  <2>3. CASE ~(Top[1] = Top[2] \/ splits >= MaxSplits)
    <3>1. stack' = Halve /\ splits' = splits + 1 /\ status' = status
      BY <1>14, <2>3 DEF TransportError
    <3>2. LoopInv' /\ stack' \in Windows
      BY <1>1, <1>2, <1>7, <1>13, <2>1, <2>3, <3>1, CutKeeps DEF Halve
    <3>3. splits' \in 0..MaxSplits
      BY <1>2, <2>3, <3>1 DEF TypeOK
    <3>4. TypeOK'
      BY <1>1, <1>2, <2>1, <3>1, <3>2, <3>3 DEF TypeOK, Windows
    <3> QED BY <1>1, <1>4, <2>1, <3>2, <3>4
  <2> QED BY <2>2, <2>3
<1>15. CASE RangeError
  <2>1. attempts' = attempts + 1 /\ Popping /\ Fits
        /\ UNCHANGED <<out, collected, requests>>
    BY <1>15 DEF RangeError, Request
  <2>2. CASE Top[1] = Top[2] \/ splits >= MaxSplits
    <3>1. /\ status' \in {"RangeUnresolvable", "TooManySplits"}
          /\ UNCHANGED <<stack, splits, spanCap>>
      BY <1>15, <2>2 DEF RangeError
    <3>2. TypeOK'
      BY <1>1, <1>2, <2>1, <3>1 DEF TypeOK, Errors
    <3>3. LoopInv'
      BY <1>1, <1>2, <1>7, <2>1, <3>1, ReturnKeeps
    <3> QED BY <1>1, <1>4, <3>1, <3>2, <3>3
  <2>3. CASE ~(Top[1] = Top[2] \/ splits >= MaxSplits)
    <3>1. splits' = splits + 1 /\ status' = status
      BY <1>15, <2>3 DEF RangeError
    <3>2. splits' \in 0..MaxSplits
      BY <1>2, <2>3, <3>1 DEF TypeOK
    <3>3. PICK suggested \in SuggestedRanges, announced \in AnnouncedSpans :
            Narrowed(suggested, announced)
      BY <1>15, <2>3 DEF RangeError
    <3> DEFINE width == Top[2] - Top[1] + 1
               cap == CappedSpan(suggested, announced)
    <3>4. CASE \E n \in cap : 0 < n /\ n < width
      <4>1. PICK n \in cap : /\ stack' = Cut(n)
                             /\ spanCap' = IF suggested # {} \/ \A c \in spanCap : n <= c
                                           THEN {n} ELSE spanCap
        BY <3>3, <3>4 DEF Narrowed
      <4>2. cap \subseteq Nat /\ \A x, y \in cap : x = y
        BY DEF CappedSpan, SuggestedRanges, AnnouncedSpans
      <4>3. n \in Nat /\ 0 < n /\ n < width
        BY <3>4, <4>2
      <4>4. n <= Top[2] - Top[1]
        BY <1>7, <2>1, <4>3
      <4>5. LoopInv' /\ stack' \in Windows
        BY <1>1, <1>2, <1>7, <2>1, <3>1, <4>1, <4>3, <4>4, CutKeeps
      <4>6. \A c \in spanCap : n <= c
        <5> SUFFICES ASSUME NEW c \in spanCap PROVE n <= c
          OBVIOUS
        <5>1. c \in Nat /\ Top[2] - Top[1] < c
          BY <1>3, <2>1 DEF Fits
        <5>2. Top[1] \in Int /\ Top[2] \in Int
          BY <1>7, <2>1
        <5> QED BY <4>3, <4>4, <5>1, <5>2
      <4>7. spanCap' = {n}
        BY <4>1, <4>6
      <4>8. TypeOK'
        BY <1>1, <1>2, <2>1, <3>1, <3>2, <4>3, <4>5, <4>7 DEF TypeOK, Windows
      <4> QED BY <1>1, <4>5, <4>6, <4>7, <4>8
    <3>5. CASE ~(\E n \in cap : 0 < n /\ n < width)
      <4>1. stack' = Halve /\ spanCap' = spanCap
        BY <3>3, <3>5 DEF Narrowed
      <4>2. LoopInv' /\ stack' \in Windows
        BY <1>1, <1>2, <1>7, <1>13, <2>1, <2>3, <3>1, <4>1, CutKeeps DEF Halve
      <4>3. TypeOK'
        BY <1>1, <1>2, <2>1, <3>1, <3>2, <4>1, <4>2 DEF TypeOK, Windows
      <4> QED BY <1>1, <1>4, <4>1, <4>2, <4>3
    <3> QED BY <3>4, <3>5
  <2> QED BY <2>2, <2>3
<1> QED BY <1>5, <1>6, <1>8, <1>9, <1>10, <1>11, <1>12, <1>14, <1>15 DEF Next

LEMMA InitInv == Init => Inv
<1> SUFFICES ASSUME Init PROVE Inv
  OBVIOUS
<1> USE ConstantsAssumption DEF Init
<1>1. stack \in Windows /\ Len(stack) = 1 /\ stack[1] = <<from, to>> /\ Top = <<from, to>>
  BY DEF Windows, Top
<1>2. TypeOK
  BY <1>1 DEF TypeOK, Windows
<1>3. from <= to => Tiled
  BY <1>1 DEF Tiled
<1>4. stack # <<>>
  OBVIOUS
<1>5. Frontier = from
  BY <1>1, <1>4 DEF Frontier
<1>6. from <= to => Counted
  BY <1>1, <1>5 DEF Counted, RequestsBounded
<1>7. \A b \in from..to : out[b] = IF b < Frontier THEN 1 ELSE 0
  BY <1>5
<1> QED BY <1>2, <1>3, <1>6, <1>7 DEF Inv, LogsInv

LEMMA InvStep == Inv /\ [Next]_vars => Inv' /\ \A c \in spanCap : \E d \in spanCap' : d <= c
<1> SUFFICES ASSUME Inv, [Next]_vars
             PROVE  Inv' /\ \A c \in spanCap : \E d \in spanCap' : d <= c
  OBVIOUS
<1>1. from \in Int /\ to \in Int /\ spanCap \subseteq Nat /\ \A c, d \in spanCap : c = d
  BY DEF Inv, TypeOK, LogsInv
<1>2. CASE from > to
  <2>1. TypeOK' /\ attempts' = 0 /\ (stack' = <<>> \/ stack' = <<<<from', to'>>>>)
        /\ from' = from /\ to' = to /\ spanCap' = spanCap
    BY <1>2, EmptyStep
  <2> QED BY <1>1, <1>2, <2>1 DEF Inv, LogsInv
<1>3. CASE from <= to
  <2>1. TypeOK' /\ LoopInv' /\ from' = from /\ to' = to
        /\ (\A c, d \in spanCap' : c = d)
        /\ (\A c \in spanCap : \E d \in spanCap' : d <= c)
    BY <1>3, LoopStep
  <2> QED BY <1>1, <1>3, <2>1 DEF Inv, LogsInv, LoopInv
<1> QED BY <1>1, <1>2, <1>3

\* Every variable of get_logs keeps its type, whatever the node answers.
THEOREM TypeCorrect == Spec => []TypeOK
<1>1. Init => Inv BY InitInv
<1>2. Inv /\ [Next]_vars => Inv' BY InvStep
<1>3. Inv => TypeOK BY DEF Inv
<1> QED BY <1>1, <1>2, <1>3, PTL DEF Spec

\* get_logs returns Ok only after reading each block of from..to exactly
\* once, for every range, every configuration and every sequence of errors.
THEOREM ReadsEveryBlockOnce == Spec => []EveryBlockReadOnce
<1>1. Init => Inv BY InitInv
<1>2. Inv /\ [Next]_vars => Inv' BY InvStep
<1>3. Inv => EveryBlockReadOnce
  <2> SUFFICES ASSUME Inv, status = "ok", NEW b \in from..to PROVE out[b] = 1
    BY DEF EveryBlockReadOnce
  <2>1. from \in Int /\ to \in Int
    BY DEF Inv, TypeOK
  <2>2. from <= to
    BY <2>1
  <2>3. stack = <<>> /\ out[b] = IF b < Frontier THEN 1 ELSE 0
    BY <2>2 DEF Inv, LogsInv, Counted
  <2> QED BY <2>1, <2>3 DEF Frontier
<1> QED BY <1>1, <1>2, <1>3, PTL DEF Spec

\* A call over n blocks sends at most 2n - 1 requests, for any node.
THEOREM RequestsAreBounded == Spec => []RequestsBounded
<1>1. Init => Inv BY InitInv
<1>2. Inv /\ [Next]_vars => Inv' BY InvStep
<1>3. Inv => RequestsBounded
  <2>1. ASSUME Inv PROVE from \in Int /\ to \in Int
    BY <2>1 DEF Inv, TypeOK
  <2> QED BY <2>1 DEF Inv, LogsInv, Counted, RequestsBounded
<1> QED BY <1>1, <1>2, <1>3, PTL DEF Spec

\* span_cap only narrows, although a suggested range overwrites it without
\* comparing: the failed window already fitted the previous span.
THEOREM SpanOnlyNarrows == Spec => SpanCapNeverGrows
<1>1. Init => Inv BY InitInv
<1>2. Inv /\ [Next]_vars => Inv' /\ \A c \in spanCap : \E d \in spanCap' : d <= c BY InvStep
<1> QED BY <1>1, <1>2, PTL DEF Spec, SpanCapNeverGrows
----------------------------------------------------------------------------
(* get_logs implements LogReader *)

\* A split of the top window is no step of the reader.
LEMMA CutStands ==
  ASSUME Inv, from <= to, Popping, from' = from, to' = to,
         \/ \E cap \in spanCap : Top[2] - Top[1] >= cap /\ stack' = Cut(cap)
         \/ Top[1] # Top[2] /\ stack' = Halve
         \/ Top[1] # Top[2] /\ \E suggested \in SuggestedRanges, announced \in AnnouncedSpans :
                                 Narrowed(suggested, announced)
  PROVE  Frontier' = Frontier
<1>1. TypeOK /\ Tiled /\ stack # <<>> /\ stack \in Windows
  BY DEF Inv, LogsInv, Popping, TypeOK, Windows
<1>2. Top \in Int \X Int /\ Top[1] <= Top[2]
  <2>1. Len(stack) \in 1..Len(stack) /\ Top \in Int \X Int
    BY <1>1, RestIndex
  <2> QED BY <1>1, <2>1 DEF Tiled, Top
<1>3. ASSUME NEW n \in Nat, 0 < n, n <= Top[2] - Top[1], stack' = Cut(n)
      PROVE  Frontier' = Frontier
  BY <1>1, <1>3, CutTiles
<1>4. ASSUME Top[1] # Top[2], stack' = Halve PROVE Frontier' = Frontier
  <2>1. Top[1] \in Int /\ Top[2] \in Int /\ Top[1] < Top[2]
    BY <1>2, <1>4
  <2> QED BY <1>3, <1>4, <2>1, HalfInside DEF Halve
<1>5. ASSUME NEW cap \in spanCap, Top[2] - Top[1] >= cap, stack' = Cut(cap)
      PROVE  Frontier' = Frontier
  <2>1. cap \in Nat /\ 0 < cap /\ cap <= Top[2] - Top[1]
    BY <1>1, <1>2, <1>5 DEF TypeOK
  <2> QED BY <1>3, <1>5, <2>1
<1>6. ASSUME Top[1] # Top[2], NEW suggested \in SuggestedRanges,
             NEW announced \in AnnouncedSpans, Narrowed(suggested, announced)
      PROVE  Frontier' = Frontier
  <2> DEFINE cap == CappedSpan(suggested, announced)
             width == Top[2] - Top[1] + 1
  <2>1. cap \subseteq Nat /\ \A x, y \in cap : x = y
    BY ConstantsAssumption DEF CappedSpan, SuggestedRanges, AnnouncedSpans
  <2>2. CASE \E n \in cap : 0 < n /\ n < width
    <3>1. PICK n \in cap : stack' = Cut(n)
      BY <1>6, <2>2 DEF Narrowed
    <3>2. n \in Nat /\ 0 < n /\ n < width
      BY <2>1, <2>2
    <3>3. n <= Top[2] - Top[1]
      BY <1>2, <3>2
    <3> QED BY <1>3, <3>1, <3>2, <3>3
  <2>3. CASE ~(\E n \in cap : 0 < n /\ n < width)
    BY <1>4, <1>6, <2>3 DEF Narrowed
  <2> QED BY <2>2, <2>3
<1> QED BY <1>4, <1>5, <1>6

\* On a non-empty range every step delivers the blocks below the new
\* frontier, returns, fails, or changes nothing the caller sees.
LEMMA ReaderStep ==
  ASSUME Inv, Next, from <= to
  PROVE  /\ from' = from /\ to' = to
         /\ \/ Frontier' = Frontier /\ out' = out /\ status' = status
            \/ /\ status = "running" /\ status' = status
               /\ Frontier <= to /\ Frontier' \in (Frontier + 1)..(to + 1)
               /\ out' = [b \in from..to |-> IF Frontier <= b /\ b < Frontier'
                                             THEN out[b] + 1 ELSE out[b]]
            \/ /\ status = "running" /\ status' = "ok"
               /\ Frontier > to /\ Frontier' = Frontier /\ out' = out
            \/ /\ status = "running" /\ status' \in Errors
               /\ Frontier <= to /\ Frontier' = Frontier /\ out' = out
<1>1. from' = from /\ to' = to
  BY DEF Next
<1>2. TypeOK /\ Tiled /\ stack \in Windows /\ from \in Int /\ to \in Int
  BY DEF Inv, LogsInv, TypeOK, Windows
<1>3. ASSUME Popping
      PROVE  /\ stack # <<>> /\ Top \in Int \X Int /\ Top[1] <= Top[2] /\ Top[2] <= to
             /\ status = "running" /\ Frontier = Top[1]
  <2>1. stack # <<>> /\ status = "running" /\ Frontier = Top[1]
    BY <1>3 DEF Popping, Frontier
  <2>2. Len(stack) \in 1..Len(stack) /\ Top \in Int \X Int /\ Len(stack) \in Nat
    BY <1>2, <2>1, RestIndex
  <2>3. Top[1] <= Top[2] /\ Top[2] + Len(stack) <= to + 1
    BY <1>2, <2>2 DEF Tiled, Top
  <2> QED BY <1>2, <2>1, <2>2, <2>3
<1>4. ASSUME stack' = stack PROVE Frontier' = Frontier
  BY <1>1, <1>4 DEF Frontier, Top
<1>5. CASE Finish
  <2>1. Frontier = to + 1
    BY <1>5 DEF Finish, Frontier
  <2> QED BY <1>1, <1>2, <1>4, <1>5, <2>1 DEF Finish
<1>6. CASE SkipEmpty
  BY <1>2, <1>3, <1>6 DEF SkipEmpty
<1>7. CASE CutToSpan
  <2>1. Frontier' = Frontier
    BY <1>1, <1>7, CutStands DEF CutToSpan
  <2> QED BY <1>1, <1>7, <2>1 DEF CutToSpan
<1>8. CASE TooManyLogRequests
  <2>1. Popping /\ stack' = stack /\ out' = out /\ status' \in Errors
    BY <1>8 DEF TooManyLogRequests, Errors
  <2>2. Frontier <= to
    BY <1>2, <1>3, <2>1
  <2> QED BY <1>1, <1>3, <1>4, <2>1, <2>2
<1>9. ASSUME Popping, stack' = stack, out' = out, status' \in Errors
      PROVE  /\ status = "running" /\ status' \in Errors
             /\ Frontier <= to /\ Frontier' = Frontier /\ out' = out
  <2>1. Frontier <= to
    BY <1>2, <1>3, <1>9
  <2> QED BY <1>3, <1>4, <1>9, <2>1
<1>10. CASE OtherError
  BY <1>1, <1>9, <1>10 DEF OtherError, Request, Errors
<1>11. CASE Answered
  <2>1. Popping
    BY <1>11 DEF Answered, Request
  <2>2. CASE status' = "TooManyLogs" /\ UNCHANGED <<stack, out, collected, requests>>
    BY <1>1, <1>9, <2>1, <2>2 DEF Errors
  <2>3. CASE /\ stack' = Rest
             /\ out' = [b \in from..to |->
                          IF Top[1] <= b /\ b <= Top[2] THEN out[b] + 1 ELSE out[b]]
             /\ status' = status
    <3>1. Frontier' = Top[2] + 1
      BY <1>1, <1>2, <1>3, <2>1, <2>3, PopTiles
    <3>2. \A b \in from..to : (Top[1] <= b /\ b <= Top[2]) <=> (Frontier <= b /\ b < Frontier')
      BY <1>2, <1>3, <2>1, <3>1
    <3>3. out' = [b \in from..to |-> IF Frontier <= b /\ b < Frontier'
                                     THEN out[b] + 1 ELSE out[b]]
      BY <2>3, <3>2
    <3>4. Frontier <= to /\ Frontier' \in (Frontier + 1)..(to + 1)
      BY <1>2, <1>3, <2>1, <3>1
    <3> QED BY <1>1, <1>3, <2>1, <2>3, <3>3, <3>4
  <2> QED BY <1>11, <2>2, <2>3 DEF Answered
<1>12. CASE TransportError
  <2>1. Popping /\ out' = out
    BY <1>12 DEF TransportError, Request
  <2>2. CASE status' = "Provider" /\ UNCHANGED <<stack, splits>>
    BY <1>1, <1>9, <2>1, <2>2 DEF Errors
  <2>3. CASE Top[1] # Top[2] /\ stack' = Halve /\ status' = status
    BY <1>1, <2>1, <2>3, CutStands
  <2> QED BY <1>12, <2>2, <2>3 DEF TransportError
<1>13. CASE RangeError
  <2>1. Popping /\ out' = out
    BY <1>13 DEF RangeError, Request
  <2>2. CASE status' \in {"RangeUnresolvable", "TooManySplits"} /\ stack' = stack
    BY <1>1, <1>9, <2>1, <2>2 DEF Errors
  <2>3. CASE /\ Top[1] # Top[2] /\ status' = status
             /\ \E suggested \in SuggestedRanges, announced \in AnnouncedSpans :
                  Narrowed(suggested, announced)
    BY <1>1, <2>1, <2>3, CutStands
  <2> QED BY <1>13, <2>2, <2>3 DEF RangeError
<1> QED BY <1>5, <1>6, <1>7, <1>8, <1>10, <1>11, <1>12, <1>13 DEF Next

\* get_logs implements LogReader: whatever windows it asks for and however
\* the node refuses them, its caller sees the range delivered in ascending
\* order, each block once, then Ok, or an error before the end.
THEOREM ImplementsReader == Spec => ReadsInOrder
<1> DEFINE nxt == IF from > to THEN from ELSE Frontier
<1>1. Init => Reader!Init
  <2> SUFFICES ASSUME Init PROVE Reader!Init
    OBVIOUS
  <2>1. Frontier = from
    <3>1. stack = <<<<from, to>>>>
      BY DEF Init
    <3> QED BY <3>1 DEF Frontier, Top
  <2> QED BY <2>1 DEF Init, Reader!Init
<1>2. Inv /\ [Next]_vars => [Reader!Next]_(Reader!vars)
  <2> SUFFICES ASSUME Inv, [Next]_vars PROVE [Reader!Next]_(Reader!vars)
    OBVIOUS
  <2>1. from \in Int /\ to \in Int
    BY DEF Inv, TypeOK
  <2>2. CASE UNCHANGED vars
    <3>1. Frontier' = Frontier
      BY <2>2 DEF vars, Frontier, Top
    <3> QED BY <2>2, <3>1 DEF vars, Reader!vars
  <2>3. CASE Next /\ from > to
    <3>1. from' = from /\ to' = to
      BY <2>3 DEF Next
    <3>2. stack = <<>> \/ stack = <<<<from, to>>>>
      BY <2>3 DEF Inv, LogsInv
    <3>3. ASSUME Popping, Top[1] <= Top[2] PROVE FALSE
      BY <2>1, <2>3, <3>2, <3>3 DEF Popping, Top
    <3>4. CASE Finish
      BY <2>1, <2>3, <3>1, <3>4 DEF Finish, Reader!Next, Reader!Return
    <3>5. CASE SkipEmpty
      BY <2>1, <2>3, <3>1, <3>5 DEF SkipEmpty, Reader!vars
    <3> QED BY <2>3, <3>3, <3>4, <3>5
            DEF Next, CutToSpan, TooManyLogRequests, Request, Answered, TransportError,
                RangeError, OtherError
  <2>4. CASE Next /\ from <= to
    <3>1. nxt = Frontier /\ nxt' = Frontier' /\ from' = from /\ to' = to
      BY <2>1, <2>4, ReaderStep
    <3> QED BY <2>4, <3>1, ReaderStep
            DEF Reader!Next, Reader!Deliver, Reader!Return, Reader!Fail, Reader!vars
  <2> QED BY <2>1, <2>2, <2>3, <2>4
<1>3. Init => Inv BY InitInv
<1>4. Inv /\ [Next]_vars => Inv' BY InvStep
<1> QED BY <1>1, <1>2, <1>3, <1>4, PTL DEF Spec, ReadsInOrder, Reader!Spec
=============================================================================
