--------------------------- MODULE Sx1272_proofs ---------------------------
(***************************************************************************)
(* Proofs about the timers of the hardware and the driver that shares them *)
(* with the state machine, for all delays and timeouts, every latency of   *)
(* the interrupt of the alarm and every length of a behaviour.             *)
(***************************************************************************)
EXTENDS Sx1272, SequenceTheorems, WellFoundedInduction, TLAPS

(* The records of the handler and of the main loop.                        *)
Handlers ==
  [at : {"outside", "loop", "rearm", "restart", "timeout", "fault"}]
    \cup [at : {"read"}, elapsed : 0 .. MaxElapsed]
    \cup [at : {"taken", "call"}, timer : Timers]

Calls == {NotCalling} \cup [timer : {Sm, Cad}] \cup [timer : {Radio}, op : {"rx", "tx"}]

Operations == {"idle", "rx", "tx", "cad"}

Distinct(s) == \A i, j \in 1 .. Len(s) : s[i] = s[j] => i = j

Listing ==
  /\ list \in Seq(Timers) /\ Distinct(list)
  /\ ts \in [Timers -> Nat] /\ reload \in [Timers -> Nat]
  /\ left \in [Timers -> {Unset} \cup Nat]
  /\ running \in BOOLEAN /\ alarm \in Nat /\ elapsed \in 0 .. MaxElapsed

Typed ==
  /\ Listing
  /\ pending \in BOOLEAN /\ late \in 0 .. MaxLatency
  /\ handler \in Handlers /\ main \in Calls
  /\ state \in Operations /\ chip \in Operations
  /\ ends \in 0 .. 2 /\ raced \in BOOLEAN /\ past \subseteq {"clash"}

(* An operation under way is not reported yet and is what the radio does,  *)
(* unless its timeout is being handled.                                    *)
Ending ==
  /\ state # "idle" => chip = state /\ ends = 0
  /\ chip # "idle" => chip = state \/ (At("timeout") /\ state = "idle")
  /\ At("timeout") => chip # "cad" /\ ends <= 1 /\ (~raced => ends = 0)
  /\ main.timer = Radio => state = "idle"
  /\ ~raced => ends <= 1

(* The alarm is set for the head, but for the steps of its handler.        *)
Alarmed ==
  /\ list = <<>> => ~running
  /\ (At("outside") \/ At("read")) /\ list # <<>> => running
  /\ running /\ ~At("read") => alarm > 0 \/ pending

(* The timers of the list are those somebody waits for, but for the one    *)
(* whose callback is called.  The one that is handled is due.              *)
Waiting ==
  /\ At("taken") => list # <<>> /\ TimerListHead = handler.timer /\ ts[handler.timer] = 0
  /\ At("call") => ~Listed(handler.timer) /\ left[handler.timer] = 0
  /\ ~At("fault") =>
       \A t \in Timers : left[t] # Unset <=> Listed(t) \/ (At("call") /\ handler.timer = t)

(* No timer is due later than the list has it.                             *)
Timely == \A i \in DOMAIN list : left[list[i]] <= Aggregated[i]

InTime == Timely /\ (At("read") => handler.elapsed <= elapsed)

Handled == Undisturbed => Waiting /\ InTime
-----------------------------------------------------------------------------
(***************************************************************************)
(* Numbers and sequences.                                                  *)
(***************************************************************************)
(* A set of numbers has a least one. *)
LEMMA LeastNumber ==
  ASSUME NEW T, T \subseteq Nat, T # {}
  PROVE  \E n \in T : \A m \in T : n <= m
<1>1. IsWellFoundedOn(OpToRel(<, Nat), Nat) BY NatLessThanWellFounded
<1>2. PICK n \in T : \A m \in T : ~(<<m, n>> \in OpToRel(<, Nat))
  BY <1>1, WFMin
<1>3. \A m \in T : ~(m < n) BY <1>2 DEF OpToRel
<1> QED BY <1>3

LEMMA InsertedAt ==
  ASSUME NEW S, NEW s \in Seq(S), NEW k \in 0 .. Len(s), NEW e \in S
  PROVE  /\ InsertAt(s, k + 1, e) \in Seq(S)
         /\ Len(InsertAt(s, k + 1, e)) = Len(s) + 1
         /\ \A i \in 1 .. Len(s) + 1 :
              InsertAt(s, k + 1, e)[i] =
                IF i <= k THEN s[i] ELSE IF i = k + 1 THEN e ELSE s[i - 1]
<1> DEFINE a == SubSeq(s, 1, k)
           b == SubSeq(s, k + 1, Len(s))
<1>1. Len(s) \in Nat /\ \A i \in 1 .. Len(s) : s[i] \in S
  BY LenProperties, ElementOfSeq
<1>2. a \in Seq(S) /\ Len(a) = k /\ \A i \in 1 .. k : a[i] = s[i]
  BY <1>1, SubSeqProperties
<1>3. b \in Seq(S) /\ Len(b) = Len(s) - k
      /\ \A i \in 1 .. Len(s) - k : b[i] = s[k + i]
  BY <1>1, SubSeqProperties
<1>4. InsertAt(s, k + 1, e) = (a \o <<e>>) \o b
  <2>1. (k + 1) - 1 = k BY <1>1
  <2> QED BY <2>1 DEF InsertAt
<1> DEFINE c == a \o <<e>>
<1>5. <<e>> \in Seq(S) /\ Len(<<e>>) = 1 /\ <<e>>[1] = e OBVIOUS
<1> HIDE DEF a, b
<1>6. c \in Seq(S) /\ Len(c) = k + 1
      /\ \A i \in 1 .. k + 1 : c[i] = IF i <= k THEN s[i] ELSE e
  <2>1. c \in Seq(S) /\ Len(c) = k + 1
        /\ \A i \in 1 .. k + 1 : c[i] = IF i <= k THEN a[i] ELSE <<e>>[i - k]
    BY <1>2, <1>5, ConcatProperties
  <2>2. \A i \in 1 .. k + 1 : ~(i <= k) => i - k = 1 OBVIOUS
  <2> HIDE DEF c
  <2>3. ASSUME NEW i \in 1 .. k + 1 PROVE c[i] = IF i <= k THEN s[i] ELSE e
    <3>1. CASE i <= k BY <3>1, <2>1, <1>2
    <3>2. CASE ~(i <= k)
      <4>1. i - k = 1 BY <3>2, <2>2
      <4>2. c[i] = <<e>>[i - k] BY <3>2, <2>1
      <4> QED BY <4>1, <4>2, <3>2, <1>5
    <3> QED BY <3>1, <3>2
  <2> QED BY <2>1, <2>3
<1> HIDE DEF c
<1> DEFINE d == c \o b
<1>7. d \in Seq(S) /\ Len(d) = Len(s) + 1
      /\ \A i \in 1 .. Len(s) + 1 : d[i] = IF i <= k + 1 THEN c[i] ELSE b[i - (k + 1)]
  <2>1. Len(c) + Len(b) = Len(s) + 1 BY <1>1, <1>3, <1>6
  <2> QED BY <2>1, <1>3, <1>6, ConcatProperties
<1>8. InsertAt(s, k + 1, e) = d BY <1>4 DEF c, d
<1> HIDE DEF c, d
<1>9. ASSUME NEW i \in 1 .. Len(s) + 1
      PROVE  d[i] = IF i <= k THEN s[i] ELSE IF i = k + 1 THEN e ELSE s[i - 1]
  <2>1. CASE i <= k + 1 BY <2>1, <1>1, <1>6, <1>7
  <2>2. CASE i > k + 1
    <3>1. i - (k + 1) \in 1 .. Len(s) - k /\ k + (i - (k + 1)) = i - 1 BY <2>2, <1>1
    <3>2. d[i] = b[i - (k + 1)] BY <2>2, <1>7
    <3>3. b[i - (k + 1)] = s[i - 1] BY <3>1, <1>3
    <3> QED BY <2>2, <3>2, <3>3
  <2> QED BY <2>1, <2>2, <1>1
<1> QED BY <1>7, <1>8, <1>9

LEMMA RemovedAt ==
  ASSUME NEW S, NEW s \in Seq(S), NEW k \in 1 .. Len(s)
  PROVE  /\ RemoveAt(s, k) \in Seq(S)
         /\ Len(RemoveAt(s, k)) = Len(s) - 1
         /\ \A i \in 1 .. Len(s) - 1 :
              RemoveAt(s, k)[i] = IF i < k THEN s[i] ELSE s[i + 1]
<1> DEFINE a == SubSeq(s, 1, k - 1)
           b == SubSeq(s, k + 1, Len(s))
<1>1. Len(s) \in Nat /\ k \in Nat /\ \A i \in 1 .. Len(s) : s[i] \in S
  BY LenProperties, ElementOfSeq
<1>2. a \in Seq(S) /\ Len(a) = k - 1 /\ \A i \in 1 .. k - 1 : a[i] = s[i]
  BY <1>1, SubSeqProperties
<1>3. b \in Seq(S) /\ Len(b) = Len(s) - k
      /\ \A i \in 1 .. Len(s) - k : b[i] = s[k + i]
  BY <1>1, SubSeqProperties
<1>4. RemoveAt(s, k) = a \o b BY DEF RemoveAt
<1> HIDE DEF a, b
<1>5. a \o b \in Seq(S) /\ Len(a \o b) = Len(s) - 1
      /\ \A i \in 1 .. Len(s) - 1 : (a \o b)[i] = IF i <= k - 1 THEN a[i] ELSE b[i - (k - 1)]
  BY SMTT(60), <1>1, <1>2, <1>3, ConcatProperties
<1>6. ASSUME NEW i \in 1 .. Len(s) - 1
      PROVE  (a \o b)[i] = IF i < k THEN s[i] ELSE s[i + 1]
  <2>1. CASE i < k BY <2>1, <1>1, <1>2, <1>5
  <2>2. CASE ~(i < k)
    <3>1. i - (k - 1) \in 1 .. Len(s) - k /\ k + (i - (k - 1)) = i + 1 BY <2>2, <1>1
    <3>2. (a \o b)[i] = b[i - (k - 1)] BY <2>2, <1>1, <1>5
    <3>3. b[i - (k - 1)] = s[i + 1] BY <3>1, <1>3
    <3> QED BY <2>2, <3>2, <3>3
  <2> QED BY <2>1, <2>2
<1> QED BY <1>4, <1>5, <1>6
-----------------------------------------------------------------------------
(***************************************************************************)
(* The time that is left to each timer of a list: to the first one r, to   *)
(* every other one w[t] more than to the one before it.                    *)
(***************************************************************************)
AreSums(D, s, w, r) ==
  D = [i \in DOMAIN s |-> IF i = 1 THEN r ELSE D[i - 1] + w[s[i]]]

(* There are such sums, and they are numbers. *)
LEMMA SumsExist ==
  ASSUME NEW s \in Seq(Timers), NEW w \in [Timers -> Nat], NEW r \in Nat
  PROVE  \E D \in [1 .. Len(s) -> Nat] : AreSums(D, s, w, r)
<1> DEFINE Value(D, i) == IF i = 1 THEN r ELSE D[i - 1] + w[s[i]]
           Upto(n) == \E D \in [1 .. n -> Nat] : \A i \in 1 .. n : D[i] = Value(D, i)
           T == {n \in Nat : n <= Len(s) /\ ~Upto(n)}
<1>1. Len(s) \in Nat /\ DOMAIN s = 1 .. Len(s) /\ \A i \in 1 .. Len(s) : w[s[i]] \in Nat
  BY LenProperties, ElementOfSeq
<1>2. T = {}
  <2>1. SUFFICES ASSUME T # {} PROVE FALSE
    OBVIOUS
  <2>2. PICK n \in T : \A m \in T : n <= m BY <2>1, LeastNumber
  <2>3. n # 0
    <3>1. Upto(0)
      <4>1. [i \in 1 .. 0 |-> 0] \in [1 .. 0 -> Nat] OBVIOUS
      <4>2. \A i \in 1 .. 0 : FALSE OBVIOUS
      <4> QED BY <4>1, <4>2
    <3> QED BY <3>1
  <2>4. n - 1 \in Nat /\ n - 1 <= Len(s) /\ n <= Len(s) BY <1>1, <2>3
  <2>5. Upto(n - 1)
    <3> HIDE DEF Upto
    <3>1. ~(n <= n - 1) BY <2>4
    <3> QED BY <3>1, <2>2, <2>4
  <2>6. PICK D \in [1 .. n - 1 -> Nat] : \A i \in 1 .. n - 1 : D[i] = Value(D, i)
    BY <2>5
  <2> DEFINE E == [i \in 1 .. n |-> IF i = n THEN Value(D, n) ELSE D[i]]
  <2>7. Value(D, n) \in Nat
    <3>1. n # 1 => n - 1 \in 1 .. n - 1 /\ n \in 1 .. Len(s) BY <2>3, <2>4
    <3>2. n # 1 => D[n - 1] \in Nat /\ w[s[n]] \in Nat BY <3>1, <1>1, <2>6
    <3> QED BY <3>2
  <2>8. E \in [1 .. n -> Nat]
    <3>1. \A i \in 1 .. n : i # n => i \in 1 .. n - 1 BY <2>4
    <3> HIDE DEF Value
    <3> QED BY <3>1, <2>6, <2>7
  <2>9. ASSUME NEW i \in 1 .. n PROVE E[i] = Value(E, i)
    <3>1. i # 1 => E[i - 1] = D[i - 1]
      <4>1. i # 1 => i - 1 \in 1 .. n /\ i - 1 # n BY <2>4
      <4> HIDE DEF Value
      <4> QED BY <4>1
    <3>2. Value(E, i) = Value(D, i) BY <3>1
    <3>3. i # n => i \in 1 .. n - 1 BY <2>4
    <3>4. E[i] = IF i = n THEN Value(D, n) ELSE D[i] OBVIOUS
    <3> HIDE DEF E, Value
    <3> QED BY <3>2, <3>3, <3>4, <2>6
  <2> HIDE DEF E
  <2>10. Upto(n) BY <2>8, <2>9
  <2> QED BY <2>10
<1>3. PICK D \in [1 .. Len(s) -> Nat] : \A i \in 1 .. Len(s) : D[i] = Value(D, i)
  <2>1. Upto(Len(s))
    <3> HIDE DEF Upto
    <3> QED BY <1>1, <1>2
  <2> QED BY <2>1
<1>4. AreSums(D, s, w, r)
  <2>1. D = [i \in 1 .. Len(s) |-> D[i]] OBVIOUS
  <2>2. D = [i \in 1 .. Len(s) |-> Value(D, i)] BY <2>1, <1>3
  <2> QED BY <2>2, <1>1 DEF AreSums
<1> QED BY <1>4

LEMMA SumsUnique ==
  ASSUME NEW s \in Seq(Timers), NEW w, NEW r,
         NEW D, AreSums(D, s, w, r), NEW E, AreSums(E, s, w, r)
  PROVE  D = E
<1>1. Len(s) \in Nat /\ DOMAIN s = 1 .. Len(s) BY LenProperties
<1> DEFINE T == {i \in 1 .. Len(s) : D[i] # E[i]}
<1>2. \A i \in 1 .. Len(s) :
        /\ D[i] = IF i = 1 THEN r ELSE D[i - 1] + w[s[i]]
        /\ E[i] = IF i = 1 THEN r ELSE E[i - 1] + w[s[i]]
  BY <1>1 DEF AreSums
<1>3. T = {}
  <2>1. SUFFICES ASSUME T # {} PROVE FALSE
    OBVIOUS
  <2>2. T \subseteq Nat BY <1>1
  <2>3. PICK n \in T : \A m \in T : n <= m BY <2>1, <2>2, LeastNumber
  <2>4. n # 1 => n - 1 \in 1 .. Len(s) /\ ~(n <= n - 1) BY <1>1
  <2>5. n # 1 => D[n - 1] = E[n - 1] BY <2>3, <2>4
  <2> QED BY <1>2, <2>3, <2>5
<1>4. D = [i \in 1 .. Len(s) |-> D[i]] /\ E = [i \in 1 .. Len(s) |-> E[i]]
  BY <1>1 DEF AreSums
<1>5. \A i \in 1 .. Len(s) : D[i] = E[i] BY <1>3
<1> QED BY <1>4, <1>5

(* What they are.                                                          *)
LEMMA SumsAre ==
  ASSUME NEW s \in Seq(Timers), NEW w \in [Timers -> Nat], NEW r \in Nat,
         NEW D, AreSums(D, s, w, r)
  PROVE  /\ D \in [1 .. Len(s) -> Nat]
         /\ Len(s) > 0 => D[1] = r
         /\ \A i \in 2 .. Len(s) : D[i] = D[i - 1] + w[s[i]]
<1>1. PICK E \in [1 .. Len(s) -> Nat] : AreSums(E, s, w, r) BY SumsExist
<1>2. D = E BY <1>1, SumsUnique
<1>3. Len(s) \in Nat /\ DOMAIN s = 1 .. Len(s) BY LenProperties
<1>4. \A i \in 1 .. Len(s) : D[i] = IF i = 1 THEN r ELSE D[i - 1] + w[s[i]]
  BY <1>3 DEF AreSums
<1>5. Len(s) > 0 => D[1] = r BY <1>3, <1>4
<1>6. \A i \in 2 .. Len(s) : i \in 1 .. Len(s) /\ i # 1 BY <1>3
<1> QED BY <1>1, <1>2, <1>4, <1>5, <1>6

Steps(D, s, w, r) ==
  /\ Len(s) > 0 => D[1] = r
  /\ \A i \in 2 .. Len(s) : D[i] = D[i - 1] + w[s[i]]

(* What aggregatedTimestamp is in a state, or in the next one.             *)
LEMMA ChosenSums ==
  ASSUME NEW s \in Seq(Timers), NEW w \in [Timers -> Nat], NEW r \in Nat, NEW A,
         A = CHOOSE D : D = [i \in DOMAIN s |-> IF i = 1 THEN r ELSE D[i - 1] + w[s[i]]]
  PROVE  /\ AreSums(A, s, w, r) /\ A \in [1 .. Len(s) -> Nat]
         /\ Steps(A, s, w, r)
<1>1. PICK D \in [1 .. Len(s) -> Nat] : AreSums(D, s, w, r) BY SumsExist
<1>2. AreSums(A, s, w, r) BY <1>1 DEF AreSums
<1>3. A = D BY <1>1, <1>2, SumsUnique
<1>4. A \in [1 .. Len(s) -> Nat] BY <1>1, <1>3
<1>5. Steps(A, s, w, r)
  BY ONLY s \in Seq(Timers), w \in [Timers -> Nat], r \in Nat, <1>2, SumsAre DEF Steps
<1> QED BY <1>2, <1>4, <1>5

(* What shows that numbers are the sums.                                   *)
LEMMA SumsBy ==
  ASSUME NEW s \in Seq(Timers), NEW w, NEW r, NEW D,
         D = [i \in 1 .. Len(s) |-> D[i]],
         Len(s) > 0 => D[1] = r,
         \A i \in 2 .. Len(s) : D[i] = D[i - 1] + w[s[i]]
  PROVE  AreSums(D, s, w, r)
<1>1. Len(s) \in Nat /\ DOMAIN s = 1 .. Len(s) BY LenProperties
<1>2. \A i \in 1 .. Len(s) : D[i] = IF i = 1 THEN r ELSE D[i - 1] + w[s[i]]
  <2> SUFFICES ASSUME NEW i \in 1 .. Len(s)
               PROVE  D[i] = IF i = 1 THEN r ELSE D[i - 1] + w[s[i]]
    OBVIOUS
  <2>1. i = 1 \/ i \in 2 .. Len(s) BY <1>1
  <2>2. i \in 2 .. Len(s) => i # 1 OBVIOUS
  <2>3. i = 1 => Len(s) > 0 BY <1>1
  <2> QED BY <2>1, <2>2, <2>3
<1>3. D = [i \in 1 .. Len(s) |-> IF i = 1 THEN r ELSE D[i - 1] + w[s[i]]]
  BY <1>2
<1> QED BY <1>1, <1>3 DEF AreSums
(* The k-th timer goes, and the next one inherits the time x it had left.  *)
Inherited(s, w, k, x) ==
  [u \in Timers |-> IF u = s[k] THEN 0
                    ELSE IF k < Len(s) /\ u = s[k + 1] THEN w[u] + x ELSE w[u]]

Without(A, n, k) == [i \in 1 .. n - 1 |-> IF i < k THEN A[i] ELSE A[i + 1]]

LEMMA SumsRemoved ==
  ASSUME NEW s \in Seq(Timers), Distinct(s), NEW w \in [Timers -> Nat], NEW r \in Nat,
         NEW A, AreSums(A, s, w, r), NEW k \in 1 .. Len(s),
         NEW x \in Nat, k = 1 => x = r, k # 1 => x = w[s[k]],
         NEW q \in Nat, k = 1 /\ Len(s) > 1 => q = A[2], k # 1 => q = r
  PROVE  AreSums(Without(A, Len(s), k), RemoveAt(s, k), Inherited(s, w, k, x), q)
<1> DEFINE z == RemoveAt(s, k)
           v == Inherited(s, w, k, x)
           D == [i \in 1 .. Len(s) - 1 |-> IF i < k THEN A[i] ELSE A[i + 1]]
<1>1. /\ z \in Seq(Timers) /\ Len(z) = Len(s) - 1
      /\ \A i \in 1 .. Len(s) - 1 : z[i] = IF i < k THEN s[i] ELSE s[i + 1]
  BY RemovedAt
<1>a. Len(s) \in Nat /\ Len(s) > 0 BY LenProperties
<1>b. \A i \in 1 .. Len(s) : s[i] \in Timers /\ w[s[i]] \in Nat BY ElementOfSeq
<1>c. /\ A \in [1 .. Len(s) -> Nat] /\ A[1] = r
      /\ \A i \in 2 .. Len(s) : A[i] = A[i - 1] + w[s[i]]
  BY <1>a, SumsAre
<1>d. \A i \in 1 .. Len(s) : A[i] \in Nat BY <1>c
<1>2. Len(z) = Len(s) - 1 /\ Len(z) \in Int BY <1>1, <1>a
<1>3. v = [u \in Timers |->
             IF u = s[k] THEN 0
             ELSE IF k < Len(s) /\ u = s[k + 1] THEN w[u] + x ELSE w[u]]
  BY DEF Inherited
<1> HIDE DEF z, v
<1>5. Len(z) > 0 => D[1] = q
  <2>1. CASE k = 1 BY <2>1, <1>2, <1>a
  <2>2. CASE k # 1 BY <2>2, <1>2, <1>a, <1>c
  <2> QED BY <2>1, <2>2
<1>6. ASSUME NEW i \in 2 .. Len(z) PROVE D[i] = D[i - 1] + v[z[i]]
  <2>1. /\ i \in 1 .. Len(s) - 1 /\ i - 1 \in 1 .. Len(s) - 1
        /\ i \in 2 .. Len(s) /\ i + 1 \in 2 .. Len(s) /\ (i + 1) - 1 = i
    BY <1>2, <1>a
  <2>2. CASE i < k
    <3>a. i - 1 < k BY <2>1, <2>2, <1>a
    <3>b. D[i] = A[i] /\ D[i - 1] = A[i - 1] BY <2>1, <2>2, <3>a
    <3>c. z[i] = s[i] BY <2>1, <2>2, <1>1
    <3>1. D[i] = A[i] /\ D[i - 1] = A[i - 1] /\ z[i] = s[i] BY <3>b, <3>c
    <3>2. v[s[i]] = w[s[i]]
      <4>1. i # k /\ i # k + 1 /\ i \in 1 .. Len(s) BY <2>1, <2>2
      <4>2. s[i] # s[k] BY <4>1 DEF Distinct
      <4>3. k < Len(s) => s[i] # s[k + 1] BY <4>1, <1>a DEF Distinct
      <4> QED BY <4>1, <4>2, <4>3, <1>3, <1>b
    <3> QED BY <3>1, <3>2, <2>1, <1>c
  <2>3. CASE i >= k
    <3>a. ~(i < k) BY <2>1, <2>3, <1>a
    <3>b. D[i] = A[i + 1] BY <2>1, <3>a
    <3>c. z[i] = s[i + 1] BY <2>1, <3>a, <1>1
    <3>1. D[i] = A[i + 1] /\ z[i] = s[i + 1] BY <3>b, <3>c
    <3>2. A[i + 1] = A[i] + w[s[i + 1]] BY <2>1, <1>c
    <3>3. CASE i = k
      <4>1. D[i - 1] = A[i - 1] BY <3>3, <2>1
      <4>2. A[i] = A[i - 1] + w[s[k]] /\ x = w[s[k]] BY <3>3, <2>1, <1>c
      <4>3. v[s[k + 1]] = w[s[k + 1]] + x
        <5>1. k < Len(s) /\ k + 1 \in 1 .. Len(s) /\ k # k + 1 BY <3>3, <2>1, <1>2, <1>a
        <5>2. s[k + 1] # s[k] BY <5>1 DEF Distinct
        <5> QED BY <5>1, <5>2, <1>3, <1>b
      <4>4. A[i - 1] \in Nat /\ w[s[k]] \in Nat /\ w[s[k + 1]] \in Nat
        <5>1. i - 1 \in 1 .. Len(s) /\ k + 1 \in 1 .. Len(s) BY <3>3, <2>1, <1>a
        <5> QED BY <5>1, <1>b, <1>d
      <4> QED BY SMTT(60), <4>1, <4>2, <4>3, <4>4, <3>1, <3>2, <3>3
    <3>4. CASE i > k
      <4>1. D[i - 1] = A[i] BY <3>4, <2>1
      <4>2. v[s[i + 1]] = w[s[i + 1]]
        <5>1. i + 1 # k /\ i + 1 # k + 1 /\ i + 1 \in 1 .. Len(s) BY <3>4, <2>1, <1>a
        <5>2. s[i + 1] # s[k] BY <5>1 DEF Distinct
        <5>3. k < Len(s) => s[i + 1] # s[k + 1] BY <5>1, <1>a DEF Distinct
        <5> QED BY <5>1, <5>2, <5>3, <1>3, <1>b
      <4> QED BY <4>1, <4>2, <3>1, <3>2
    <3> QED BY <3>3, <3>4, <2>3
  <2> QED BY <2>1, <2>2, <2>3
<1>7. D = [i \in 1 .. Len(z) |-> D[i]] BY <1>1
<1> HIDE DEF D
<1>8. AreSums(D, z, v, q) BY <1>1, <1>5, <1>6, <1>7, SumsBy
<1> QED BY <1>8 DEF D, z, v, Without

(* A timer comes after the k-th one, y later; the next one is due later.   *)
Spread(s, w, k, t, y) ==
  [u \in Timers |-> IF u = t THEN y
                    ELSE IF k < Len(s) /\ u = s[k + 1] THEN w[u] - y ELSE w[u]]

With(A, n, k, x) ==
  [i \in 1 .. n + 1 |-> IF i <= k THEN A[i] ELSE IF i = k + 1 THEN x ELSE A[i - 1]]

LEMMA SumsInserted ==
  ASSUME NEW s \in Seq(Timers), Distinct(s), NEW w \in [Timers -> Nat], NEW r \in Nat,
         NEW A, AreSums(A, s, w, r), NEW k \in 1 .. Len(s),
         NEW t \in Timers, \A i \in 1 .. Len(s) : s[i] # t,
         NEW x \in Nat, A[k] <= x, k < Len(s) => A[k + 1] > x
  PROVE  /\ Spread(s, w, k, t, x - A[k]) \in [Timers -> Nat]
         /\ AreSums(With(A, Len(s), k, x), InsertAt(s, k + 1, t),
                    Spread(s, w, k, t, x - A[k]), r)
<1> DEFINE z == InsertAt(s, k + 1, t)
           v == Spread(s, w, k, t, x - A[k])
           D == [i \in 1 .. Len(s) + 1 |->
                       IF i <= k THEN A[i] ELSE IF i = k + 1 THEN x ELSE A[i - 1]]
<1>1. /\ z \in Seq(Timers) /\ Len(z) = Len(s) + 1
      /\ \A i \in 1 .. Len(s) + 1 :
           z[i] = IF i <= k THEN s[i] ELSE IF i = k + 1 THEN t ELSE s[i - 1]
  <2>1. k \in 0 .. Len(s) BY LenProperties
  <2> QED BY <2>1, InsertedAt
<1>a. Len(s) \in Nat /\ Len(s) > 0 BY LenProperties
<1>b. \A i \in 1 .. Len(s) : s[i] \in Timers /\ w[s[i]] \in Nat BY ElementOfSeq
<1>c. /\ A \in [1 .. Len(s) -> Nat] /\ A[1] = r
      /\ \A i \in 2 .. Len(s) : A[i] = A[i - 1] + w[s[i]]
  BY SMTT(60), <1>a, SumsAre
<1>d. \A i \in 1 .. Len(s) : A[i] \in Nat BY <1>c
<1>2. Len(z) = Len(s) + 1 /\ Len(z) \in Int BY <1>1, <1>a
<1>3. A[k] \in Nat /\ x - A[k] \in Nat BY <1>d
<1>4. k < Len(s) => A[k + 1] = A[k] + w[s[k + 1]] /\ w[s[k + 1]] - (x - A[k]) \in Nat
  <2>1. k < Len(s) => k + 1 \in 2 .. Len(s) /\ (k + 1) - 1 = k /\ w[s[k + 1]] \in Nat
    BY <1>a, <1>b
  <2>2. k < Len(s) => A[k + 1] = A[k] + w[s[k + 1]] BY <2>1, <1>c
  <2> QED BY SMTT(60), <2>1, <2>2, <1>3
<1>e. v = [u \in Timers |->
              IF u = t THEN x - A[k]
              ELSE IF k < Len(s) /\ u = s[k + 1] THEN w[u] - (x - A[k]) ELSE w[u]]
  BY DEF Spread
<1> HIDE DEF z, v
<1>5. v \in [Timers -> Nat]
  <2> SUFFICES ASSUME NEW u \in Timers
               PROVE  (IF u = t THEN x - A[k]
                       ELSE IF k < Len(s) /\ u = s[k + 1] THEN w[u] - (x - A[k]) ELSE w[u])
                        \in Nat
    BY <1>e
  <2> QED BY <1>3, <1>4
<1>6. D[1] = r BY <1>a, <1>c
<1>7. ASSUME NEW i \in 2 .. Len(z) PROVE D[i] = D[i - 1] + v[z[i]]
  <2>1. i \in 1 .. Len(s) + 1 /\ i - 1 \in 1 .. Len(s) + 1 BY <1>2, <1>a
  <2>2. CASE i <= k
    <3>a. i \in 2 .. Len(s) /\ i - 1 <= k BY <2>1, <2>2, <1>a
    <3>b. D[i] = A[i] /\ D[i - 1] = A[i - 1] BY <2>1, <2>2, <3>a
    <3>c. z[i] = s[i] BY <2>1, <2>2, <1>1
    <3>1. D[i] = A[i] /\ D[i - 1] = A[i - 1] /\ z[i] = s[i] /\ i \in 2 .. Len(s)
      BY <3>a, <3>b, <3>c
    <3>2. v[s[i]] = w[s[i]]
      <4>1. i # k + 1 /\ i \in 1 .. Len(s) BY <3>1, <2>2, <1>a
      <4>2. k < Len(s) => s[i] # s[k + 1] BY <4>1, <1>a DEF Distinct
      <4> QED BY <4>1, <4>2, <1>b, <1>e
    <3> QED BY <3>1, <3>2, <1>c
  <2>3. CASE i = k + 1
    <3>1. D[i] = x /\ D[i - 1] = A[k] /\ z[i] = t BY <2>1, <2>3, <1>1
    <3>2. v[t] = x - A[k] BY <1>e
    <3> HIDE DEF D
    <3> QED BY SMTT(60), <3>1, <3>2, <1>3
  <2>4. CASE i = k + 2
    <3>1. D[i] = A[k + 1] /\ D[i - 1] = x /\ z[i] = s[k + 1] /\ k < Len(s)
      BY SMTT(60), <2>1, <2>4, <1>1, <1>a
    <3>2. v[s[k + 1]] = w[s[k + 1]] - (x - A[k])
      <4> HIDE DEF D
      <4>1. k + 1 \in 1 .. Len(s) BY SMTT(60), <3>1, <1>a
      <4> QED BY <4>1, <3>1, <1>b, <1>e
    <3>3. w[s[k + 1]] \in Nat
      <4>1. k + 1 \in 1 .. Len(s) BY <3>1, <1>a
      <4> QED BY <4>1, <1>b
    <3>4. A[k + 1] = A[k] + w[s[k + 1]] BY <3>1, <1>4
    <3> HIDE DEF D
    <3>5. A[k] \in Nat BY <1>3
    <3>6. A[k] + w[s[k + 1]] = x + (w[s[k + 1]] - (x - A[k])) BY SMTT(60), <3>3, <3>5
    <3> QED BY <3>1, <3>2, <3>4, <3>6
  <2>5. CASE i > k + 2
    <3>a. /\ i - 1 \in 2 .. Len(s) /\ i - 1 # k + 1
          /\ ~(i <= k) /\ i # k + 1 /\ ~(i - 1 <= k)
      BY <2>1, <2>5, <1>a
    <3>b. D[i] = A[i - 1] /\ D[i - 1] = A[(i - 1) - 1] BY <2>1, <3>a
    <3>c. z[i] = s[i - 1] BY <2>1, <3>a, <1>1
    <3>1. /\ i - 1 \in 2 .. Len(s) /\ D[i] = A[i - 1] /\ D[i - 1] = A[(i - 1) - 1]
          /\ z[i] = s[i - 1]
      BY <3>a, <3>b, <3>c
    <3>2. v[s[i - 1]] = w[s[i - 1]]
      <4> HIDE DEF D
      <4>a. i - 1 \in 1 .. Len(s) BY <3>a, <1>a
      <4>1. i - 1 # k + 1 /\ i - 1 \in 1 .. Len(s) BY <3>a, <4>a
      <4>b. k < Len(s) => k + 1 \in 1 .. Len(s) BY <1>a
      <4>2. k < Len(s) => s[i - 1] # s[k + 1] BY <4>1, <4>b DEF Distinct
      <4> QED BY <4>1, <4>2, <1>b, <1>e
    <3> QED BY <3>1, <3>2, <1>c
  <2> QED BY <2>1, <2>2, <2>3, <2>4, <2>5, <1>a
<1>8. D = [i \in 1 .. Len(z) |-> D[i]] BY <1>1
<1> HIDE DEF D
<1>9. AreSums(D, z, v, r) BY <1>1, <1>6, <1>7, <1>8, SumsBy
<1> QED BY <1>5, <1>9 DEF D, z, v, With

(* A new head takes its time off the one that was.                         *)
LEMMA SumsPrepended ==
  ASSUME NEW s \in Seq(Timers), Distinct(s), NEW w \in [Timers -> Nat], NEW r \in Nat,
         NEW A, AreSums(A, s, w, r), Len(s) > 0,
         NEW t \in Timers, \A i \in 1 .. Len(s) : s[i] # t,
         NEW x \in Nat, x <= r,
         NEW v, v = [w EXCEPT ![t] = x, ![s[1]] = r - x]
  PROVE  /\ v \in [Timers -> Nat]
         /\ AreSums(With(A, Len(s), 0, x), <<t>> \o s, v, x)
<1> DEFINE z == <<t>> \o s
           D == [i \in 1 .. Len(s) + 1 |-> IF i = 1 THEN x ELSE A[i - 1]]
<1>a. Len(s) \in Nat /\ 1 \in 1 .. Len(s) BY LenProperties
<1>d. D = With(A, Len(s), 0, x)
  <2>1. \A i \in 1 .. Len(s) + 1 : ~(i <= 0) /\ (i = 0 + 1 <=> i = 1) BY <1>a
  <2> QED BY <2>1 DEF With
<1>b. \A i \in 1 .. Len(s) : s[i] \in Timers /\ w[s[i]] \in Nat BY ElementOfSeq
<1>c. /\ A \in [1 .. Len(s) -> Nat] /\ A[1] = r
      /\ \A i \in 2 .. Len(s) : A[i] = A[i - 1] + w[s[i]]
  BY SumsAre
<1>1. /\ z \in Seq(Timers) /\ Len(z) = Len(s) + 1
      /\ \A i \in 1 .. Len(s) + 1 : i # 1 => z[i] = s[i - 1]
  <2>1. <<t>> \in Seq(Timers) /\ Len(<<t>>) = 1 OBVIOUS
  <2>2. Len(<<t>>) + Len(s) = Len(s) + 1 BY <2>1, <1>a
  <2>3. z \in Seq(Timers) /\ Len(z) = Len(s) + 1
        /\ \A i \in 1 .. Len(s) + 1 : z[i] = IF i <= 1 THEN <<t>>[i] ELSE s[i - 1]
    BY <2>1, <2>2, ConcatProperties
  <2> HIDE DEF z
  <2>4. \A i \in 1 .. Len(s) + 1 : i # 1 => ~(i <= 1) BY <1>a
  <2> QED BY <2>3, <2>4
<1>2. Len(z) = Len(s) + 1 /\ Len(z) \in Int BY <1>1, <1>a
<1>3. v \in [Timers -> Nat] OBVIOUS
<1>4. v[s[1]] = r - x /\ \A i \in 1 .. Len(s) : i # 1 => v[s[i]] = w[s[i]]
  <2>1. v[s[1]] = r - x BY <1>a, <1>b
  <2>2. ASSUME NEW i \in 1 .. Len(s), i # 1 PROVE v[s[i]] = w[s[i]]
    <3>1. s[i] # s[1] BY <2>2, <1>a DEF Distinct
    <3> QED BY <3>1, <1>b
  <2> QED BY <2>1, <2>2
<1> HIDE DEF z
<1>5. D[1] = x BY <1>a
<1>6. ASSUME NEW i \in 2 .. Len(z) PROVE D[i] = D[i - 1] + v[z[i]]
  <2>1. i \in 1 .. Len(s) + 1 /\ i - 1 \in 1 .. Len(s) + 1 /\ i # 1 BY <1>2, <1>a
  <2>2. D[i] = A[i - 1] /\ z[i] = s[i - 1] BY <2>1, <1>1
  <2>3. CASE i = 2
    <3>1. i - 1 = 1 BY <2>3
    <3> HIDE DEF D
    <3> QED BY <3>1, <2>2, <1>4, <1>5, <1>c
  <2>4. CASE i # 2
    <3>1. i - 1 # 1 /\ i - 1 \in 2 .. Len(s) /\ i - 1 \in 1 .. Len(s) BY <2>4, <1>2, <1>a
    <3>2. D[i - 1] = A[(i - 1) - 1] BY <3>1, <2>1
    <3> HIDE DEF D
    <3>3. v[s[i - 1]] = w[s[i - 1]] BY <3>1, <1>4
    <3>4. A[i - 1] = A[(i - 1) - 1] + w[s[i - 1]] BY <3>1, <1>c
    <3> QED BY <3>2, <3>3, <3>4, <2>2
  <2> QED BY <2>3, <2>4
<1>7. D = [i \in 1 .. Len(z) |-> D[i]] BY <1>1
<1> HIDE DEF D
<1>8. AreSums(D, z, v, x) BY ZenonT(60), <1>1, <1>5, <1>6, <1>7, SumsBy
<1> QED BY <1>3, <1>d, <1>8 DEF z

(* The head goes with no time left.                                        *)
LEMMA SumsTail ==
  ASSUME NEW s \in Seq(Timers), Len(s) > 0, NEW w \in [Timers -> Nat],
         NEW A, AreSums(A, s, w, 0),
         NEW q \in Nat, Len(s) > 1 => q = w[s[2]]
  PROVE  AreSums([i \in 1 .. Len(s) - 1 |-> A[i + 1]], Tail(s), w, q)
<1> DEFINE z == Tail(s)
           D == [i \in 1 .. Len(s) - 1 |-> A[i + 1]]
<1>a. Len(s) \in Nat BY LenProperties
<1>1. /\ z \in Seq(Timers) /\ Len(z) = Len(s) - 1
      /\ \A i \in 1 .. Len(s) - 1 : z[i] = s[i + 1]
  <2>1. s # <<>> BY EmptySeq
  <2> QED BY <2>1, HeadTailProperties
<1>c. /\ A \in [1 .. Len(s) -> Nat] /\ A[1] = 0
      /\ \A i \in 2 .. Len(s) : A[i] = A[i - 1] + w[s[i]]
  BY SumsAre
<1>2. Len(z) = Len(s) - 1 /\ Len(z) \in Int BY <1>1, <1>a
<1> HIDE DEF z
<1>3. Len(z) > 0 => D[1] = q
  <2>1. Len(z) > 0 => 2 \in 2 .. Len(s) /\ 2 - 1 = 1 /\ 1 + 1 = 2 /\ 1 \in 1 .. Len(s) - 1
    BY <1>2, <1>a
  <2>2. Len(z) > 0 => D[1] = A[2] BY <2>1
  <2> HIDE DEF D
  <2>3. Len(z) > 0 => A[2] = 0 + w[s[2]] BY <2>1, <1>c
  <2>4. Len(z) > 0 => Len(s) > 1 BY <1>2, <1>a
  <2> QED BY <2>2, <2>3, <2>4
<1>4. ASSUME NEW i \in 2 .. Len(z) PROVE D[i] = D[i - 1] + w[z[i]]
  <2>1. /\ i \in 1 .. Len(s) - 1 /\ i - 1 \in 1 .. Len(s) - 1 /\ (i - 1) + 1 = i
        /\ i + 1 \in 2 .. Len(s) /\ (i + 1) - 1 = i
    BY <1>2, <1>a
  <2>2. D[i] = A[i + 1] /\ D[i - 1] = A[i] BY <2>1
  <2> HIDE DEF D
  <2>3. z[i] = s[i + 1] BY <2>1, <1>1
  <2>4. A[i + 1] = A[i] + w[s[i + 1]] BY <2>1, <1>c
  <2> QED BY <2>2, <2>3, <2>4
<1>5. D = [i \in 1 .. Len(z) |-> D[i]] BY <1>1
<1> HIDE DEF D
<1>6. AreSums(D, z, w, q) BY <1>1, <1>3, <1>4, <1>5, SumsBy
<1> QED BY <1>6 DEF D, z

(* Numbers that grow alike stay as far apart as the first ones are.        *)
LEMMA GrowAlike ==
  ASSUME NEW n \in Nat, NEW A \in [1 .. n -> Nat], NEW B \in [1 .. n -> Nat],
         \A i \in 2 .. n : B[i] - B[i - 1] = A[i] - A[i - 1]
  PROVE  \A i \in 1 .. n : B[i] - A[i] = B[1] - A[1]
<1> DEFINE T == {i \in 1 .. n : B[i] - A[i] # B[1] - A[1]}
<1>1. T = {}
  <2>1. SUFFICES ASSUME T # {} PROVE FALSE
    OBVIOUS
  <2>a. T \subseteq Nat OBVIOUS
  <2>2. PICK m \in T : \A i \in T : m <= i BY <2>1, <2>a, LeastNumber
  <2>3. m \in 1 .. n /\ m # 1 /\ B[m] - A[m] # B[1] - A[1] BY <2>2
  <2>4. m \in 2 .. n /\ m - 1 \in 1 .. n /\ 1 \in 1 .. n /\ ~(m <= m - 1) BY <2>3
  <2>5. m - 1 \notin T BY <2>2, <2>4
  <2>6. B[m - 1] - A[m - 1] = B[1] - A[1] BY <2>4, <2>5
  <2> HIDE DEF T
  <2>7. A[m] \in Nat /\ B[m] \in Nat /\ A[m - 1] \in Nat /\ B[m - 1] \in Nat
        /\ A[1] \in Nat /\ B[1] \in Nat
    BY <2>3, <2>4
  <2>8. B[m] - B[m - 1] = A[m] - A[m - 1] BY <2>4
  <2> DEFINE a == A[m]  b == B[m]  c == A[m - 1]  d == B[m - 1]  e == B[1] - A[1]
  <2>9. a \in Nat /\ b \in Nat /\ c \in Nat /\ d \in Nat /\ e \in Int BY <2>7
  <2>10. b - a # e /\ d - c = e /\ b - d = a - c BY <2>3, <2>6, <2>8
  <2> HIDE DEF a, b, c, d, e
  <2> QED BY ONLY <2>9, <2>10
<1> QED BY <1>1

(* What a state, and the next one, have as aggregatedTimestamp.            *)
LEMMA AggregatedNow ==
  ASSUME Listing, list # <<>>
  PROVE  /\ Len(list) \in Nat /\ Len(list) > 0
         /\ TimerListHead = list[1] /\ list[1] \in Timers
         /\ Remaining \in Nat
         /\ AreSums(Aggregated, list, ts, Remaining)
         /\ Aggregated \in [1 .. Len(list) -> Nat]
         /\ Aggregated[1] = Remaining
         /\ \A i \in 2 .. Len(list) :
              Aggregated[i] = Aggregated[i - 1] + ts[list[i]]
<1>1. list \in Seq(Timers) BY DEF Listing
<1>2. Len(list) \in Nat /\ Len(list) > 0 BY <1>1, EmptySeq
<1>3. TimerListHead = list[1] BY DEF TimerListHead
<1>4. list[1] \in Timers
  <2>1. 1 \in 1 .. Len(list) BY <1>2
  <2> QED BY <2>1, <1>1, ElementOfSeq
<1>5. Remaining \in Nat
  <2>1. ts[list[1]] \in Nat /\ elapsed \in Nat BY <1>4, TimerAssumption DEF Listing
  <2> QED BY <2>1, <1>3 DEF Remaining, Least
<1> DEFINE A == Aggregated
<1>6. A = CHOOSE D : D = [i \in DOMAIN list |->
                            IF i = 1 THEN Remaining ELSE D[i - 1] + ts[list[i]]]
  BY DEF Aggregated
<1> HIDE DEF A
<1>7. ts \in [Timers -> Nat] BY DEF Listing
<1>8. /\ AreSums(A, list, ts, Remaining) /\ A \in [1 .. Len(list) -> Nat]
      /\ Steps(A, list, ts, Remaining)
  BY ZenonT(60), <1>1, <1>5, <1>6, <1>7, ChosenSums
<1>9. /\ A[1] = Remaining
      /\ \A i \in 2 .. Len(list) : A[i] = A[i - 1] + ts[list[i]]
  BY <1>2, <1>8 DEF Steps
<1> QED BY <1>2, <1>3, <1>4, <1>5, <1>8, <1>9 DEF A

LEMMA AggregatedNext ==
  ASSUME Listing', list' # <<>>
  PROVE  /\ Len(list') \in Nat /\ Len(list') > 0
         /\ TimerListHead' = list'[1] /\ list'[1] \in Timers
         /\ Remaining' \in Nat
         /\ AreSums(Aggregated', list', ts', Remaining')
         /\ Aggregated' \in [1 .. Len(list') -> Nat]
         /\ (Aggregated')[1] = Remaining'
         /\ \A i \in 2 .. Len(list') :
              (Aggregated')[i] = (Aggregated')[i - 1] + ts'[list'[i]]
<1>1. list' \in Seq(Timers) BY DEF Listing
<1>2. Len(list') \in Nat /\ Len(list') > 0 BY <1>1, EmptySeq
<1>3. TimerListHead' = list'[1] BY DEF TimerListHead
<1>4. list'[1] \in Timers
  <2>1. 1 \in 1 .. Len(list') BY <1>2
  <2> QED BY <2>1, <1>1, ElementOfSeq
<1>5. Remaining' \in Nat
  <2>1. ts'[list'[1]] \in Nat /\ elapsed' \in Nat BY <1>4, TimerAssumption DEF Listing
  <2> QED BY <2>1, <1>3 DEF Remaining, Least
<1> DEFINE A == Aggregated'
<1>6. A = CHOOSE D : D = [i \in DOMAIN list' |->
                            IF i = 1 THEN Remaining' ELSE D[i - 1] + ts'[list'[i]]]
  BY DEF Aggregated
<1> HIDE DEF A
<1>7. ts' \in [Timers -> Nat] BY DEF Listing
<1>8. /\ AreSums(A, list', ts', Remaining') /\ A \in [1 .. Len(list') -> Nat]
      /\ Steps(A, list', ts', Remaining')
  BY ZenonT(60), <1>1, <1>5, <1>6, <1>7, ChosenSums
<1>9. /\ A[1] = Remaining'
      /\ \A i \in 2 .. Len(list') : A[i] = A[i - 1] + ts'[list'[i]]
  BY <1>2, <1>8 DEF Steps
<1> QED BY <1>2, <1>3, <1>4, <1>5, <1>8, <1>9 DEF A

(* Sums that are due in time.                                              *)
LEMMA TimelyBy ==
  ASSUME Listing', list' # <<>>,
         NEW D, AreSums(D, list', ts', Remaining'),
         \A i \in 1 .. Len(list') : left'[list'[i]] <= D[i]
  PROVE  Timely'
<1>1. list' \in Seq(Timers) BY DEF Listing
<1>2. AreSums(Aggregated', list', ts', Remaining') BY AggregatedNext
<1>3. Aggregated' = D BY <1>1, <1>2, SumsUnique
<1>4. DOMAIN list' = 1 .. Len(list') BY <1>1, LenProperties
<1> QED BY <1>3, <1>4 DEF Timely

LEMMA TimelyEmpty ==
  ASSUME list' = <<>>
  PROVE  Timely'
<1>1. DOMAIN list' = {} OBVIOUS
<1> QED BY <1>1 DEF Timely

(* The timers come one millisecond nearer at most, or go further away.     *)
LEMMA TimelySame ==
  ASSUME Listing, Listing', Timely, list' = list,
         \A i \in 2 .. Len(list) : ts'[list[i]] = ts[list[i]],
         list # <<>> => Remaining' >= Remaining,
         \A t \in Timers : left'[t] <= left[t]
  PROVE  Timely'
<1>1. CASE list = <<>> BY <1>1, TimelyEmpty
<1>2. CASE list # <<>>
  <2> DEFINE n == Len(list)
             A == Aggregated
             B == Aggregated'
  <2>1. list \in Seq(Timers) BY DEF Listing
  <2>2. /\ ts \in [Timers -> Nat]
        /\ left \in [Timers -> {Unset} \cup Nat] /\ left' \in [Timers -> {Unset} \cup Nat]
    BY DEF Listing
  <2>3. /\ n \in Nat /\ n > 0 /\ A \in [1 .. n -> Nat] /\ A[1] = Remaining
        /\ \A i \in 2 .. n : A[i] = A[i - 1] + ts[list[i]]
    BY <1>2, AggregatedNow
  <2>4. /\ B \in [1 .. n -> Nat] /\ B[1] = Remaining'
        /\ \A i \in 2 .. n : B[i] = B[i - 1] + ts'[list[i]]
    BY <1>2, AggregatedNext
  <2>5. AreSums(B, list', ts', Remaining')
    BY <1>2, AggregatedNext
  <2>6. \A i \in 1 .. n : list[i] \in Timers BY <2>1, ElementOfSeq
  <2>7. \A i \in 1 .. n : left[list[i]] <= A[i]
    BY <2>1, LenProperties DEF Timely
  <2>8. A[1] <= B[1] BY <1>2, <2>3, <2>4
  <2> HIDE DEF A, B
  <2>9. \A i \in 2 .. n : B[i] - B[i - 1] = A[i] - A[i - 1]
    <3> SUFFICES ASSUME NEW i \in 2 .. n PROVE B[i] - B[i - 1] = A[i] - A[i - 1]
      OBVIOUS
    <3>1. i \in 1 .. n /\ i - 1 \in 1 .. n BY <2>3
    <3>2. ts[list[i]] \in Nat BY <3>1, <2>2, <2>6
    <3>3. A[i] = A[i - 1] + ts[list[i]] BY <2>3
    <3>4. B[i] = B[i - 1] + ts[list[i]] BY <2>4
    <3>5. A[i - 1] \in Nat /\ B[i - 1] \in Nat BY <3>1, <2>3, <2>4
    <3> QED BY <3>2, <3>3, <3>4, <3>5
  <2> HIDE DEF n
  <2>10. \A i \in 1 .. n : B[i] - A[i] = B[1] - A[1]
    BY ONLY <2>3, <2>4, <2>9, GrowAlike
  <2>11. ASSUME NEW i \in 1 .. n PROVE left'[list[i]] <= B[i]
    <3>1. list[i] \in Timers BY <2>6
    <3>2. left[list[i]] \in Int /\ left'[list[i]] \in Int BY <3>1, <2>2 DEF Unset
    <3>3. left'[list[i]] <= left[list[i]] BY <3>1
    <3>4. left[list[i]] <= A[i] BY <2>7
    <3>5. 1 \in 1 .. n BY <2>3
    <3>6. A[i] \in Nat /\ B[i] \in Nat /\ A[1] \in Nat /\ B[1] \in Nat
      BY <3>5, <2>3, <2>4
    <3>7. B[i] - A[i] = B[1] - A[1] BY <2>10
    <3> QED BY <3>2, <3>3, <3>4, <3>6, <3>7, <2>8
  <2> QED BY <1>2, <2>5, <2>11, TimelyBy DEF n
<1> QED BY <1>1, <1>2

(* The list without its k-th timer, whose time x the next one inherits.    *)
LEMMA Unlinked ==
  ASSUME Listing, NEW t \in Timers, NEW x \in Nat, Unlink(t, x)
  PROVE  \E k \in 1 .. Len(list) :
           /\ list[k] = t /\ list' = RemoveAt(list, k)
           /\ Len(list) \in Nat /\ Len(list') = Len(list) - 1
           /\ list' \in Seq(Timers) /\ Distinct(list') /\ ts' \in [Timers -> Nat]
           /\ \A i \in 1 .. Len(list) - 1 :
                list'[i] = IF i < k THEN list[i] ELSE list[i + 1]
           /\ ts' = Inherited(list, ts, k, x)
           /\ \A u \in Timers : Listed(u)' <=> Listed(u) /\ u # t
<1>1. list \in Seq(Timers) /\ Distinct(list) /\ ts \in [Timers -> Nat] BY DEF Listing
<1>2. DOMAIN list = 1 .. Len(list) /\ Len(list) \in Nat BY <1>1, LenProperties
<1>3. PICK k \in 1 .. Len(list) :
        /\ list[k] = t /\ list' = RemoveAt(list, k)
        /\ ts' = [u \in Timers |->
             IF u = t THEN 0
             ELSE IF k < Len(list) /\ u = list[k + 1] THEN ts[u] + x ELSE ts[u]]
  BY <1>2 DEF Unlink
<1>4. /\ list' \in Seq(Timers) /\ Len(list') = Len(list) - 1
      /\ \A i \in 1 .. Len(list) - 1 : list'[i] = IF i < k THEN list[i] ELSE list[i + 1]
  BY <1>1, <1>3, RemovedAt
<1>5. ts' \in [Timers -> Nat] BY <1>1, <1>3
<1>6. Distinct(list')
  <2> SUFFICES ASSUME NEW i \in 1 .. Len(list) - 1, NEW j \in 1 .. Len(list) - 1,
                      list'[i] = list'[j]
               PROVE  i = j
    BY <1>4 DEF Distinct
  <2> DEFINE m == IF i < k THEN i ELSE i + 1
             n == IF j < k THEN j ELSE j + 1
  <2>1. m \in 1 .. Len(list) /\ n \in 1 .. Len(list) BY <1>2
  <2>2. list'[i] = list[m] /\ list'[j] = list[n] BY <1>4
  <2>3. m = n
    <3> HIDE DEF m, n
    <3> QED BY <2>1, <2>2, <1>1 DEF Distinct
  <2> QED BY <2>3, <1>2
<1>7. ASSUME NEW u \in Timers PROVE Listed(u)' <=> Listed(u) /\ u # t
  <2>1. DOMAIN list' = 1 .. Len(list) - 1 BY <1>4, LenProperties
  <2>2. ASSUME NEW i \in 1 .. Len(list) - 1, list'[i] = u PROVE Listed(u) /\ u # t
    <3> DEFINE m == IF i < k THEN i ELSE i + 1
    <3>1. m \in 1 .. Len(list) /\ m # k BY <1>2
    <3>2. list[m] = u BY <1>4, <2>2
    <3> HIDE DEF m
    <3>3. u # t BY <3>1, <3>2, <1>1, <1>3 DEF Distinct
    <3> QED BY <3>1, <3>2, <3>3, <1>2 DEF Listed
  <2>3. ASSUME NEW m \in 1 .. Len(list), list[m] = u, u # t
        PROVE  \E i \in 1 .. Len(list) - 1 : list'[i] = u
    <3> DEFINE i == IF m < k THEN m ELSE m - 1
    <3>1. m # k BY <2>3, <1>3
    <3>2. i \in 1 .. Len(list) - 1 /\ (i < k <=> m < k) /\ (~(m < k) => i + 1 = m)
      BY <3>1, <1>2
    <3>3. m < k => i = m OBVIOUS
    <3> HIDE DEF i
    <3>4. list'[i] = u
      <4>1. CASE m < k BY <4>1, <3>2, <3>3, <1>4, <2>3
      <4>2. CASE ~(m < k) BY <4>2, <3>2, <1>4, <2>3
      <4> QED BY <4>1, <4>2
    <3> QED BY <3>2, <3>4
  <2> QED BY <2>1, <2>2, <2>3, <1>2 DEF Listed
<1>8. ts' = Inherited(list, ts, k, x) BY <1>3 DEF Inherited
<1> QED BY <1>2, <1>3, <1>4, <1>5, <1>6, <1>7, <1>8

(* What stopping a timer does: the others stay, the head of them with its  *)
(* alarm, and none is due later than before.                               *)
LEMMA Stopped ==
  ASSUME Listing, NEW t \in Timers, TimerStop(t), reload' \in [Timers -> Nat]
  PROVE  /\ Listing'
         /\ \A u \in Timers : Listed(u)' <=> Listed(u) /\ u # t
         /\ left' = [left EXCEPT ![t] = Unset]
         /\ list # <<>> /\ TimerListHead # t =>
              /\ list' # <<>> /\ TimerListHead' = TimerListHead
              /\ ts'[TimerListHead] = ts[TimerListHead] /\ elapsed' = elapsed
         /\ list = <<>> => list' = <<>> /\ elapsed' = elapsed
         /\ running' => running /\ (alarm' > 0 \/ alarm' = alarm)
         /\ running /\ list' # <<>> => running'
         /\ (list = <<>> => ~running) => (list' = <<>> => ~running')
         /\ Timely => Timely'
<1>1. /\ list \in Seq(Timers) /\ Distinct(list) /\ ts \in [Timers -> Nat]
      /\ left \in [Timers -> {Unset} \cup Nat]
      /\ running \in BOOLEAN /\ alarm \in Nat /\ elapsed \in 0 .. MaxElapsed
  BY DEF Listing
<1>2. DOMAIN list = 1 .. Len(list) /\ Len(list) \in Nat BY <1>1, LenProperties
<1>3. left' = [left EXCEPT ![t] = Unset] BY DEF TimerStop
<1>4. left' \in [Timers -> {Unset} \cup Nat] BY <1>1, <1>3
<1>5. ASSUME NEW u \in Timers PROVE left'[u] <= left[u]
  <2>1. left[u] \in {Unset} \cup Nat BY <1>1
  <2>2. left[u] \in Int /\ Unset <= left[u] BY <2>1 DEF Unset
  <2>3. left'[u] = IF u = t THEN Unset ELSE left[u] BY <1>1, <1>3
  <2> QED BY <2>2, <2>3
<1>6. CASE ~Listed(t)
  <2>1. UNCHANGED listVars BY <1>6 DEF TimerStop
  <2>2. /\ list' = list /\ ts' = ts /\ (running' <=> running) /\ running' \in BOOLEAN
        /\ alarm' = alarm /\ elapsed' = elapsed
    BY <2>1, <1>1 DEF listVars
  <2>3. Listing' BY <2>2, <1>1, <1>4 DEF Listing
  <2>4. \A u \in Timers : Listed(u)' <=> Listed(u) /\ u # t BY <2>2, <1>6 DEF Listed
  <2>5. Remaining' = Remaining BY <2>2 DEF Remaining, TimerListHead
  <2>6. Timely => Timely'
    <3>1. list # <<>> => Remaining' >= Remaining BY <2>5, AggregatedNow
    <3> QED BY <3>1, <2>2, <2>3, <1>5, TimelySame
  <2> QED BY <2>2, <2>3, <2>4, <2>6, <1>3 DEF TimerListHead
<1>7. CASE Listed(t)
  <2>1. list # <<>>
    <3>1. DOMAIN <<>> = {} OBVIOUS
    <3> QED BY <3>1, <1>7 DEF Listed
  <2>2. /\ Len(list) > 0 /\ TimerListHead = list[1] /\ list[1] \in Timers
        /\ Remaining \in Nat /\ AreSums(Aggregated, list, ts, Remaining)
        /\ Aggregated \in [1 .. Len(list) -> Nat]
    BY <2>1, AggregatedNow
  <2> DEFINE x == IF t = TimerListHead THEN Remaining ELSE ts[t]
  <2>3. x \in Nat BY <2>2, <1>1
  <2>4. Unlink(t, x)
    <3>1. CASE t = TimerListHead
      <4>1. Unlink(t, Remaining) BY <1>7, <3>1 DEF TimerStop
      <4>2. x = Remaining BY <3>1
      <4> QED BY <4>1, <4>2
    <3>2. CASE t # TimerListHead
      <4>1. Unlink(t, ts[t]) BY <1>7, <3>2 DEF TimerStop
      <4>2. x = ts[t] BY <3>2
      <4> QED BY <4>1, <4>2
    <3> QED BY <3>1, <3>2
  <2>5. PICK k \in 1 .. Len(list) :
           /\ list[k] = t /\ list' = RemoveAt(list, k)
           /\ Len(list') = Len(list) - 1
           /\ list' \in Seq(Timers) /\ Distinct(list') /\ ts' \in [Timers -> Nat]
           /\ \A i \in 1 .. Len(list) - 1 :
                list'[i] = IF i < k THEN list[i] ELSE list[i + 1]
           /\ ts' = Inherited(list, ts, k, x)
           /\ \A u \in Timers : Listed(u)' <=> Listed(u) /\ u # t
    <3> HIDE DEF x
    <3> QED BY <2>3, <2>4, Unlinked
  <2>6. k = 1 <=> t = TimerListHead
    <3>1. 1 \in 1 .. Len(list) BY <2>2, <1>2
    <3> QED BY <3>1, <2>2, <2>5, <1>1 DEF Distinct
  <2>7. list' = <<>> <=> Len(list) = 1
    <3>1. list' = <<>> <=> Len(list') = 0 BY <2>5, EmptySeq
    <3> QED BY <3>1, <2>5, <1>2
  <2>8. CASE k = 1
    <3>1. t = TimerListHead /\ x = Remaining /\ list[1] = t BY <2>5, <2>6, <2>8
    <3> HIDE DEF x
    <3>2. /\ running' = (running /\ Len(list) > 1)
          /\ IF running' THEN SetTimeout(ts'[list[2]]) ELSE UNCHANGED <<alarm, elapsed>>
      BY <3>1, <1>7 DEF TimerStop
    <3>a. (running' <=> running /\ Len(list) > 1) /\ running' \in BOOLEAN BY <3>2
    <3>3. Len(list) > 1 => list[2] \in Timers /\ list'[1] = list[2] /\ ts'[list[2]] \in Nat
      <4>1. Len(list) > 1 => 2 \in 1 .. Len(list) BY <1>2
      <4>2. Len(list) > 1 => list[2] \in Timers BY <4>1, <1>1, ElementOfSeq
      <4>3. Len(list) > 1 => 1 \in 1 .. Len(list) - 1 /\ ~(1 < k) /\ 1 + 1 = 2 BY <1>2, <2>8
      <4>4. Len(list) > 1 => list'[1] = list[2] BY <4>3, <2>5
      <4> QED BY <4>2, <4>4, <2>5
    <3>4. /\ running' => alarm' > 0 /\ alarm' \in Nat /\ elapsed' = 0
          /\ ~running' => alarm' = alarm /\ elapsed' = elapsed
      BY <3>2, <3>a, <3>3 DEF SetTimeout
    <3>5. elapsed' \in 0 .. MaxElapsed BY <3>a, <3>4, <1>1, TimerAssumption
    <3>b. alarm' \in Nat BY <3>4, <3>a, <1>1
    <3>6. Listing' BY <2>5, <3>a, <3>5, <3>b, <1>4 DEF Listing
    <3>7. Timely => Timely'
      <4>1. CASE list' = <<>> BY <4>1, TimelyEmpty
      <4>2. ASSUME list' # <<>>, Timely PROVE Timely'
        <5>1. Len(list) > 1 /\ list'[1] = list[2] BY <4>2, <2>2, <2>7, <3>3, <1>2
        <5>2. TimerListHead' = list[2] BY <4>2, <5>1, <3>6, AggregatedNext
        <5>3. Remaining' = ts'[list[2]]
          <6>1. CASE running'
            <7>1. elapsed' = 0 BY <6>1, <3>4
            <7> QED BY <5>1, <5>2, <6>1, <7>1, <3>3 DEF Remaining, Least
          <6>2. CASE ~running' BY <5>2, <6>2 DEF Remaining
          <6> QED BY <6>1, <6>2
        <5>4. Remaining' = Aggregated[2]
          <6>1. k < Len(list) /\ list[k + 1] = list[2] /\ list[2] # list[1]
            <7>1. 2 \in 1 .. Len(list) /\ 1 \in 1 .. Len(list) /\ k + 1 = 2
              BY <5>1, <2>8, <1>2
            <7> QED BY <7>1, <5>1, <2>8, <1>1 DEF Distinct
          <6>2. ts'[list[2]] = ts[list[2]] + x
            <7>1. list[2] # list[k] BY <6>1, <2>8
            <7> QED BY <6>1, <7>1, <2>5, <5>1, <3>3 DEF Inherited
          <6>3. Aggregated[2] = Remaining + ts[list[2]]
            <7>1. 2 \in 2 .. Len(list) /\ 2 - 1 = 1 BY <5>1, <1>2
            <7> QED BY <7>1, <2>1, AggregatedNow
          <6>4. ts[list[2]] \in Nat BY <5>1, <3>3, <1>1
          <6> QED BY <5>3, <6>2, <6>3, <6>4, <2>2, <3>1
        <5> DEFINE D == Without(Aggregated, Len(list), k)
                   A == Aggregated
                   r == Remaining
                   q == Remaining'
        <5>5. x = r BY <3>1
        <5>6. q \in Nat /\ q = A[2] BY <4>2, <3>6, <5>4, AggregatedNext
        <5>7. r \in Nat /\ AreSums(A, list, ts, r) BY <2>2
        <5>8. \A i \in 1 .. Len(list) : left[list[i]] <= A[i] BY <4>2, <1>2 DEF Timely
        <5>9. D = [i \in 1 .. Len(list) - 1 |-> IF i < k THEN A[i] ELSE A[i + 1]]
          BY DEF Without
        <5>c. D = Without(A, Len(list), k) OBVIOUS
        <5> HIDE DEF D, A, r, q
        <5>10. AreSums(D, list', ts', q)
          <6>1. x \in Nat /\ (k = 1 => x = r) /\ (k # 1 => x = ts[list[k]])
            BY <5>5, <5>7, <2>8
          <6>2. (k = 1 /\ Len(list) > 1 => q = A[2]) /\ (k # 1 => q = r) BY <5>6, <2>8
          <6> QED BY ONLY <6>1, <6>2, <5>6, <5>7, <5>c, <2>5, <1>1, SumsRemoved
        <5>11. ASSUME NEW i \in 1 .. Len(list') PROVE left'[list'[i]] <= D[i]
          <6>1. i \in 1 .. Len(list) - 1 /\ i + 1 \in 1 .. Len(list) /\ ~(i < k) /\ i # 0
            BY <2>5, <2>8, <1>2
          <6>2. list'[i] = list[i + 1] BY <6>1, <2>5
          <6>3. D[i] = A[i + 1] BY <6>1, <5>9
          <6>4. list[i + 1] # t
            <7>1. i + 1 # k BY <6>1, <2>8
            <7> QED BY <7>1, <6>1, <2>5, <1>1 DEF Distinct
          <6>5. left'[list[i + 1]] = left[list[i + 1]] BY <6>4, <1>1, <1>3
          <6> QED BY <6>1, <6>2, <6>3, <6>5, <5>8
        <5> QED BY <3>6, <4>2, <5>10, <5>11, TimelyBy DEF q
      <4> QED BY <4>1, <4>2
    <3>8. running /\ list' # <<>> => running' BY <3>a, <2>2, <2>7, <1>2
    <3>9. list' = <<>> => ~running'
      <4>1. ~(1 > 1) OBVIOUS
      <4> QED BY <4>1, <3>a, <2>7
    <3> QED BY <3>1, <3>a, <3>4, <3>6, <3>7, <3>8, <3>9, <2>1, <2>5, <1>3
  <2>9. CASE k # 1
    <3>1. t # TimerListHead /\ x = ts[t] BY <2>6, <2>9
    <3> HIDE DEF x
    <3>2. UNCHANGED <<running, alarm, elapsed>> BY <3>1, <1>7 DEF TimerStop
    <3>a. /\ (running' <=> running) /\ running' \in BOOLEAN
          /\ alarm' = alarm /\ elapsed' = elapsed
      BY <3>2, <1>1
    <3>3. Listing' BY <2>5, <3>a, <1>1, <1>4 DEF Listing
    <3>4. list' # <<>> BY <2>5, <2>7, <2>9, <1>2
    <3>5. list'[1] = list[1]
      <4>1. 1 \in 1 .. Len(list) - 1 /\ 1 < k BY <2>9, <1>2
      <4> QED BY <4>1, <2>5
    <3>6. TimerListHead' = TimerListHead BY <3>3, <3>4, <3>5, <2>2, AggregatedNext
    <3>7. ts'[TimerListHead] = ts[TimerListHead]
      <4>1. list[1] # list[k] BY <3>1, <2>2, <2>5
      <4>2. k < Len(list) => list[1] # list[k + 1]
        <5>1. k < Len(list) => k + 1 \in 1 .. Len(list) /\ k + 1 # 1 BY <1>2
        <5>2. 1 \in 1 .. Len(list) BY <1>2, <2>2
        <5> QED BY <5>1, <5>2, <1>1 DEF Distinct
      <4> QED BY <4>1, <4>2, <2>2, <2>5 DEF Inherited
    <3>8. Remaining' = Remaining BY <3>a, <3>6, <3>7 DEF Remaining
    <3>9. ASSUME Timely PROVE Timely'
      <4> DEFINE D == Without(Aggregated, Len(list), k)
                 A == Aggregated
                 r == Remaining
      <4>1. r \in Nat /\ AreSums(A, list, ts, r) BY <2>2
      <4>2. \A i \in 1 .. Len(list) : left[list[i]] <= A[i] BY <3>9, <1>2 DEF Timely
      <4>3. D = [i \in 1 .. Len(list) - 1 |-> IF i < k THEN A[i] ELSE A[i + 1]]
          BY DEF Without
      <4>4. Remaining' = r BY <3>8
      <4>c. D = Without(A, Len(list), k) OBVIOUS
      <4> HIDE DEF D, A, r
      <4>5. AreSums(D, list', ts', r)
        <5>1. x \in Nat /\ (k = 1 => x = r) /\ (k # 1 => x = ts[list[k]])
          BY <3>1, <2>3, <2>5, <2>9
        <5>2. (k = 1 /\ Len(list) > 1 => r = A[2]) /\ (k # 1 => r = r) BY <2>9
        <5> QED BY ONLY <5>1, <5>2, <4>1, <4>c, <2>5, <1>1, SumsRemoved
      <4>6. ASSUME NEW i \in 1 .. Len(list') PROVE left'[list'[i]] <= D[i]
        <5> DEFINE m == IF i < k THEN i ELSE i + 1
        <5>1. i \in 1 .. Len(list) - 1 /\ m \in 1 .. Len(list) /\ m # k BY <2>5, <1>2
        <5>2. list'[i] = list[m] /\ D[i] = A[m] BY <5>1, <2>5, <4>3
        <5> HIDE DEF m
        <5>3. list[m] # t BY <5>1, <2>5, <1>1 DEF Distinct
        <5>4. left'[list[m]] = left[list[m]] BY <5>3, <1>1, <1>3
        <5> QED BY <5>1, <5>2, <5>4, <4>2
      <4> QED BY <3>3, <3>4, <4>4, <4>5, <4>6, TimelyBy
    <3> QED BY <3>1, <3>a, <3>3, <3>4, <3>6, <3>7, <3>9, <2>1, <2>5, <1>3
  <2> QED BY <2>8, <2>9
<1> QED BY <1>6, <1>7

(* A list one timer longer.                                                *)
Longer(z, s, k, t) ==
  /\ z \in Seq(Timers) /\ Len(z) = Len(s) + 1
  /\ \A i \in 1 .. Len(s) + 1 :
       z[i] = IF i <= k THEN s[i] ELSE IF i = k + 1 THEN t ELSE s[i - 1]

LEMMA LongerInserted ==
  ASSUME NEW s \in Seq(Timers), NEW k \in 0 .. Len(s), NEW t \in Timers
  PROVE  Longer(InsertAt(s, k + 1, t), s, k, t)
BY InsertedAt DEF Longer

LEMMA Inserted ==
  ASSUME Listing, NEW t \in Timers, ~Listed(t), NEW k \in 0 .. Len(list),
         list' = InsertAt(list, k + 1, t)
  PROVE  /\ list' \in Seq(Timers) /\ Distinct(list') /\ list' # <<>>
         /\ Len(list) \in Nat /\ Len(list') = Len(list) + 1
         /\ \A i \in 1 .. Len(list) + 1 :
              list'[i] = IF i <= k THEN list[i] ELSE IF i = k + 1 THEN t ELSE list[i - 1]
         /\ \A u \in Timers : Listed(u)' <=> Listed(u) \/ u = t
<1>1. list \in Seq(Timers) /\ Distinct(list) BY DEF Listing
<1>2. DOMAIN list = 1 .. Len(list) /\ Len(list) \in Nat BY <1>1, LenProperties
<1>3. /\ list' \in Seq(Timers) /\ Len(list') = Len(list) + 1
      /\ \A i \in 1 .. Len(list) + 1 :
           list'[i] = IF i <= k THEN list[i] ELSE IF i = k + 1 THEN t ELSE list[i - 1]
  <2>1. Longer(list', list, k, t) BY <1>1, LongerInserted
  <2> QED BY <2>1 DEF Longer
<1>4. DOMAIN list' = 1 .. Len(list) + 1 BY <1>3, LenProperties
<1>5. \A i \in 1 .. Len(list) : list[i] # t BY <1>2 DEF Listed
<1>6. Distinct(list')
  <2> SUFFICES ASSUME NEW i \in 1 .. Len(list) + 1, NEW j \in 1 .. Len(list) + 1,
                      list'[i] = list'[j]
               PROVE  i = j
    BY <1>3 DEF Distinct
  <2> DEFINE m == IF i <= k THEN i ELSE i - 1
             n == IF j <= k THEN j ELSE j - 1
  <2>1. /\ i # k + 1 => m \in 1 .. Len(list) /\ list'[i] = list[m]
        /\ j # k + 1 => n \in 1 .. Len(list) /\ list'[j] = list[n]
    <3>1. i # k + 1 => m \in 1 .. Len(list) BY <1>2
    <3>2. j # k + 1 => n \in 1 .. Len(list) BY <1>2
    <3>3. i # k + 1 => list'[i] = list[m] BY <1>3
    <3>4. j # k + 1 => list'[j] = list[n] BY <1>3
    <3> QED BY <3>1, <3>2, <3>3, <3>4
  <2>2. /\ i = k + 1 => list'[i] = t
        /\ j = k + 1 => list'[j] = t
    <3>1. ~(k + 1 <= k) OBVIOUS
    <3> QED BY <3>1, <1>3
  <2>3. m = n /\ i # k + 1 /\ j # k + 1 => i = j BY <1>2
  <2> HIDE DEF m, n
  <2>4. i = k + 1 <=> j = k + 1 BY <2>1, <2>2, <1>5
  <2>5. i # k + 1 /\ j # k + 1 => m = n BY <2>1, <1>1 DEF Distinct
  <2> QED BY <2>3, <2>4, <2>5
<1>7. ASSUME NEW u \in Timers PROVE Listed(u)' <=> Listed(u) \/ u = t
  <2>1. ASSUME NEW i \in 1 .. Len(list) + 1, list'[i] = u PROVE Listed(u) \/ u = t
    <3>1. CASE i <= k
      <4>1. i \in 1 .. Len(list) BY <3>1, <1>2
      <4> QED BY <4>1, <3>1, <2>1, <1>2, <1>3 DEF Listed
    <3>2. CASE i = k + 1
      <4>1. ~(i <= k) BY <3>2
      <4> QED BY <4>1, <3>2, <2>1, <1>3
    <3>3. CASE i > k + 1
      <4>1. i - 1 \in 1 .. Len(list) /\ ~(i <= k) /\ i # k + 1 BY <3>3, <1>2
      <4> QED BY <4>1, <2>1, <1>2, <1>3 DEF Listed
    <3> QED BY <3>1, <3>2, <3>3
  <2>2. ASSUME NEW m \in 1 .. Len(list), list[m] = u
        PROVE  \E i \in 1 .. Len(list) + 1 : list'[i] = u
    <3>1. CASE m <= k
      <4>1. m \in 1 .. Len(list) + 1 BY <1>2
      <4> QED BY <4>1, <3>1, <2>2, <1>3
    <3>2. CASE m > k
      <4>1. m + 1 \in 1 .. Len(list) + 1 /\ ~(m + 1 <= k) /\ m + 1 # k + 1 /\ (m + 1) - 1 = m
        BY <3>2, <1>2
      <4> QED BY <4>1, <2>2, <1>3
    <3> QED BY <3>1, <3>2
  <2>3. u = t => \E i \in 1 .. Len(list) + 1 : list'[i] = u
    <3>1. k + 1 \in 1 .. Len(list) + 1 /\ ~(k + 1 <= k) BY <1>2
    <3> QED BY <3>1, <1>3
  <2> QED BY <2>1, <2>2, <2>3, <1>2, <1>4 DEF Listed
<1>8. list' # <<>>
  <2>1. Len(list') # 0 BY <1>2, <1>3
  <2> QED BY <2>1, EmptySeq
<1> QED BY <1>2, <1>3, <1>6, <1>7, <1>8

(* The new head is what is prepended.                                      *)
LEMMA Prepended ==
  ASSUME NEW s \in Seq(Timers), NEW t \in Timers
  PROVE  <<t>> \o s = InsertAt(s, 0 + 1, t)
<1>1. Len(s) \in Nat BY LenProperties
<1>2. SubSeq(s, 1, 0) = <<>>
  <2>1. SubSeq(s, 1, 0) \in Seq(Timers) /\ Len(SubSeq(s, 1, 0)) = 0
    <3>1. \A i \in 1 .. 0 : i \in 1 .. Len(s) OBVIOUS
    <3>2. 0 \in 0 .. Len(s) BY <1>1
    <3> QED BY <3>1, <3>2, <1>1, SubSeqProperties
  <2> QED BY <2>1, EmptySeq
<1>3. SubSeq(s, 1, Len(s)) = s BY SubSeqFull
<1>4. (0 + 1) - 1 = 0 /\ 0 + 1 = 1 OBVIOUS
<1>5. InsertAt(s, 0 + 1, t) = (SubSeq(s, 1, 0) \o <<t>>) \o SubSeq(s, 1, Len(s))
  BY <1>4 DEF InsertAt
<1>6. <<>> \o <<t>> = <<t>>
  <2>1. <<t>> \in Seq(Timers) OBVIOUS
  <2> QED BY <2>1, ConcatEmptySeq
<1> QED BY <1>2, <1>3, <1>5, <1>6

(* What starting a timer does: it comes into the list, where the alarm and *)
(* the time that is left to the others stay right.                         *)
LEMMA Started ==
  ASSUME Listing, NEW t \in Timers, TimerStart(t), reload' = reload
  PROVE  /\ Listing' /\ list' # <<>>
         /\ \A u \in Timers : Listed(u)' <=> Listed(u) \/ u = t
         /\ Listed(t) => left' = left
         /\ ~Listed(t) => left' = [left EXCEPT ![t] = reload[t]]
         /\ running' => running \/ alarm' > 0
         /\ alarm' > 0 \/ alarm' = alarm
         /\ running \/ list = <<>> => running'
         /\ Timely => Timely'
<1>1. /\ list \in Seq(Timers) /\ Distinct(list) /\ ts \in [Timers -> Nat]
      /\ left \in [Timers -> {Unset} \cup Nat] /\ reload \in [Timers -> Nat]
      /\ running \in BOOLEAN /\ alarm \in Nat /\ elapsed \in 0 .. MaxElapsed
  BY DEF Listing
<1>2. DOMAIN list = 1 .. Len(list) /\ Len(list) \in Nat BY <1>1, LenProperties
<1>3. CASE Listed(t)
  <2>1. UNCHANGED <<listVars, left>> BY <1>3 DEF TimerStart
  <2>2. /\ list' = list /\ ts' = ts /\ (running' <=> running) /\ running' \in BOOLEAN
        /\ alarm' = alarm /\ elapsed' = elapsed /\ left' = left
    BY <2>1, <1>1 DEF listVars
  <2>3. Listing' BY <2>2, <1>1 DEF Listing
  <2>4. \A u \in Timers : Listed(u)' <=> Listed(u) \/ u = t BY <2>2, <1>3 DEF Listed
  <2>5. Remaining' = Remaining BY <2>2 DEF Remaining, TimerListHead
  <2>6. list # <<>>
    <3>1. DOMAIN <<>> = {} OBVIOUS
    <3> QED BY <3>1, <1>3 DEF Listed
  <2>7. Timely => Timely'
    <3>1. Remaining' >= Remaining BY <2>5, <2>6, AggregatedNow
    <3>2. \A u \in Timers : left'[u] <= left[u]
      <4>1. \A u \in Timers : left[u] \in Int BY <1>1 DEF Unset
      <4> QED BY <4>1, <2>2
    <3> QED BY <3>1, <3>2, <2>2, <2>3, TimelySame
  <2> QED BY <2>2, <2>3, <2>4, <2>6, <2>7, <1>3
<1>4. CASE ~Listed(t)
  <2>1. \A i \in 1 .. Len(list) : list[i] # t BY <1>2, <1>4 DEF Listed
  <2>2. left' = [left EXCEPT ![t] = reload[t]] BY <1>4 DEF TimerStart
  <2>3. left' \in [Timers -> {Unset} \cup Nat] BY <1>1, <2>2
  <2>4. left'[t] = reload[t] /\ \A u \in Timers : u # t => left'[u] = left[u]
    BY <1>1, <2>2
  <2>5. reload[t] \in Nat BY <1>1
  <2>6. CASE list = <<>> \/ reload[t] < Remaining
    <3>1. InsertNewHead(t) BY <1>4, <2>6 DEF TimerStart
    <3>2. list' = InsertAt(list, 0 + 1, t)
      BY <3>1, <1>1, Prepended DEF InsertNewHead
    <3>3. 0 \in 0 .. Len(list) BY <1>2
    <3>4. /\ list' \in Seq(Timers) /\ Distinct(list') /\ list' # <<>>
          /\ Len(list') = Len(list) + 1
          /\ \A i \in 1 .. Len(list) + 1 :
               list'[i] = IF i <= 0 THEN list[i] ELSE IF i = 0 + 1 THEN t ELSE list[i - 1]
          /\ \A u \in Timers : Listed(u)' <=> Listed(u) \/ u = t
      BY <3>2, <3>3, <1>4, Inserted
    <3>5. /\ running' = TRUE /\ alarm' > 0 /\ alarm' \in Nat /\ elapsed' = 0
      BY <3>1, <2>5 DEF InsertNewHead, SetTimeout
    <3>6. elapsed' \in 0 .. MaxElapsed BY <3>5, TimerAssumption
    <3>7. /\ list = <<>> => ts' = [ts EXCEPT ![t] = reload[t]]
          /\ list # <<>> =>
               ts' = [ts EXCEPT ![t] = reload[t], ![TimerListHead] = Remaining - reload[t]]
      BY <3>1 DEF InsertNewHead
    <3>8. list'[1] = t
      <4>1. 1 \in 1 .. Len(list) + 1 /\ ~(1 <= 0) /\ 1 = 0 + 1 BY <1>2
      <4> QED BY <4>1, <3>4
    <3>9. ASSUME list # <<>>
          PROVE  /\ ts' \in [Timers -> Nat] /\ ts'[t] = reload[t]
                 /\ AreSums(With(Aggregated, Len(list), 0, reload[t]), list', ts', reload[t])
      <4> DEFINE A == Aggregated  r == Remaining  x == reload[t]  v == ts'
      <4>1. /\ Len(list) > 0 /\ TimerListHead = list[1] /\ list[1] \in Timers
            /\ r \in Nat /\ AreSums(A, list, ts, r)
        BY <3>9, AggregatedNow
      <4>2. x < r BY <2>6, <3>9
      <4>3. v = [ts EXCEPT ![t] = x, ![list[1]] = r - x] BY <3>7, <3>9, <4>1
      <4>4. list' = <<t>> \o list BY <3>1 DEF InsertNewHead
      <4>5. x \in Nat /\ x <= r BY <4>1, <4>2, <2>5
      <4>6. list[1] # t
        <5>1. 1 \in 1 .. Len(list) BY <4>1, <1>2
        <5> QED BY <5>1, <2>1
      <4>7. v[t] = x
        <5> HIDE DEF x, r, v
        <5> QED BY <4>3, <4>6, <1>1
      <4> HIDE DEF A, r, x, v
      <4>8. v \in [Timers -> Nat] /\ AreSums(With(A, Len(list), 0, x), <<t>> \o list, v, x)
        BY ONLY <4>1, <4>3, <4>5, <1>1, <2>1, t \in Timers, SumsPrepended
      <4> QED BY <4>4, <4>7, <4>8 DEF A, x, v
    <3>10. ts' \in [Timers -> Nat] /\ ts'[t] = reload[t]
      <4>1. CASE list = <<>> BY <4>1, <3>7, <2>5, <1>1
      <4>2. CASE list # <<>> BY <4>2, <3>9
      <4> QED BY <4>1, <4>2
    <3>11. Listing' BY <3>4, <3>5, <3>6, <3>10, <2>3, <1>1 DEF Listing
    <3>12. Remaining' = reload[t]
      <4>1. TimerListHead' = t BY <3>4, <3>8, <3>11, AggregatedNext
      <4> QED BY <4>1, <3>5, <3>10, <2>5 DEF Remaining, Least
    <3>13. ASSUME Timely PROVE Timely'
      <4>1. CASE list = <<>>
        <5> DEFINE D == [i \in 1 .. 1 |-> reload[t]]
        <5>1. Len(list') = 1
          <6>1. Len(list) = 0 BY <4>1, EmptySeq
          <6> QED BY <6>1, <3>4
        <5>2. D[1] = reload[t] /\ D = [i \in 1 .. 1 |-> D[i]] BY <2>5
        <5> HIDE DEF D
        <5>3. \A i \in 2 .. 1 : FALSE OBVIOUS
        <5>4. AreSums(D, list', ts', reload[t])
          <6>1. D = [i \in 1 .. Len(list') |-> D[i]] BY <5>1, <5>2
          <6>2. \A i \in 2 .. Len(list') : D[i] = D[i - 1] + ts'[list'[i]] BY <5>1, <5>3
          <6> QED BY ONLY <6>1, <6>2, <5>2, <3>4, SumsBy
        <5>5. ASSUME NEW i \in 1 .. Len(list') PROVE left'[list'[i]] <= D[i]
          <6>1. i = 1 BY <5>1
          <6> QED BY <6>1, <5>2, <3>8, <2>4, <2>5
        <5> QED BY <5>4, <5>5, <3>4, <3>11, <3>12, TimelyBy
      <4>2. CASE list # <<>>
        <5> DEFINE D == With(Aggregated, Len(list), 0, reload[t])
        <5>1. ASSUME NEW i \in 1 .. Len(list') PROVE left'[list'[i]] <= D[i]
          <6>1. i \in 1 .. Len(list) + 1 /\ ~(i <= 0) BY <3>4, <1>2
          <6>2. D[i] = IF i = 1 THEN reload[t] ELSE Aggregated[i - 1]
            <7>1. i = 0 + 1 <=> i = 1 BY <6>1
            <7> QED BY <6>1, <7>1 DEF With
          <6> HIDE DEF D
          <6>3. CASE i = 1 BY <6>2, <6>3, <3>8, <2>4, <2>5
          <6>4. CASE i # 1
            <7>1. i - 1 \in 1 .. Len(list) /\ i # 0 + 1 BY <6>1, <6>4, <1>2
            <7>2. list'[i] = list[i - 1] BY <7>1, <6>1, <3>4
            <7>3. list[i - 1] \in Timers /\ list[i - 1] # t BY <7>1, <2>1, <1>1, ElementOfSeq
            <7>4. left[list[i - 1]] <= Aggregated[i - 1] BY <7>1, <3>13, <1>2 DEF Timely
            <7> QED BY <7>2, <7>3, <7>4, <6>2, <6>4, <2>4
          <6> QED BY <6>3, <6>4
        <5>2. AreSums(D, list', ts', reload[t]) BY <4>2, <3>9
        <5> HIDE DEF D
        <5> QED BY <5>1, <5>2, <3>4, <3>11, <3>12, TimelyBy
      <4> QED BY <4>1, <4>2
    <3> QED BY <3>4, <3>5, <3>11, <3>13, <2>2, <1>4
  <2>7. CASE ~(list = <<>> \/ reload[t] < Remaining)
    <3> DEFINE n == Len(list)  A == Aggregated  r == Remaining  x == reload[t]
    <3>1. Insert(t) BY <1>4, <2>7 DEF TimerStart
    <3>2. /\ n \in Nat /\ n > 0 /\ TimerListHead = list[1] /\ list[1] \in Timers
          /\ r \in Nat /\ AreSums(A, list, ts, r)
          /\ A \in [1 .. n -> Nat] /\ A[1] = r
      BY <2>7, AggregatedNow
    <3>3. x >= r BY <3>2, <2>5, <2>7
    <3> DEFINE Fits(i) == A[i] <= x /\ (i < n => A[i + 1] > x)
               k == CHOOSE i \in DOMAIN list : Fits(i)
    <3>4. \E i \in DOMAIN list : Fits(i)
      <4> DEFINE T == {i \in 1 .. n : i < n => A[i + 1] > x}
      <4>1. n \in T /\ T \subseteq Nat BY <3>2
      <4>2. PICK m \in T : \A i \in T : m <= i BY <4>1, LeastNumber
      <4>3. m \in 1 .. n /\ (m < n => A[m + 1] > x) BY <4>2
      <4>4. A[m] <= x
        <5>1. CASE m = 1 BY <5>1, <3>2, <3>3, <2>5
        <5>2. CASE m # 1
          <6>1. m - 1 \in 1 .. n /\ m - 1 < n /\ ~(m <= m - 1) /\ (m - 1) + 1 = m
            BY <4>3, <5>2, <3>2
          <6>2. m - 1 \notin T BY <6>1, <4>2
          <6>3. ~(A[m] > x) BY <6>1, <6>2
          <6>4. A[m] \in Nat BY <4>3, <3>2
          <6> HIDE DEF x
          <6> QED BY <6>3, <6>4, <2>5 DEF x
        <5> QED BY <5>1, <5>2
      <4> QED BY <4>3, <4>4, <1>2
    <3>5. k \in 1 .. n /\ Fits(k) BY <3>4, <1>2
    <3>6. /\ list' = InsertAt(list, k + 1, t)
          /\ ts' = Spread(list, ts, k, t, x - A[k])
          /\ UNCHANGED <<running, alarm, elapsed>>
      BY <3>1 DEF Insert, Spread
    <3> HIDE DEF k
    <3>a. (running' <=> running) /\ running' \in BOOLEAN /\ alarm' = alarm /\ elapsed' = elapsed
      BY <3>6, <1>1
    <3>7. /\ list' \in Seq(Timers) /\ Distinct(list') /\ list' # <<>>
          /\ Len(list') = Len(list) + 1
          /\ \A i \in 1 .. Len(list) + 1 :
               list'[i] = IF i <= k THEN list[i] ELSE IF i = k + 1 THEN t ELSE list[i - 1]
          /\ \A u \in Timers : Listed(u)' <=> Listed(u) \/ u = t
      <4>1. k \in 0 .. Len(list) BY <3>5, <3>2
      <4> QED BY <4>1, <3>6, <1>4, Inserted
    <3>8. A[k] <= x /\ (k < n => A[k + 1] > x) BY <3>5
    <3> HIDE DEF A, r, x, n
    <3>9. ts' \in [Timers -> Nat] /\ AreSums(With(A, n, k, x), list', ts', r)
      <4>1. x \in Nat BY <2>5 DEF x
      <4>2. k \in 1 .. Len(list) /\ (k < Len(list) => A[k + 1] > x) BY <3>5, <3>8 DEF n
      <4>3. /\ Spread(list, ts, k, t, x - A[k]) \in [Timers -> Nat]
            /\ AreSums(With(A, Len(list), k, x), InsertAt(list, k + 1, t),
                       Spread(list, ts, k, t, x - A[k]), r)
        BY ONLY <4>1, <4>2, <3>2, <3>8, <1>1, <2>1, t \in Timers, SumsInserted
      <4> QED BY <4>3, <3>6 DEF n
    <3>10. Listing' BY <3>7, <3>9, <3>a, <2>3, <1>1 DEF Listing
    <3>11. list'[1] = list[1] /\ TimerListHead' = TimerListHead
      <4>1. 1 \in 1 .. Len(list) + 1 /\ 1 <= k BY <3>5, <1>2
      <4>2. list'[1] = list[1] BY <4>1, <3>7
      <4> QED BY <4>2, <3>2, <3>7, <3>10, AggregatedNext
    <3>12. ts'[list[1]] = ts[list[1]]
      <4>1. 1 \in 1 .. Len(list) BY <3>2 DEF n
      <4>2. list[1] # t BY <4>1, <2>1
      <4>3. k < Len(list) => list[1] # list[k + 1]
        <5>1. k < Len(list) => k + 1 \in 1 .. Len(list) /\ 1 # k + 1 BY <3>5, <1>2
        <5> QED BY <4>1, <5>1, <1>1 DEF Distinct
      <4> QED BY <4>2, <4>3, <3>2, <3>6 DEF Spread
    <3>13. Remaining' = r BY <3>a, <3>2, <3>11, <3>12 DEF Remaining, r
    <3>14. ASSUME Timely PROVE Timely'
      <4>1. ASSUME NEW i \in 1 .. Len(list') PROVE left'[list'[i]] <= With(A, n, k, x)[i]
        <5>1. i \in 1 .. Len(list) + 1 BY <3>7
        <5>2. With(A, n, k, x)[i] = IF i <= k THEN A[i] ELSE IF i = k + 1 THEN x ELSE A[i - 1]
          BY <5>1 DEF With, n
        <5> DEFINE m == IF i <= k THEN i ELSE i - 1
        <5>3. i # k + 1 => m \in 1 .. Len(list) BY <5>1, <3>5, <1>2 DEF n
        <5>4. i # k + 1 => list'[i] = list[m] /\ With(A, n, k, x)[i] = A[m]
          BY <5>1, <5>2, <3>7
        <5> HIDE DEF m
        <5>5. CASE i = k + 1
          <6>1. ~(i <= k) BY <5>5, <3>5
          <6>2. list'[i] = t /\ With(A, n, k, x)[i] = x BY <5>1, <5>2, <5>5, <6>1, <3>7
          <6> QED BY <6>2, <2>4, <2>5 DEF x
        <5>6. CASE i # k + 1
          <6>1. list[m] \in Timers /\ list[m] # t BY <5>3, <5>6, <2>1, <1>1, ElementOfSeq
          <6>2. left[list[m]] <= A[m] BY <5>3, <5>6, <3>14, <1>2 DEF Timely, A
          <6> QED BY <5>4, <5>6, <6>1, <6>2, <2>4
        <5> QED BY <5>5, <5>6
      <4> QED BY <4>1, <3>7, <3>9, <3>10, <3>13, TimelyBy
    <3>15. running \/ list = <<>> => running' BY <3>a, <2>7
    <3> QED BY <3>7, <3>a, <3>10, <3>14, <3>15, <2>2, <1>4
  <2> QED BY <2>6, <2>7
<1> QED BY <1>3, <1>4
-----------------------------------------------------------------------------
(***************************************************************************)
(* The list through the steps of the program.                              *)
(***************************************************************************)
LEMMA Values ==
  /\ Sm \in Timers /\ Cad \in Timers /\ Radio \in Timers
  /\ SmDelays \subseteq Nat /\ CadInterval \in Nat /\ RadioTimeout \in Nat
BY Sx1272Assumption

LEMMA HandlerHolds ==
  ASSUME handler \in Handlers
  PROVE  /\ At("read") => handler.elapsed \in 0 .. MaxElapsed
         /\ At("taken") => handler.timer \in Timers /\
              [handler EXCEPT !.at = "call"] = [at |-> "call", timer |-> handler.timer]
         /\ At("call") => handler.timer \in Timers
BY DEF Handlers, At

LEMMA Untouched ==
  ASSUME Listing, UNCHANGED listVars, reload' \in [Timers -> Nat],
         left' \in [Timers -> {Unset} \cup Nat], \A t \in Timers : left'[t] <= left[t]
  PROVE  /\ Listing' /\ (Timely => Timely')
         /\ \A t \in Timers : Listed(t)' <=> Listed(t)
         /\ list' = list /\ ts' = ts /\ (running' <=> running)
         /\ alarm' = alarm /\ elapsed' = elapsed
<1>1. /\ list' = list /\ ts' = ts /\ (running' <=> running) /\ running' \in BOOLEAN
      /\ alarm' = alarm /\ elapsed' = elapsed
  BY DEF listVars, Listing
<1>2. Listing' BY <1>1 DEF Listing
<1>3. Timely => Timely'
  <2>1. Remaining' = Remaining BY <1>1 DEF Remaining, TimerListHead
  <2>2. list # <<>> => Remaining' >= Remaining BY <2>1, AggregatedNow
  <2> QED BY <2>2, <1>1, <1>2, TimelySame
<1>4. \A t \in Timers : Listed(t)' <=> Listed(t) BY <1>1 DEF Listed
<1> QED BY <1>1, <1>2, <1>3, <1>4

(* A value that is not below itself, as Untouched and TimelySame want it.  *)
LEMMA LeftSame ==
  ASSUME Listing
  PROVE  \A t \in Timers : left[t] <= left[t] /\ left[t] \in Int /\ Unset <= left[t]
BY DEF Listing, Unset

LEMMA LeftUnset ==
  ASSUME Listing, NEW u \in Timers, left' = [left EXCEPT ![u] = Unset]
  PROVE  /\ left' \in [Timers -> {Unset} \cup Nat]
         /\ \A t \in Timers : left'[t] <= left[t]
<1>1. left \in [Timers -> {Unset} \cup Nat] BY DEF Listing
<1>2. ASSUME NEW t \in Timers PROVE left'[t] <= left[t]
  <2>1. left'[t] = IF t = u THEN Unset ELSE left[t] BY <1>1
  <2> QED BY <2>1, LeftSame
<1> QED BY <1>1, <1>2

(* The steps of the handler that leave the list alone, but for the history *)
(* of the timer that is called.                                            *)
Quiet == (ApplyToNothing \/ Take) /\ UNCHANGED Driver

Calling == SmExpires \/ CadExpires \/ RadioExpires

LEMMA QuietKeeps ==
  ASSUME Typed, Quiet \/ Calling \/ TxGivesUp \/ MainStartsCad
  PROVE  /\ Listing' /\ (Timely => Timely')
         /\ \A t \in Timers : Listed(t)' <=> Listed(t)
         /\ list' = list /\ ts' = ts /\ (running' <=> running)
         /\ alarm' = alarm /\ elapsed' = elapsed
<1>1. Listing /\ reload \in [Timers -> Nat] /\ left \in [Timers -> {Unset} \cup Nat]
  BY DEF Typed, Listing
<1>2. UNCHANGED listVars /\ reload' = reload
  BY DEF Quiet, Calling, ApplyToNothing, Take, SmExpires, CadExpires, RadioExpires,
         TxGivesUp, MainStartsCad, listVars, timerVars
<1>3. left' = left \/ \E u \in Timers : left' = [left EXCEPT ![u] = Unset]
  BY Values DEF Quiet, Calling, ApplyToNothing, Take, SmExpires, CadExpires, RadioExpires,
         TxGivesUp, MainStartsCad, timerVars, Called
<1>4. left' \in [Timers -> {Unset} \cup Nat] /\ \A t \in Timers : left'[t] <= left[t]
  BY <1>1, <1>3, LeftSame, LeftUnset
<1> QED BY <1>1, <1>2, <1>4, Untouched

LEMMA EnterKeeps ==
  ASSUME Typed, Enter
  PROVE  Listing' /\ (Timely => Timely')
<1>1. Listing BY DEF Typed
<1>2. /\ list' = list /\ ts' = ts /\ running' = running /\ alarm' = 0
      /\ elapsed' = elapsed /\ left' = left /\ reload' = reload
  BY DEF Enter
<1>3. Listing' BY <1>1, <1>2 DEF Listing
<1>4. Remaining' = Remaining BY <1>2 DEF Remaining, TimerListHead
<1>5. list # <<>> => Remaining' >= Remaining BY <1>1, <1>4, AggregatedNow
<1>6. \A t \in Timers : left'[t] <= left[t] BY <1>1, <1>2, LeftSame
<1>7. Timely => Timely' BY <1>1, <1>2, <1>3, <1>5, <1>6, TimelySame
<1> QED BY <1>3, <1>7

(* The time that has gone by since the alarm was set is taken off the head *)
(* as it was read, which is not more than now.                             *)
LEMMA ApplyKeeps ==
  ASSUME Typed, Alarmed, Apply
  PROVE  Listing' /\ (InTime => Timely')
<1>1. Listing /\ handler \in Handlers BY DEF Typed
<1>2. /\ list # <<>> /\ list' = list /\ At("read") /\ ~running'
      /\ ts' = [ts EXCEPT ![TimerListHead] = @ - Least(handler.elapsed, @)]
      /\ elapsed' = elapsed /\ left' = left /\ reload' = reload /\ alarm' = alarm
      /\ running' \in BOOLEAN
  BY DEF Apply
<1>3. /\ TimerListHead = list[1] /\ list[1] \in Timers
  BY <1>1, <1>2, AggregatedNow
<1> DEFINE h == list[1]
           a == ts[h]
           e == handler.elapsed
<1>4. a \in Nat /\ e \in Nat /\ elapsed \in Nat
  <2>1. e \in 0 .. MaxElapsed BY <1>1, <1>2, HandlerHolds
  <2>2. ts \in [Timers -> Nat] /\ elapsed \in 0 .. MaxElapsed BY <1>1 DEF Listing
  <2> QED BY <2>1, <2>2, <1>3, TimerAssumption
<1>5. a - Least(e, a) \in Nat
  <2> HIDE DEF a, e
  <2> QED BY <1>4 DEF Least
<1>6. ts' = [ts EXCEPT ![h] = a - Least(e, a)] BY <1>2, <1>3
<1> HIDE DEF a, e
<1>7. ts \in [Timers -> Nat] BY <1>1 DEF Listing
<1>8. /\ ts' \in [Timers -> Nat] /\ ts'[h] = a - Least(e, a)
      /\ \A t \in Timers : t # h => ts'[t] = ts[t]
  BY <1>3, <1>5, <1>6, <1>7
<1>9. Listing' BY <1>1, <1>2, <1>8 DEF Listing
<1>10. ASSUME InTime PROVE Timely'
  <2>1. Timely /\ e <= elapsed BY <1>2, <1>10 DEF InTime, e
  <2>2. running BY <1>2 DEF Alarmed
  <2>3. Remaining = a - Least(elapsed, a) BY <1>3, <2>2 DEF Remaining, a
  <2>4. Remaining' = a - Least(e, a)
    <3>1. TimerListHead' = h BY <1>2, <1>9, AggregatedNext
    <3> QED BY <3>1, <1>2, <1>8 DEF Remaining
  <2>5. Remaining' >= Remaining
    <3>1. a - Least(e, a) >= a - Least(elapsed, a) BY <1>4, <2>1 DEF Least
    <3> QED BY <3>1, <2>3, <2>4
  <2>6. \A i \in 2 .. Len(list) : ts'[list[i]] = ts[list[i]]
    <3> SUFFICES ASSUME NEW i \in 2 .. Len(list) PROVE ts'[list[i]] = ts[list[i]]
      OBVIOUS
    <3>1. Len(list) \in Nat BY <1>1, <1>2, AggregatedNow
    <3>2. i \in 1 .. Len(list) /\ 1 \in 1 .. Len(list) /\ i # 1 BY <3>1
    <3>3. list[i] # h BY <3>2, <1>1 DEF Listing, Distinct
    <3>4. list[i] \in Timers BY <3>2, <1>1, ElementOfSeq DEF Listing
    <3> QED BY <3>3, <3>4, <1>8
  <2>7. \A t \in Timers : left'[t] <= left[t] BY <1>1, <1>2, LeftSame
  <2> QED BY <2>1, <2>5, <2>6, <2>7, <1>1, <1>2, <1>9, TimelySame
<1> QED BY <1>9, <1>10

(* The head is taken off: it has no time left.                             *)
LEMMA AdvanceKeeps ==
  ASSUME Typed, Advance
  PROVE  /\ Listing'
         /\ list # <<>> /\ ts[TimerListHead] = 0 /\ Timely => Timely'
         /\ list # <<>> => \A t \in Timers : Listed(t)' <=> Listed(t) /\ t # TimerListHead
<1>1. Listing BY DEF Typed
<1>2. /\ ts' = ts /\ reload' = reload /\ alarm' = alarm /\ elapsed' = elapsed
      /\ left' = left /\ ~running' /\ running' \in BOOLEAN
      /\ list # <<>> => list' = Tail(list)
      /\ list = <<>> => list' = list
  BY DEF Advance
<1>3. CASE list = <<>>
  <2>1. Listing' BY <1>1, <1>2, <1>3 DEF Listing
  <2> QED BY <2>1, <1>3
<1>4. CASE list # <<>>
  <2>1. list \in Seq(Timers) /\ Distinct(list) /\ ts \in [Timers -> Nat]
        /\ left \in [Timers -> {Unset} \cup Nat]
    BY <1>1 DEF Listing
  <2>2. /\ Len(list) \in Nat /\ Len(list) > 0 /\ TimerListHead = list[1] /\ list[1] \in Timers
        /\ Remaining \in Nat /\ AreSums(Aggregated, list, ts, Remaining)
        /\ Aggregated \in [1 .. Len(list) -> Nat]
    BY <1>1, <1>4, AggregatedNow
  <2>3. /\ list' \in Seq(Timers) /\ Len(list') = Len(list) - 1
        /\ \A i \in 1 .. Len(list) - 1 : list'[i] = list[i + 1]
    BY <1>2, <1>4, <2>1, HeadTailProperties
  <2>4. Distinct(list')
    <3> SUFFICES ASSUME NEW i \in 1 .. Len(list) - 1, NEW j \in 1 .. Len(list) - 1,
                        list'[i] = list'[j]
                 PROVE  i = j
      BY <2>3 DEF Distinct
    <3>1. i + 1 \in 1 .. Len(list) /\ j + 1 \in 1 .. Len(list) BY <2>2
    <3>2. list[i + 1] = list[j + 1] BY <2>3
    <3>3. i + 1 = j + 1 BY <3>1, <3>2, <2>1 DEF Distinct
    <3> QED BY <3>3
  <2>5. Listing' BY <1>1, <1>2, <2>3, <2>4 DEF Listing
  <2>6. ASSUME ts[TimerListHead] = 0, Timely PROVE Timely'
    <3>1. CASE list' = <<>> BY <3>1, TimelyEmpty
    <3>2. CASE list' # <<>>
      <4> DEFINE A == Aggregated
                 q == Remaining'
                 D == [i \in 1 .. Len(list) - 1 |-> A[i + 1]]
      <4>1. Remaining = 0
        <5>1. elapsed \in Nat BY <1>1, TimerAssumption DEF Listing
        <5>2. Least(elapsed, 0) = 0 /\ 0 - 0 = 0 BY <5>1 DEF Least
        <5> QED BY <2>6, <5>2 DEF Remaining
      <4>2. AreSums(A, list, ts, 0) BY <2>2, <4>1
      <4>3. q \in Nat /\ TimerListHead' = list'[1] /\ Len(list') > 0
        BY <2>5, <3>2, AggregatedNext
      <4>4. q = ts[list[2]]
        <5>1. 1 \in 1 .. Len(list) - 1 /\ 1 + 1 = 2 BY <4>3, <2>2, <2>3
        <5>2. list'[1] = list[2] BY <5>1, <2>3
        <5> QED BY <5>2, <4>3, <1>2 DEF Remaining
      <4>5. \A i \in 1 .. Len(list) : left[list[i]] <= A[i]
        BY <2>1, <2>6, LenProperties DEF Timely
      <4> HIDE DEF A, q
      <4>6. AreSums(D, list', ts', q)
        <5>1. AreSums([i \in 1 .. Len(list) - 1 |-> A[i + 1]], Tail(list), ts, q)
          BY ONLY <2>1, <2>2, <4>2, <4>3, <4>4, SumsTail
        <5> QED BY <5>1, <1>2, <1>4
      <4>7. ASSUME NEW i \in 1 .. Len(list') PROVE left'[list'[i]] <= D[i]
        <5>1. i \in 1 .. Len(list) - 1 /\ i + 1 \in 1 .. Len(list) BY <2>2, <2>3
        <5>2. D[i] = A[i + 1] BY <5>1
        <5> HIDE DEF D
        <5>3. list'[i] = list[i + 1] BY <5>1, <2>3
        <5> QED BY <5>1, <5>2, <5>3, <4>5, <1>2
      <4> HIDE DEF D
      <4> QED BY <3>2, <2>5, <4>6, <4>7, TimelyBy DEF q
    <3> QED BY <3>1, <3>2
  <2>7. ASSUME NEW t \in Timers PROVE Listed(t)' <=> Listed(t) /\ t # TimerListHead
    <3>1. DOMAIN list = 1 .. Len(list) /\ DOMAIN list' = 1 .. Len(list) - 1
      BY <2>1, <2>3, LenProperties
    <3>2. ASSUME NEW i \in 1 .. Len(list) - 1, list'[i] = t
          PROVE  Listed(t) /\ t # TimerListHead
      <4>1. i + 1 \in 1 .. Len(list) /\ i + 1 # 1 /\ 1 \in 1 .. Len(list) BY <2>2
      <4>2. list[i + 1] = t BY <3>2, <2>3
      <4>3. t # list[1] BY <4>1, <4>2, <2>1 DEF Distinct
      <4> QED BY <4>1, <4>2, <4>3, <3>1, <2>2 DEF Listed
    <3>3. ASSUME NEW m \in 1 .. Len(list), list[m] = t, t # TimerListHead
          PROVE  \E i \in 1 .. Len(list) - 1 : list'[i] = t
      <4>1. m # 1 BY <3>3, <2>2
      <4>2. m - 1 \in 1 .. Len(list) - 1 /\ (m - 1) + 1 = m BY <4>1, <2>2
      <4> QED BY <4>2, <3>3, <2>3
    <3> QED BY <3>1, <3>2, <3>3 DEF Listed
  <2> QED BY <2>5, <2>6, <2>7
<1> QED BY <1>3, <1>4

LEMMA FinishKeeps ==
  ASSUME Typed, Finish
  PROVE  /\ Listing' /\ (Timely => Timely')
         /\ list' = list /\ left' = left
         /\ running' => running \/ alarm' > 0
         /\ running => running' /\ alarm' = alarm
         /\ list # <<>> => running'
         /\ list = <<>> => (running' <=> running)
<1>1. Listing BY DEF Typed
<1>2. /\ list' = list /\ ts' = ts /\ left' = left /\ reload' = reload
      /\ \/ /\ list # <<>> /\ ~running
            /\ running' = TRUE /\ SetTimeout(ts[TimerListHead])
         \/ /\ list = <<>> \/ running
            /\ running' = running /\ alarm' = alarm /\ elapsed' = elapsed
  BY DEF Finish, listVars
<1>a. running \in BOOLEAN /\ alarm \in Nat /\ elapsed \in 0 .. MaxElapsed
  BY <1>1 DEF Listing
<1>3. list # <<>> /\ ~running =>
        ts[TimerListHead] \in Nat /\ alarm' > 0 /\ alarm' \in Nat /\ elapsed' = 0 /\ running'
  <2>1. list # <<>> => ts[TimerListHead] \in Nat
    <3>1. list # <<>> => TimerListHead \in Timers BY <1>1, AggregatedNow
    <3> QED BY <3>1, <1>1 DEF Listing
  <2> QED BY <2>1, <1>2 DEF SetTimeout
<1>b. /\ running' \in BOOLEAN /\ alarm' \in Nat /\ elapsed' \in 0 .. MaxElapsed
  <2>1. CASE list # <<>> /\ ~running BY <2>1, <1>2, <1>3, TimerAssumption
  <2>2. CASE list = <<>> \/ running
    <3>1. running' = running /\ alarm' = alarm /\ elapsed' = elapsed BY <2>2, <1>2
    <3> QED BY <3>1, <1>a
  <2> QED BY <2>1, <2>2
<1>4. Listing' BY <1>1, <1>2, <1>b DEF Listing
<1>5. list # <<>> => Remaining' >= Remaining
  <2>1. TimerListHead' = TimerListHead BY <1>2 DEF TimerListHead
  <2>2. CASE list # <<>> /\ ~running
    <3>1. Remaining = ts[TimerListHead] BY <2>2 DEF Remaining
    <3>2. Remaining' = ts[TimerListHead]
      BY <2>1, <2>2, <1>2, <1>3 DEF Remaining, Least
    <3> QED BY <3>1, <3>2, <1>3, <2>2
  <2>3. CASE running
    <3>1. Remaining' = Remaining BY <2>1, <2>3, <1>2 DEF Remaining
    <3> QED BY <3>1, <1>1, AggregatedNow
  <2> QED BY <2>2, <2>3
<1>6. \A t \in Timers : left'[t] <= left[t] BY <1>1, <1>2, LeftSame
<1>7. Timely => Timely' BY <1>1, <1>2, <1>4, <1>5, <1>6, TimelySame
<1> QED BY <1>2, <1>3, <1>4, <1>7, <1>a

(* A millisecond more is elapsed, or none for the timer that is not run.   *)
LEMMA TickKeeps ==
  ASSUME Typed, Tick
  PROVE  /\ Listing' /\ (Timely => Timely') /\ elapsed <= elapsed'
         /\ \A t \in Timers : (left'[t] = Unset <=> left[t] = Unset)
                              /\ (left[t] = 0 => left'[t] = 0)
<1>1. Listing BY DEF Typed
<1>2. /\ list' = list /\ ts' = ts /\ reload' = reload /\ running' = running
      /\ alarm' = (IF alarm > 0 THEN alarm - 1 ELSE 0)
      /\ elapsed' = Least(elapsed + 1, MaxElapsed)
      /\ left' = [t \in Timers |-> IF left[t] > 0 THEN left[t] - 1 ELSE left[t]]
  BY DEF Tick
<1>a. running \in BOOLEAN /\ alarm \in Nat /\ elapsed \in 0 .. MaxElapsed
  BY <1>1 DEF Listing
<1>3. ASSUME NEW t \in Timers
      PROVE  /\ left'[t] \in {Unset} \cup Nat
             /\ left'[t] = IF left[t] > 0 THEN left[t] - 1 ELSE left[t]
             /\ left'[t] = Unset <=> left[t] = Unset
             /\ left[t] = 0 => left'[t] = 0
  <2>1. left[t] \in {Unset} \cup Nat BY <1>1 DEF Listing
  <2>2. left'[t] = IF left[t] > 0 THEN left[t] - 1 ELSE left[t] BY <1>2
  <2> QED BY <2>1, <2>2 DEF Unset
<1>4. left' \in [Timers -> {Unset} \cup Nat]
  <2>1. left' = [t \in Timers |-> left'[t]] BY <1>2
  <2> QED BY <2>1, <1>3
<1>5. alarm' \in Nat BY <1>2, <1>a
<1>6. elapsed' \in 0 .. MaxElapsed /\ elapsed <= elapsed' /\ elapsed' <= elapsed + 1
  BY <1>2, <1>a, TimerAssumption DEF Least
<1>7. Listing' BY <1>1, <1>2, <1>4, <1>5, <1>6 DEF Listing
<1>8. ASSUME Timely PROVE Timely'
  <2>1. CASE list = <<>> BY <2>1, <1>2, TimelyEmpty
  <2>2. CASE list # <<>>
    <3> DEFINE n == Len(list)  A == Aggregated  B == Aggregated'
    <3>1. /\ n \in Nat /\ n > 0 /\ A \in [1 .. n -> Nat] /\ A[1] = Remaining
          /\ TimerListHead = list[1] /\ list[1] \in Timers
          /\ \A i \in 2 .. n : A[i] = A[i - 1] + ts[list[i]]
      BY <1>1, <2>2, AggregatedNow
    <3>2. /\ B \in [1 .. n -> Nat] /\ B[1] = Remaining'
          /\ \A i \in 2 .. n : B[i] = B[i - 1] + ts[list[i]]
      BY <1>2, <1>7, <2>2, AggregatedNext
    <3>3. AreSums(B, list', ts', Remaining') BY <1>2, <1>7, <2>2, AggregatedNext
    <3>4. \A i \in 1 .. n : list[i] \in Timers BY <1>1, ElementOfSeq DEF Listing
    <3>5. \A i \in 1 .. n : left[list[i]] <= A[i]
      BY <1>1, <1>8, LenProperties DEF Timely, Listing
    <3>6. A[1] - 1 <= B[1]
      <4> DEFINE a == ts[list[1]]
      <4>1. a \in Nat BY <1>1, <3>1 DEF Listing
      <4>2. TimerListHead' = TimerListHead BY <1>2 DEF TimerListHead
      <4>3. CASE running
        <5>1. Remaining = a - Least(elapsed, a) BY <4>3, <3>1 DEF Remaining
        <5>2. Remaining' = a - Least(elapsed', a) BY <4>2, <4>3, <3>1, <1>2 DEF Remaining
        <5> HIDE DEF a
        <5>3. elapsed \in Int /\ elapsed' \in Int BY <1>a, <1>6
        <5>4. (a - Least(elapsed, a)) - 1 <= a - Least(elapsed', a)
          <6> DEFINE e == elapsed  f == elapsed'
          <6>1. e \in Int /\ f \in Int /\ f <= e + 1 BY <5>3, <1>6
          <6> HIDE DEF e, f
          <6>2. (a - Least(e, a)) - 1 <= a - Least(f, a) BY ONLY <6>1, <4>1 DEF Least
          <6> QED BY <6>2 DEF e, f
        <5> QED BY <5>1, <5>2, <5>4, <3>1, <3>2
      <4>4. CASE ~running
        <5>1. Remaining = a /\ Remaining' = a BY <4>2, <4>4, <3>1, <1>2 DEF Remaining
        <5> HIDE DEF a
        <5> QED BY <5>1, <4>1, <3>1, <3>2
      <4> QED BY <4>3, <4>4
    <3> HIDE DEF A, B
    <3>7. \A i \in 2 .. n : B[i] - B[i - 1] = A[i] - A[i - 1]
      <4> SUFFICES ASSUME NEW i \in 2 .. n PROVE B[i] - B[i - 1] = A[i] - A[i - 1]
        OBVIOUS
      <4>1. i \in 1 .. n /\ i - 1 \in 1 .. n BY <3>1
      <4>2. ts[list[i]] \in Nat BY <4>1, <1>1, <3>4 DEF Listing
      <4>3. A[i] = A[i - 1] + ts[list[i]] BY <3>1
      <4>4. B[i] = B[i - 1] + ts[list[i]] BY <3>2
      <4>5. A[i - 1] \in Nat /\ B[i - 1] \in Nat BY <4>1, <3>1, <3>2
      <4> QED BY <4>2, <4>3, <4>4, <4>5
    <3> HIDE DEF n
    <3>8. \A i \in 1 .. n : B[i] - A[i] = B[1] - A[1] BY ONLY <3>1, <3>2, <3>7, GrowAlike
    <3>9. ASSUME NEW i \in 1 .. n PROVE left'[list[i]] <= B[i]
      <4> DEFINE x == left[list[i]]  y == left'[list[i]]
      <4>1. list[i] \in Timers BY <3>4
      <4>2. y = IF x > 0 THEN x - 1 ELSE x BY <4>1, <1>3
      <4>3. x \in Int BY <4>1, <1>1, LeftSame
      <4>4. x <= A[i] BY <3>5
      <4>5. 1 \in 1 .. n BY <3>1
      <4>6. A[i] \in Nat /\ B[i] \in Nat /\ A[1] \in Nat /\ B[1] \in Nat
        BY <4>5, <3>1, <3>2
      <4>7. B[i] - A[i] = B[1] - A[1] BY <3>8
      <4> HIDE DEF x, y
      <4>8. y <= B[i] BY <4>2, <4>3, <4>4, <4>6, <4>7, <3>6
      <4> QED BY <4>8 DEF y
    <3> QED BY <2>2, <1>2, <1>7, <3>3, <3>9, TimelyBy DEF n
  <2> QED BY <2>1, <2>2
<1> QED BY <1>3, <1>6, <1>7, <1>8
-----------------------------------------------------------------------------
(***************************************************************************)
(* The types, and the operations of the radio.                             *)
(***************************************************************************)
LEMMA NextListing ==
  ASSUME Typed, Alarmed, Next
  PROVE  Listing'
<1>1. Listing /\ reload \in [Timers -> Nat] /\ main \in Calls BY DEF Typed, Listing
<1>2. CASE HandlerSteps
  <2>1. CASE Enter BY <2>1, EnterKeeps
  <2>2. CASE Apply BY <2>2, ApplyKeeps
  <2>3. CASE Quiet BY <2>3, QuietKeeps
  <2>4. CASE Advance BY <2>4, AdvanceKeeps
  <2>5. CASE Finish BY <2>5, FinishKeeps
  <2>6. CASE Calling BY <2>6, QuietKeeps
  <2>7. CASE CadSetsValue
    <3>1. TimerStop(Cad) /\ reload' = [reload EXCEPT ![Cad] = CadInterval]
      BY <2>7 DEF CadSetsValue, TimerSetValue
    <3>2. reload' \in [Timers -> Nat] BY <3>1, <1>1, Values
    <3> QED BY <3>1, <3>2, <1>1, Values, Stopped
  <2>8. CASE CadRestarts
    <3>1. TimerStart(Cad) /\ reload' = reload BY <2>8 DEF CadRestarts
    <3> QED BY <3>1, <1>1, Values, Started
  <2>9. CASE RadioTimesOut
    <3>1. TimerStop(Radio) /\ reload' = reload BY <2>9 DEF RadioTimesOut, ReportEnd
    <3>2. reload' \in [Timers -> Nat] BY <3>1, <1>1
    <3> QED BY <3>1, <3>2, <1>1, Values, Stopped
  <2>10. CASE TxGivesUp BY <2>10, QuietKeeps
  <2> QED BY <1>2, <2>1, <2>2, <2>3, <2>4, <2>5, <2>6, <2>7, <2>8, <2>9, <2>10
          DEF HandlerSteps, Quiet, Calling
<1>3. CASE MainSetsTimer
  <2>1. PICK t \in {Sm, Cad} : \E value \in IF t = Sm THEN SmDelays ELSE {CadInterval} :
          TimerSetValue(t, value)
    BY <1>3 DEF MainSetsTimer
  <2>2. PICK value \in IF t = Sm THEN SmDelays ELSE {CadInterval} : TimerSetValue(t, value)
    BY <2>1
  <2>3. t \in Timers /\ value \in Nat
    <3>1. CASE t = Sm BY <3>1, <2>2, Values
    <3>2. CASE t # Sm BY <3>2, <2>2, Values
    <3> QED BY <3>1, <3>2
  <2>4. TimerStop(t) /\ reload' = [reload EXCEPT ![t] = value] BY <2>2 DEF TimerSetValue
  <2>5. reload' \in [Timers -> Nat] BY <2>3, <2>4, <1>1
  <2> QED BY <2>3, <2>4, <2>5, <1>1, Stopped
<1>4. CASE MainStartsRadio
  <2>1. TimerStop(Radio) /\ reload' = [reload EXCEPT ![Radio] = RadioTimeout]
    BY <1>4 DEF MainStartsRadio, TimerSetValue
  <2>2. reload' \in [Timers -> Nat] BY <2>1, <1>1, Values
  <2> QED BY <2>1, <2>2, <1>1, Values, Stopped
<1>5. CASE MainStarts
  <2>1. TimerStart(main.timer) /\ reload' = reload /\ main # NotCalling
    BY <1>5 DEF MainStarts
  <2>2. main.timer \in Timers BY <2>1, <1>1, Values DEF Calls
  <2> QED BY <2>1, <2>2, <1>1, Started
<1>6. CASE MainStartsCad BY <1>6, QuietKeeps
<1>7. CASE MainStopsTimer
  <2>1. PICK t \in {Sm, Cad} : TimerStop(t) BY <1>7 DEF MainStopsTimer
  <2>2. reload' = reload BY <1>7 DEF MainStopsTimer
  <2>3. t \in Timers /\ reload' \in [Timers -> Nat] BY <2>2, <1>1, Values
  <2> QED BY <2>1, <2>3, <1>1, Stopped
<1>8. CASE DioEnds \/ DioCadDone
  <2>1. reload' = reload BY <1>8 DEF DioEnds, DioCadDone
  <2>2. reload' \in [Timers -> Nat] BY <2>1, <1>1
  <2>3. CASE TimerStop(Radio) BY <2>2, <2>3, <1>1, Values, Stopped
  <2>4. CASE UNCHANGED <<listVars, left>>
    <3>1. left' \in [Timers -> {Unset} \cup Nat] /\ \A t \in Timers : left'[t] <= left[t]
      BY <2>4, <1>1, LeftSame DEF Listing
    <3> QED BY <3>1, <2>2, <2>4, <1>1, Untouched
  <2> QED BY <1>8, <2>3, <2>4 DEF DioEnds, DioCadDone, ReportEnd
<1>9. CASE Time BY <1>9, TickKeeps DEF Time
<1> QED BY <1>2, <1>3, <1>4, <1>5, <1>6, <1>7, <1>8, <1>9 DEF Next, Main

LEMMA Latency == 0 \in 0 .. MaxLatency
BY TimerAssumption

LEMMA NextTyped ==
  ASSUME Typed, Ending, Alarmed, Next
  PROVE  Typed'
<1>1. Listing' BY NextListing
<1>2. pending \in BOOLEAN /\ late \in 0 .. MaxLatency /\ handler \in Handlers
      /\ main \in Calls /\ state \in Operations /\ chip \in Operations
      /\ ends \in 0 .. 2 /\ raced \in BOOLEAN /\ past \subseteq {"clash"}
      /\ elapsed \in 0 .. MaxElapsed
  BY DEF Typed, Listing
<1>3. pending' \in BOOLEAN /\ late' \in 0 .. MaxLatency
  <2>1. CASE HandlerSteps
    <3>1. pending' \in BOOLEAN
      BY <2>1, <1>2 DEF HandlerSteps, Enter, Apply, ApplyToNothing, Take, Advance, Finish,
         SmExpires, CadExpires, CadSetsValue, CadRestarts, RadioExpires, TxGivesUp,
         RadioTimesOut, timerVars
    <3>2. late' = 0 \/ late' = late
      BY <2>1 DEF HandlerSteps, Enter, Apply, ApplyToNothing, Take, Advance, Finish,
         SmExpires, CadExpires, CadSetsValue, CadRestarts, RadioExpires, TxGivesUp,
         RadioTimesOut, timerVars
    <3> QED BY <3>1, <3>2, <1>2, Latency
  <2>2. CASE Main \/ DioEnds \/ DioCadDone
    <3>1. pending' = pending /\ late' = late
      BY <2>2 DEF Main, MainSetsTimer, MainStartsRadio, MainStarts, MainStartsCad,
         MainStopsTimer, DioEnds, DioCadDone, timerVars
    <3> QED BY <3>1, <1>2
  <2>3. CASE Time
    <3>1. pending' = (pending \/ alarm = 1)
          /\ (pending \/ ~At("outside") => late < MaxLatency)
          /\ late' = IF pending \/ ~At("outside") THEN late + 1 ELSE 0
      BY <2>3 DEF Time, Tick
    <3>2. late' \in 0 .. MaxLatency BY <3>1, <1>2, TimerAssumption
    <3> QED BY <3>1, <3>2
  <2> QED BY <2>1, <2>2, <2>3 DEF Next
<1>4. handler' \in Handlers
  <2>1. CASE HandlerSteps
    <3>1. CASE Enter BY <3>1, <1>2 DEF Enter, Handlers
    <3>2. CASE Apply BY <3>2 DEF Apply, Handlers
    <3>3. CASE ApplyToNothing BY <3>3 DEF ApplyToNothing, Handlers
    <3>4. CASE Take
      <4>1. Listing /\ list # <<>> BY <3>4 DEF Take, Due, Typed
      <4>2. TimerListHead \in Timers BY <4>1, AggregatedNow
      <4> QED BY <4>2, <3>4 DEF Take, Handlers
    <3>5. CASE Advance BY <3>5, <1>2, HandlerHolds DEF Advance, Handlers
    <3>6. CASE Finish BY <3>6 DEF Finish, Handlers, Outside
    <3>7. CASE SmExpires BY <3>7 DEF SmExpires, Handlers
    <3>8. CASE CadExpires BY <3>8 DEF CadExpires, Handlers
    <3>9. CASE CadSetsValue BY <3>9 DEF CadSetsValue, Handlers
    <3>10. CASE CadRestarts BY <3>10 DEF CadRestarts, Handlers
    <3>11. CASE RadioExpires BY <3>11 DEF RadioExpires, Handlers
    <3>12. CASE RadioTimesOut BY <3>12 DEF RadioTimesOut, Handlers
    <3>13. CASE TxGivesUp BY <3>13, <1>2 DEF TxGivesUp, timerVars
    <3> QED BY <2>1, <3>1, <3>2, <3>3, <3>4, <3>5, <3>6, <3>7, <3>8, <3>9, <3>10, <3>11,
               <3>12, <3>13 DEF HandlerSteps
  <2>2. CASE Main \/ DioEnds \/ DioCadDone \/ Time
    <3>1. handler' = handler
      BY <2>2 DEF Main, MainSetsTimer, MainStartsRadio, MainStarts, MainStartsCad,
         MainStopsTimer, DioEnds, DioCadDone, timerVars, Time, Tick
    <3> QED BY <3>1, <1>2
  <2> QED BY <2>1, <2>2 DEF Next
<1>5. main' \in Calls
  <2>1. CASE MainSetsTimer BY <2>1 DEF MainSetsTimer, Calls
  <2>2. CASE MainStartsRadio BY <2>2 DEF MainStartsRadio, Calls
  <2>3. CASE MainStarts BY <2>3 DEF MainStarts, Calls
  <2>4. CASE HandlerSteps \/ MainStartsCad \/ MainStopsTimer \/ DioEnds \/ DioCadDone \/ Time
    <3>1. main' = main
      BY <2>4 DEF HandlerSteps, SmExpires, CadExpires, CadSetsValue, CadRestarts,
         RadioExpires, TxGivesUp, RadioTimesOut, Driver, MainStartsCad, MainStopsTimer, DioEnds,
         DioCadDone, Time
    <3> QED BY <3>1, <1>2
  <2> QED BY <2>1, <2>2, <2>3, <2>4 DEF Next, Main
<1>6. past' \subseteq {"clash"}
  <2>1. past' = past \/ past' = past \cup Preempting
    BY DEF Next, HandlerSteps, SmExpires, CadExpires, CadSetsValue, CadRestarts,
       RadioExpires, TxGivesUp, RadioTimesOut, Driver, Main, MainSetsTimer, MainStartsRadio,
       MainStarts, MainStartsCad, MainStopsTimer, DioEnds, DioCadDone, Time
  <2>2. Preempting \subseteq {"clash"} BY DEF Preempting
  <2> QED BY <2>1, <2>2, <1>2
<1>7. state' \in Operations /\ chip' \in Operations /\ ends' \in 0 .. 2
  <2>1. CASE MainStartsRadio \/ MainSetsTimer \/ MainStopsTimer \/ Time
    <3>1. state' = state /\ chip' = chip /\ ends' = ends
      BY <2>1 DEF MainStartsRadio, MainSetsTimer, MainStopsTimer, Time, Driver
    <3> QED BY <3>1, <1>2
  <2>2. CASE MainStarts
    <3>1. main # NotCalling BY <2>2 DEF MainStarts
    <3>2. main.timer = Radio => main.op \in {"rx", "tx"}
      BY <3>1, <1>2, Sx1272Assumption DEF Calls
    <3> QED BY <3>2, <2>2, <1>2 DEF MainStarts, Operations
  <2>3. CASE MainStartsCad BY <2>3 DEF MainStartsCad, Operations
  <2>4. CASE RadioTimesOut
    <3>1. ends <= 1 /\ ends \in 0 .. 2 BY <2>4, <1>2 DEF RadioTimesOut, Ending
    <3> QED BY <3>1, <2>4 DEF RadioTimesOut, ReportEnd, Operations
  <2>5. CASE DioEnds
    <3>1. CASE state = chip
      <4>1. ends = 0 BY <2>5, <3>1 DEF DioEnds, Ending
      <4> QED BY <4>1, <2>5, <3>1 DEF DioEnds, ReportEnd, Operations
    <3>2. CASE state # chip
      <4>1. state' = state /\ chip' = "idle" /\ ends' = ends BY <2>5, <3>2 DEF DioEnds
      <4> QED BY <4>1, <1>2 DEF Operations
    <3> QED BY <3>1, <3>2
  <2>6. CASE DioCadDone
    <3>1. ends = 0
      <4>1. chip = "cad" BY <2>6 DEF DioCadDone
      <4>2. ~At("timeout") BY <4>1 DEF Ending
      <4> QED BY <4>1, <4>2 DEF Ending
    <3> QED BY <3>1, <2>6 DEF DioCadDone, ReportEnd, Operations
  <2>7. CASE TxGivesUp
    <3>1. chip' = chip /\ ends' = ends /\ state' = "idle" BY <2>7 DEF TxGivesUp
    <3> QED BY <3>1, <1>2 DEF Operations
  <2>8. CASE HandlerSteps /\ ~TxGivesUp /\ ~RadioTimesOut
    <3>1. UNCHANGED Driver
      BY <2>8 DEF HandlerSteps, SmExpires, CadExpires, CadSetsValue, CadRestarts, RadioExpires
    <3> QED BY <3>1, <1>2 DEF Driver
  <2> QED BY <2>1, <2>2, <2>3, <2>4, <2>5, <2>6, <2>7, <2>8 DEF Next, Main
<1>8. raced' \in BOOLEAN
  <2>1. raced' = raced \/ raced' = FALSE \/ raced' = At("timeout")
    BY DEF Next, HandlerSteps, SmExpires, CadExpires, CadSetsValue, CadRestarts,
       RadioExpires, TxGivesUp, RadioTimesOut, Driver, Main, MainSetsTimer, MainStartsRadio,
       MainStarts, MainStartsCad, MainStopsTimer, DioEnds, DioCadDone, Time
  <2>2. At("timeout") \in BOOLEAN BY DEF At
  <2> QED BY <2>1, <2>2, <1>2
<1> QED BY <1>1, <1>3, <1>4, <1>5, <1>6, <1>7, <1>8 DEF Typed

(* What TimerIrqHandler was preempted at stays in past.                    *)
LEMMA PastStays ==
  ASSUME Next, Undisturbed'
  PROVE  Undisturbed
<1>1. past \subseteq past'
  BY DEF Next, HandlerSteps, SmExpires, CadExpires, CadSetsValue, CadRestarts,
     RadioExpires, TxGivesUp, RadioTimesOut, Driver, Main, MainSetsTimer, MainStartsRadio,
     MainStarts, MainStartsCad, MainStopsTimer, DioEnds, DioCadDone, Time
<1> QED BY <1>1 DEF Undisturbed

LEMMA AdvanceAt ==
  ASSUME Typed, Advance
  PROVE  /\ At("taken")
         /\ list # <<>> => handler' = [at |-> "call", timer |-> handler.timer]
         /\ list = <<>> => handler' = [at |-> "fault"]
         /\ ~At("outside")' /\ ~At("read")' /\ ~At("timeout")' /\ ~At("taken")'
<1>1. At("taken") /\ handler \in Handlers BY DEF Advance, Typed
<1>2. /\ list # <<>> => handler' = [at |-> "call", timer |-> handler.timer]
      /\ list = <<>> => handler' = [at |-> "fault"]
  BY <1>1, HandlerHolds DEF Advance
<1>3. handler'.at \in {"call", "fault"} BY <1>2
<1> QED BY <1>1, <1>2, <1>3 DEF At

(* The operations of the radio through every step.                         *)
LEMMA NextEnding ==
  ASSUME Typed, Ending, Next
  PROVE  Ending'
<1>1. /\ handler \in Handlers /\ main \in Calls /\ ends \in 0 .. 2
      /\ state \in Operations /\ chip \in Operations /\ raced \in BOOLEAN
  BY DEF Typed
<1>2. CASE HandlerSteps /\ ~RadioExpires /\ ~TxGivesUp /\ ~RadioTimesOut
  <2>1. state' = state /\ chip' = chip /\ main' = main /\ ends' = ends /\ raced' = raced
    BY <1>2 DEF HandlerSteps, SmExpires, CadExpires, CadSetsValue, CadRestarts, Driver
  <2>2. ~At("timeout") /\ ~At("timeout")'
    <3>1. CASE Advance BY <3>1, AdvanceAt DEF At
    <3>2. CASE ~Advance
      BY <1>2, <3>2 DEF HandlerSteps, Enter, Apply, ApplyToNothing, Take, Finish, Outside,
         SmExpires, CadExpires, Called, CadSetsValue, CadRestarts, At
    <3> QED BY <3>1, <3>2
  <2> QED BY <2>1, <2>2 DEF Ending
<1>3. CASE RadioExpires
  <2>1. /\ chip' = chip /\ main' = main /\ ends' = ends /\ raced' = raced
        /\ state' = state /\ ~At("timeout")
    BY <1>3 DEF RadioExpires, Called, At, Driver
  <2>2. At("timeout")' <=> state \in {"rx", "tx"} BY <1>3 DEF RadioExpires, At
  <2> QED BY <2>1, <2>2 DEF Ending
<1>4. CASE TxGivesUp
  <2>1. /\ chip' = chip /\ main' = main /\ ends' = ends /\ raced' = raced
        /\ state' = "idle" /\ state = "tx" /\ At("timeout") /\ handler' = handler
    BY <1>4 DEF TxGivesUp, timerVars
  <2> QED BY <2>1 DEF Ending, At
<1>5. CASE RadioTimesOut
  <2>1. /\ state' = "idle" /\ chip' = "idle" /\ main' = main /\ ends' = ends + 1
        /\ raced' = raced /\ At("timeout") /\ ~At("timeout")'
    BY <1>5 DEF RadioTimesOut, ReportEnd, At
  <2>2. ends <= 1 /\ (~raced => ends = 0) BY <2>1 DEF Ending
  <2> QED BY <2>1, <2>2 DEF Ending
<1>6. CASE MainSetsTimer \/ MainStopsTimer
  <2>1. /\ state' = state /\ chip' = chip /\ ends' = ends /\ raced' = raced
        /\ handler' = handler /\ ~At("timeout")
    BY <1>6 DEF MainSetsTimer, MainStopsTimer, InMain, At
  <2>2. main'.timer = Radio => state = "idle"
    <3>1. CASE MainSetsTimer
      <4>1. main'.timer \in {Sm, Cad} BY <3>1 DEF MainSetsTimer
      <4> QED BY <4>1, Sx1272Assumption
    <3>2. CASE MainStopsTimer
      <4>1. main' = main BY <3>2 DEF MainStopsTimer
      <4> QED BY <4>1 DEF Ending
    <3> QED BY <1>6, <3>1, <3>2
  <2> QED BY <2>1, <2>2 DEF Ending, At
<1>7. CASE MainStartsRadio
  <2>1. /\ state' = state /\ chip' = chip /\ ends' = ends /\ raced' = raced
        /\ handler' = handler /\ ~At("timeout") /\ state = "idle"
    BY <1>7 DEF MainStartsRadio, InMain, At
  <2> QED BY <2>1 DEF Ending, At
<1>8. CASE MainStarts
  <2>1. handler' = handler /\ ~At("timeout") /\ main' = NotCalling
        /\ main # NotCalling
    BY <1>8 DEF MainStarts, At
  <2>2. main'.timer # Radio BY <2>1, Sx1272Assumption DEF NotCalling
  <2>3. CASE main.timer = Radio
    <3>1. main.op \in {"rx", "tx"} BY <2>1, <2>3, <1>1, Sx1272Assumption DEF Calls
    <3>2. state' = main.op /\ chip' = main.op /\ ends' = 0 /\ raced' = FALSE
      BY <1>8, <2>3 DEF MainStarts
    <3> QED BY <2>1, <2>2, <3>1, <3>2 DEF Ending, At
  <2>4. CASE main.timer # Radio
    <3>1. state' = state /\ chip' = chip /\ ends' = ends /\ raced' = raced
      BY <1>8, <2>4 DEF MainStarts
    <3> QED BY <2>1, <2>2, <3>1 DEF Ending, At
  <2> QED BY <2>3, <2>4
<1>9. CASE MainStartsCad
  <2>1. /\ state' = "cad" /\ chip' = "cad" /\ ends' = 0 /\ raced' = FALSE
        /\ main' = NotCalling
        /\ handler' = handler /\ ~At("timeout")
    BY <1>9 DEF MainStartsCad, InMain, timerVars, At
  <2>2. main'.timer # Radio BY <2>1, Sx1272Assumption DEF NotCalling
  <2> QED BY <2>1, <2>2 DEF Ending, At
<1>10. CASE DioEnds
  <2>1. handler' = handler /\ main' = main /\ chip \in {"rx", "tx"} /\ chip' = "idle"
    BY <1>10 DEF DioEnds, ReportEnd
  <2>2. CASE state = chip
    <3>1. state' = "idle" /\ ends' = ends + 1 /\ (raced' <=> At("timeout"))
      BY <1>10, <2>2 DEF DioEnds, ReportEnd
    <3>2. ends = 0 BY <2>1, <2>2 DEF Ending
    <3> QED BY <2>1, <3>1, <3>2 DEF Ending, At
  <2>3. CASE state # chip
    <3>1. state' = state /\ ends' = ends /\ raced' = raced BY <1>10, <2>3 DEF DioEnds
    <3>2. state = "idle" BY <2>1, <2>3 DEF Ending
    <3> QED BY <2>1, <3>1, <3>2 DEF Ending, At
  <2> QED BY <2>2, <2>3
<1>11. CASE DioCadDone
  <2>1. /\ handler' = handler /\ main' = main /\ chip = "cad" /\ chip' = "idle"
        /\ state' = "idle" /\ ends' = ends + 1 /\ raced' = raced
    BY <1>11 DEF DioCadDone, ReportEnd
  <2>2. ~At("timeout") /\ ends = 0
    <3>1. ~At("timeout") BY <2>1 DEF Ending
    <3> QED BY <2>1, <3>1 DEF Ending
  <2> QED BY <2>1, <2>2 DEF Ending, At
<1>12. CASE Time
  <2>1. handler' = handler /\ UNCHANGED Driver BY <1>12 DEF Time, Tick
  <2> QED BY <2>1 DEF Ending, Driver, At
<1> QED BY <1>2, <1>3, <1>4, <1>5, <1>6, <1>7, <1>8, <1>9, <1>10, <1>11, <1>12 DEF Next, Main

-----------------------------------------------------------------------------
(***************************************************************************)
(* The alarm.                                                              *)
(***************************************************************************)
(* A timer is stopped at any step of the handler.                          *)
LEMMA StopKeepsAlarm ==
  ASSUME Typed, Alarmed, NEW t \in Timers, TimerStop(t), reload' \in [Timers -> Nat],
         pending' = pending, At("outside")' => At("outside"), At("read")' <=> At("read")
  PROVE  Alarmed'
<1>1. Listing BY DEF Typed
<1>2. /\ running' => running /\ (alarm' > 0 \/ alarm' = alarm)
      /\ running /\ list' # <<>> => running'
      /\ list' = <<>> => ~running'
      /\ list = <<>> => list' = <<>>
  BY <1>1, Stopped DEF Alarmed
<1>3. (At("outside") \/ At("read"))' /\ list' # <<>> => running' BY <1>2 DEF Alarmed
<1>4. running' /\ ~At("read")' => alarm' > 0 \/ pending' BY <1>2 DEF Alarmed
<1> QED BY <1>2, <1>3, <1>4 DEF Alarmed

(* A timer is started by the main loop and by cadTimeoutCB.                *)
LEMMA StartKeepsAlarm ==
  ASSUME Typed, Alarmed, NEW t \in Timers, TimerStart(t), reload' = reload,
         pending' = pending, ~At("read"), ~At("read")',
         At("outside")' => At("outside")
  PROVE  Alarmed'
<1>1. Listing BY DEF Typed
<1>2. /\ list' # <<>>
      /\ running' => running \/ alarm' > 0
      /\ alarm' > 0 \/ alarm' = alarm
      /\ running \/ list = <<>> => running'
  BY <1>1, Started
<1>3. At("outside")' => running' BY <1>2 DEF Alarmed
<1>4. running' => alarm' > 0 \/ pending' BY <1>2 DEF Alarmed
<1> QED BY <1>2, <1>3, <1>4 DEF Alarmed

LEMMA NextAlarmed ==
  ASSUME Typed, Alarmed, Next
  PROVE  Alarmed'
<1>1. Listing /\ reload \in [Timers -> Nat] /\ main \in Calls /\ alarm \in Nat
  BY DEF Typed, Listing
<1>2. CASE HandlerSteps
  <2>1. CASE Enter
    <3>1. list' = list /\ running' = running /\ At("outside") /\ At("read")'
      BY <2>1 DEF Enter, At
    <3> QED BY <3>1 DEF Alarmed
  <2>2. CASE Apply
    <3>1. ~running' /\ At("loop")' BY <2>2 DEF Apply, At
    <3> QED BY <3>1 DEF Alarmed, At
  <2>3. CASE ApplyToNothing
    <3>1. /\ list = <<>> /\ list' = list /\ (running' <=> running)
          /\ ~At("outside")' /\ ~At("read")'
      BY <2>3 DEF ApplyToNothing, At, listVars
    <3> QED BY <3>1 DEF Alarmed
  <2>4. CASE Take
    <3>1. /\ list' = list /\ (running' <=> running) /\ alarm' = alarm /\ pending' = pending
          /\ At("loop") /\ At("taken")'
      BY <2>4 DEF Take, At, listVars
    <3> QED BY <3>1 DEF Alarmed, At
  <2>5. CASE Advance
    <3>1. ~running' /\ ~At("outside")' /\ ~At("read")' BY <2>5, AdvanceAt DEF Advance
    <3> QED BY <3>1 DEF Alarmed
  <2>6. CASE Finish
    <3>1. At("outside")' /\ At("loop") /\ pending' = pending BY <2>6 DEF Finish, Outside, At
    <3>2. /\ list' = list
          /\ running' => running \/ alarm' > 0
          /\ running => running' /\ alarm' = alarm
          /\ list # <<>> => running'
          /\ list = <<>> => (running' <=> running)
      BY <2>6, FinishKeeps
    <3>3. list' = <<>> => ~running' BY <3>2 DEF Alarmed
    <3>4. running' => alarm' > 0 \/ pending'
      <4>1. running => alarm > 0 \/ pending BY <3>1 DEF Alarmed, At
      <4> QED BY <3>1, <3>2, <4>1
    <3> QED BY <3>2, <3>3, <3>4 DEF Alarmed
  <2>7. CASE Calling
    <3>1. /\ pending' = pending /\ At("call") /\ ~At("outside")' /\ ~At("read")'
      BY <2>7 DEF Calling, SmExpires, CadExpires, RadioExpires, Called, At
    <3>2. list' = list /\ (running' <=> running) /\ alarm' = alarm BY <2>7, QuietKeeps
    <3>3. ~At("read") BY <3>1 DEF At
    <3> QED BY <3>1, <3>2, <3>3 DEF Alarmed
  <2>8. CASE CadSetsValue
    <3>1. TimerStop(Cad) /\ reload' = [reload EXCEPT ![Cad] = CadInterval]
      BY <2>8 DEF CadSetsValue, TimerSetValue
    <3>2. reload' \in [Timers -> Nat] BY <3>1, <1>1, Values
    <3>3. pending' = pending /\ ~At("outside")' /\ ~At("read")' /\ ~At("read")
      BY <2>8 DEF CadSetsValue, At
    <3> QED BY <3>1, <3>2, <3>3, Values, StopKeepsAlarm
  <2>9. CASE CadRestarts
    <3>1. TimerStart(Cad) /\ reload' = reload BY <2>9 DEF CadRestarts
    <3>2. pending' = pending /\ ~At("outside")' /\ ~At("read")' /\ ~At("read")
      BY <2>9 DEF CadRestarts, At
    <3> QED BY <3>1, <3>2, Values, StartKeepsAlarm
  <2>10. CASE RadioTimesOut
    <3>1. TimerStop(Radio) /\ reload' = reload BY <2>10 DEF RadioTimesOut, ReportEnd
    <3>2. pending' = pending /\ ~At("outside")' /\ ~At("read")' /\ ~At("read")
      BY <2>10 DEF RadioTimesOut, At
    <3>3. reload' \in [Timers -> Nat] BY <3>1, <1>1
    <3> QED BY <3>1, <3>2, <3>3, Values, StopKeepsAlarm
  <2>11. CASE TxGivesUp
    <3>1. /\ pending' = pending /\ handler' = handler /\ list' = list /\ alarm' = alarm
          /\ (running' <=> running)
      BY <2>11 DEF TxGivesUp, timerVars, listVars
    <3> QED BY <3>1 DEF Alarmed, At
  <2> QED BY <1>2, <2>1, <2>2, <2>3, <2>4, <2>5, <2>6, <2>7, <2>8, <2>9, <2>10, <2>11
          DEF HandlerSteps, Calling
<1>3. CASE MainSetsTimer
  <2>1. PICK t \in {Sm, Cad} : \E value \in IF t = Sm THEN SmDelays ELSE {CadInterval} :
          TimerSetValue(t, value)
    BY <1>3 DEF MainSetsTimer
  <2>2. PICK value \in IF t = Sm THEN SmDelays ELSE {CadInterval} : TimerSetValue(t, value)
    BY <2>1
  <2>3. t \in Timers /\ value \in Nat
    <3>1. CASE t = Sm BY <3>1, <2>2, Values
    <3>2. CASE t # Sm BY <3>2, <2>2, Values
    <3> QED BY <3>1, <3>2
  <2>4. TimerStop(t) /\ reload' = [reload EXCEPT ![t] = value] BY <2>2 DEF TimerSetValue
  <2>5. reload' \in [Timers -> Nat] BY <2>3, <2>4, <1>1
  <2>6. pending' = pending /\ handler' = handler BY <1>3 DEF MainSetsTimer
  <2> QED BY <2>3, <2>4, <2>5, <2>6, StopKeepsAlarm DEF At
<1>4. CASE MainStartsRadio
  <2>1. TimerStop(Radio) /\ reload' = [reload EXCEPT ![Radio] = RadioTimeout]
    BY <1>4 DEF MainStartsRadio, TimerSetValue
  <2>2. reload' \in [Timers -> Nat] BY <2>1, <1>1, Values
  <2>3. pending' = pending /\ handler' = handler BY <1>4 DEF MainStartsRadio
  <2> QED BY <2>1, <2>2, <2>3, Values, StopKeepsAlarm DEF At
<1>5. CASE MainStarts
  <2>1. TimerStart(main.timer) /\ reload' = reload /\ main # NotCalling
        /\ pending' = pending /\ handler' = handler /\ At("outside")
    BY <1>5 DEF MainStarts
  <2>2. main.timer \in Timers BY <2>1, <1>1, Values DEF Calls
  <2>3. ~At("read") /\ ~At("read")' BY <2>1 DEF At
  <2> QED BY <2>1, <2>2, <2>3, StartKeepsAlarm
<1>6. CASE MainStartsCad
  <2>1. /\ list' = list /\ (running' <=> running) /\ alarm' = alarm
        /\ pending' = pending /\ handler' = handler
    BY <1>6 DEF MainStartsCad, timerVars
  <2> QED BY <2>1 DEF Alarmed, At
<1>7. CASE MainStopsTimer
  <2>1. PICK t \in {Sm, Cad} : TimerStop(t) BY <1>7 DEF MainStopsTimer
  <2>2. reload' = reload /\ pending' = pending /\ handler' = handler
    BY <1>7 DEF MainStopsTimer
  <2>3. t \in Timers /\ reload' \in [Timers -> Nat] BY <2>2, <1>1, Values
  <2> QED BY <2>1, <2>2, <2>3, StopKeepsAlarm DEF At
<1>8. CASE DioEnds \/ DioCadDone
  <2>1. reload' = reload /\ pending' = pending /\ handler' = handler
    BY <1>8 DEF DioEnds, DioCadDone
  <2>2. reload' \in [Timers -> Nat] BY <2>1, <1>1
  <2>3. CASE TimerStop(Radio) BY <2>1, <2>2, <2>3, Values, StopKeepsAlarm DEF At
  <2>4. CASE UNCHANGED <<listVars, left>>
    <3>1. list' = list /\ (running' <=> running) /\ alarm' = alarm BY <2>4 DEF listVars
    <3> QED BY <2>1, <3>1 DEF Alarmed, At
  <2> QED BY <1>8, <2>3, <2>4 DEF DioEnds, DioCadDone, ReportEnd
<1>9. CASE Time
  <2>1. /\ list' = list /\ (running' <=> running) /\ handler' = handler
        /\ alarm' = (IF alarm > 0 THEN alarm - 1 ELSE 0)
        /\ pending' = (pending \/ alarm = 1)
    BY <1>9 DEF Time, Tick
  <2>2. alarm > 0 \/ pending => alarm' > 0 \/ pending'
    <3>1. CASE pending BY <2>1, <3>1
    <3>2. CASE ~pending
      <4>1. CASE alarm = 1 BY <4>1, <2>1
      <4>2. CASE alarm # 1 BY <4>2, <3>2, <2>1, <1>1
      <4> QED BY <4>1, <4>2
    <3> QED BY <3>1, <3>2
  <2> QED BY <2>1, <2>2 DEF Alarmed, At
<1> QED BY <1>2, <1>3, <1>4, <1>5, <1>6, <1>7, <1>8, <1>9 DEF Next, Main

-----------------------------------------------------------------------------
(***************************************************************************)
(* Who is waited for, and since when.                                      *)
(***************************************************************************)
(* A timer that the handler does not hold is stopped.                      *)
LEMMA StopKeepsWaiting ==
  ASSUME Typed, Waiting, InTime, NEW t \in Timers, TimerStop(t),
         reload' \in [Timers -> Nat], handler' = handler, ~Handles(t)
  PROVE  Waiting' /\ InTime'
<1>1. Listing /\ left \in [Timers -> {Unset} \cup Nat] BY DEF Typed, Listing
<1>2. /\ \A u \in Timers : Listed(u)' <=> Listed(u) /\ u # t
      /\ left' = [left EXCEPT ![t] = Unset]
      /\ list # <<>> /\ TimerListHead # t =>
           /\ list' # <<>> /\ TimerListHead' = TimerListHead
           /\ ts'[TimerListHead] = ts[TimerListHead] /\ elapsed' = elapsed
      /\ list = <<>> => list' = <<>> /\ elapsed' = elapsed
      /\ Timely => Timely'
  BY <1>1, Stopped
<1>3. \A u \in Timers : left'[u] = IF u = t THEN Unset ELSE left[u] BY <1>1, <1>2
<1>4. At("taken") => list' # <<>> /\ TimerListHead' = handler.timer /\ ts'[handler.timer] = 0
  BY <1>2 DEF Waiting, Handles
<1>5. At("call") => /\ handler.timer \in Timers /\ handler.timer # t
                    /\ ~Listed(handler.timer) /\ left[handler.timer] = 0
  BY HandlerHolds DEF Typed, Waiting, Handles
<1>6. At("call") => ~Listed(handler.timer)' /\ left'[handler.timer] = 0
  BY <1>2, <1>3, <1>5
<1>7. ASSUME ~At("fault"), NEW u \in Timers
      PROVE  left'[u] # Unset <=> Listed(u)' \/ (At("call") /\ handler.timer = u)
  <2>1. left[u] # Unset <=> Listed(u) \/ (At("call") /\ handler.timer = u)
    BY <1>7 DEF Waiting
  <2> QED BY <2>1, <1>2, <1>3, <1>5
<1>8. At("read") => handler.elapsed <= elapsed' BY <1>2 DEF InTime, Handles
<1>9. Listed(handler.timer)' = (\E i \in DOMAIN list' : list'[i] = handler'.timer)
  BY DEF Listed
<1>10. Waiting'
  <2>1. At("call")' => ~Listed(handler.timer)' /\ left'[handler'.timer] = 0
    BY <1>6 DEF At
  <2>2. At("taken")' =>
          list' # <<>> /\ TimerListHead' = handler'.timer /\ ts'[handler'.timer] = 0
    BY <1>4 DEF At
  <2>3. ~At("fault")' => \A u \in Timers :
          left'[u] # Unset <=> Listed(u)' \/ (At("call")' /\ handler'.timer = u)
    BY <1>7 DEF At
  <2> QED BY <2>1, <2>2, <2>3 DEF Waiting
<1>11. InTime'
  <2>1. Timely' BY <1>2 DEF InTime
  <2> QED BY <2>1, <1>8 DEF InTime, At
<1> QED BY <1>10, <1>11

(* A timer is started where the handler holds none.                        *)
LEMMA StartKeepsWaiting ==
  ASSUME Typed, Waiting, InTime, NEW t \in Timers, TimerStart(t), reload' = reload,
         At("outside") \/ At("restart"), At("outside")' \/ At("loop")'
  PROVE  Waiting' /\ InTime'
<1>1. /\ Listing /\ left \in [Timers -> {Unset} \cup Nat] /\ reload \in [Timers -> Nat]
  BY DEF Typed, Listing
<1>2. /\ \A u \in Timers : Listed(u)' <=> Listed(u) \/ u = t
      /\ Listed(t) => left' = left
      /\ ~Listed(t) => left' = [left EXCEPT ![t] = reload[t]]
      /\ Timely => Timely'
  BY <1>1, Started
<1>3. /\ ~At("call") /\ ~At("call")' /\ ~At("taken")' /\ ~At("read")'
      /\ ~At("fault") /\ ~At("fault")'
  BY DEF At
<1>4. \A u \in Timers : left[u] # Unset <=> Listed(u) BY <1>3 DEF Waiting
<1>5. ASSUME NEW u \in Timers PROVE left'[u] # Unset <=> Listed(u)'
  <2>1. reload[t] # Unset
    <3>1. reload[t] \in Nat BY <1>1
    <3> QED BY <3>1 DEF Unset
  <2>2. CASE Listed(t) BY <2>2, <1>2, <1>4
  <2>3. CASE ~Listed(t)
    <3>1. left'[u] = IF u = t THEN reload[t] ELSE left[u] BY <2>3, <1>1, <1>2
    <3> QED BY <3>1, <2>1, <2>3, <1>2, <1>4
  <2> QED BY <2>2, <2>3
<1>6. Waiting' BY <1>3, <1>5 DEF Waiting
<1>7. InTime' BY <1>2, <1>3 DEF InTime
<1> QED BY <1>6, <1>7

(* A timer that is called is waited for no more.                           *)
LEMMA CallKeepsWaiting ==
  ASSUME Typed, Waiting, InTime, NEW t \in Timers, Called(t), Calling,
         ~At("call")', ~At("taken")', ~At("read")'
  PROVE  Waiting' /\ InTime'
<1>1. left \in [Timers -> {Unset} \cup Nat] /\ handler \in Handlers BY DEF Typed, Listing
<1>2. At("call") /\ handler.timer = t /\ left' = [left EXCEPT ![t] = Unset]
  BY DEF Called
<1>3. (Timely => Timely') /\ \A u \in Timers : Listed(u)' <=> Listed(u)
  BY QuietKeeps
<1>4. ~At("fault") BY <1>2 DEF At
<1>5. ASSUME NEW u \in Timers PROVE left'[u] # Unset <=> Listed(u)'
  <2>1. left'[u] = IF u = t THEN Unset ELSE left[u] BY <1>1, <1>2
  <2>2. left[u] # Unset <=> Listed(u) \/ u = t BY <1>2, <1>4 DEF Waiting
  <2>3. ~Listed(t) BY <1>2 DEF Waiting
  <2> QED BY <2>1, <2>2, <2>3, <1>3
<1>6. Waiting' BY <1>5 DEF Waiting
<1>7. InTime' BY <1>3 DEF InTime
<1> QED BY <1>6, <1>7

LEMMA NextHandled ==
  ASSUME Typed, Ending, Alarmed, Handled, Next
  PROVE  Handled'
<1>1. SUFFICES ASSUME Undisturbed' PROVE Waiting' /\ InTime'
  BY DEF Handled
<1>2. Waiting /\ InTime BY <1>1, PastStays DEF Handled
<1>3. /\ Listing /\ reload \in [Timers -> Nat] /\ main \in Calls /\ handler \in Handlers
      /\ left \in [Timers -> {Unset} \cup Nat] /\ ts \in [Timers -> Nat]
  BY DEF Typed, Listing
<1>4. CASE HandlerSteps
  <2>1. CASE Enter
    <3>1. /\ list' = list /\ left' = left /\ At("outside")
          /\ handler' = [at |-> "read", elapsed |-> elapsed] /\ elapsed' = elapsed
      BY <2>1 DEF Enter
    <3>2. Timely' BY <2>1, <1>2, EnterKeeps DEF InTime
    <3>3. elapsed \in Int BY <1>3 DEF Listing
    <3>4. InTime' BY <3>1, <3>2, <3>3 DEF InTime, At
    <3>5. \A u \in Timers : Listed(u)' <=> Listed(u) BY <3>1 DEF Listed
    <3>6. Waiting' BY <3>1, <3>5, <1>2 DEF Waiting, At
    <3> QED BY <3>4, <3>6
  <2>2. CASE Apply
    <3>1. list' = list /\ left' = left /\ At("read") /\ handler' = [at |-> "loop"]
      BY <2>2 DEF Apply
    <3>2. Timely' BY <2>2, <1>2, ApplyKeeps
    <3>3. InTime' BY <3>1, <3>2 DEF InTime, At
    <3>4. \A u \in Timers : Listed(u)' <=> Listed(u) BY <3>1 DEF Listed
    <3>5. Waiting' BY <3>1, <3>4, <1>2 DEF Waiting, At
    <3> QED BY <3>3, <3>5
  <2>3. CASE ApplyToNothing /\ UNCHANGED Driver
    <3>1. left' = left /\ At("read") /\ handler' \in {[at |-> "loop"], [at |-> "fault"]}
      BY <2>3 DEF ApplyToNothing
    <3>2. (Timely => Timely') /\ \A u \in Timers : Listed(u)' <=> Listed(u)
      BY <2>3, QuietKeeps DEF Quiet
    <3>3. InTime' BY <3>1, <3>2, <1>2 DEF InTime, At
    <3>4. Waiting' BY <3>1, <3>2, <1>2 DEF Waiting, At
    <3> QED BY <3>3, <3>4
  <2>4. CASE Take /\ UNCHANGED Driver
    <3>1. /\ left' = left /\ At("loop") /\ list # <<>> /\ ts[TimerListHead] = 0
          /\ handler' = [at |-> "taken", timer |-> TimerListHead]
      BY <2>4 DEF Take, Due
    <3>2. /\ Timely => Timely'
          /\ \A u \in Timers : Listed(u)' <=> Listed(u)
          /\ list' = list /\ ts' = ts
      BY <2>4, QuietKeeps DEF Quiet
    <3>3. InTime' BY <3>1, <3>2, <1>2 DEF InTime, At
    <3>4. TimerListHead' = TimerListHead BY <3>2 DEF TimerListHead
    <3>5. Waiting' BY <3>1, <3>2, <3>4, <1>2 DEF Waiting, At
    <3> QED BY <3>3, <3>5
  <2>5. CASE Advance
    <3>1. /\ At("taken")
          /\ list # <<>> => handler' = [at |-> "call", timer |-> handler.timer]
      BY <2>5, AdvanceAt
    <3>2. list # <<>> /\ TimerListHead = handler.timer /\ ts[handler.timer] = 0
          /\ handler.timer \in Timers
      BY <3>1, <1>2, <1>3, HandlerHolds DEF Waiting
    <3>3. handler' = [at |-> "call", timer |-> handler.timer] /\ left' = left
      BY <2>5, <3>1, <3>2 DEF Advance
    <3>4. /\ Timely'
          /\ \A u \in Timers : Listed(u)' <=> Listed(u) /\ u # TimerListHead
      BY <2>5, <3>2, <1>2, AdvanceKeeps DEF InTime
    <3>5. InTime' BY <3>3, <3>4 DEF InTime, At
    <3>6. \A u \in Timers : left[u] # Unset <=> Listed(u)
      BY <3>1, <1>2 DEF Waiting, At
    <3> DEFINE h == handler.timer
    <3>7. Listed(h)
      <4>1. Len(list) > 0 /\ TimerListHead = list[1] /\ Len(list) \in Nat
        BY <1>3, <3>2, AggregatedNow
      <4>2. DOMAIN list = 1 .. Len(list) BY <1>3, LenProperties DEF Listing
      <4>3. 1 \in DOMAIN list BY <4>1, <4>2
      <4> QED BY <3>2, <4>1, <4>3 DEF Listed
    <3>8. left[h] = 0
      <4>1. left[h] \in Nat BY <3>2, <3>6, <3>7, <1>3
      <4>2. left[h] <= 0
        <5>1. /\ Len(list) > 0 /\ TimerListHead = list[1] /\ Len(list) \in Nat
              /\ Aggregated[1] = Remaining
          BY <1>3, <3>2, AggregatedNow
        <5>2. DOMAIN list = 1 .. Len(list) BY <1>3, LenProperties DEF Listing
        <5>3. 1 \in DOMAIN list BY <5>1, <5>2
        <5>4. left[list[1]] <= Aggregated[1] BY <5>3, <1>2 DEF InTime, Timely
        <5>5. Remaining = 0
          <6>1. elapsed \in Nat BY <1>3, TimerAssumption DEF Listing
          <6>2. Least(elapsed, 0) = 0 /\ 0 - 0 = 0 BY <6>1 DEF Least
          <6> QED BY <6>2, <3>2 DEF Remaining
        <5> QED BY <5>1, <5>4, <5>5, <3>2
      <4> HIDE DEF h
      <4> QED BY <4>1, <4>2
    <3>9. ~\E i \in DOMAIN list' : list'[i] = TimerListHead
      <4>1. TimerListHead \in Timers BY <3>2
      <4>2. \A u \in Timers : u = TimerListHead => ~\E i \in DOMAIN list' : list'[i] = u
        BY <3>4 DEF Listed
      <4> QED BY <4>1, <4>2
    <3>10. ASSUME NEW u \in Timers
           PROVE  left'[u] # Unset <=> Listed(u)' \/ (At("call")' /\ handler'.timer = u)
      BY <3>2, <3>3, <3>4, <3>6, <3>7 DEF At
    <3>11. At("call")' /\ handler'.timer = h BY <3>3 DEF At
    <3>12. ~Listed(handler.timer)'
      <4>1. handler'.timer = TimerListHead BY <3>2, <3>11
      <4> QED BY <3>9, <4>1 DEF Listed
    <3>13. left'[handler'.timer] = 0 BY <3>3, <3>8, <3>11
    <3>14. Waiting' BY <3>10, <3>11, <3>12, <3>13 DEF Waiting, At
    <3> QED BY <3>5, <3>14
  <2>6. CASE Finish
    <3>1. At("loop") /\ At("outside")' BY <2>6 DEF Finish, Outside, At
    <3>2. Timely' /\ list' = list /\ left' = left BY <2>6, <1>2, FinishKeeps DEF InTime
    <3>3. InTime' BY <3>1, <3>2 DEF InTime, At
    <3>4. \A u \in Timers : Listed(u)' <=> Listed(u) BY <3>2 DEF Listed
    <3>5. Waiting' BY <3>1, <3>2, <3>4, <1>2 DEF Waiting, At
    <3> QED BY <3>3, <3>5
  <2>7. CASE Calling
    <3>1. \E t \in Timers : Called(t)
      BY <2>7, Values DEF Calling, SmExpires, CadExpires, RadioExpires
    <3>2. ~At("call")' /\ ~At("taken")' /\ ~At("read")'
      BY <2>7 DEF Calling, SmExpires, CadExpires, RadioExpires, At
    <3> QED BY <2>7, <3>1, <3>2, <1>2, CallKeepsWaiting
  <2>8. CASE CadSetsValue
    <3>1. TimerStop(Cad) /\ reload' = [reload EXCEPT ![Cad] = CadInterval]
      BY <2>8 DEF CadSetsValue, TimerSetValue
    <3>2. reload' \in [Timers -> Nat] BY <3>1, <1>3, Values
    <3>3. At("rearm") /\ At("restart")' BY <2>8 DEF CadSetsValue, At
    <3>4. /\ \A u \in Timers : Listed(u)' <=> Listed(u) /\ u # Cad
          /\ left' = [left EXCEPT ![Cad] = Unset]
          /\ Timely => Timely'
      BY <3>1, <3>2, <1>3, Values, Stopped
    <3>5. InTime' BY <3>3, <3>4, <1>2 DEF InTime, At
    <3>6. ASSUME NEW u \in Timers PROVE left'[u] # Unset <=> Listed(u)'
      <4>1. left'[u] = IF u = Cad THEN Unset ELSE left[u] BY <3>4, <1>3
      <4>2. left[u] # Unset <=> Listed(u) BY <3>3, <1>2 DEF Waiting, At
      <4> QED BY <4>1, <4>2, <3>4
    <3>7. Waiting' BY <3>3, <3>6 DEF Waiting, At
    <3> QED BY <3>5, <3>7
  <2>9. CASE CadRestarts
    <3>1. TimerStart(Cad) /\ reload' = reload /\ At("restart") /\ At("loop")'
      BY <2>9 DEF CadRestarts, At
    <3> QED BY <3>1, <1>2, Values, StartKeepsWaiting
  <2>10. CASE RadioTimesOut
    <3>1. TimerStop(Radio) /\ reload' = reload BY <2>10 DEF RadioTimesOut, ReportEnd
    <3>2. reload' \in [Timers -> Nat] BY <3>1, <1>3
    <3>3. At("timeout") /\ At("loop")' BY <2>10 DEF RadioTimesOut, At
    <3>4. /\ \A u \in Timers : Listed(u)' <=> Listed(u) /\ u # Radio
          /\ left' = [left EXCEPT ![Radio] = Unset]
          /\ Timely => Timely'
      BY <3>1, <3>2, <1>3, Values, Stopped
    <3>5. InTime' BY <3>3, <3>4, <1>2 DEF InTime, At
    <3>6. ASSUME NEW u \in Timers PROVE left'[u] # Unset <=> Listed(u)'
      <4>1. left'[u] = IF u = Radio THEN Unset ELSE left[u] BY <3>4, <1>3
      <4>2. left[u] # Unset <=> Listed(u) BY <3>3, <1>2 DEF Waiting, At
      <4> QED BY <4>1, <4>2, <3>4
    <3>7. Waiting' BY <3>3, <3>6 DEF Waiting, At
    <3> QED BY <3>5, <3>7
  <2>11. CASE TxGivesUp
    <3>1. /\ left' = left /\ handler' = handler /\ elapsed' = elapsed /\ ts' = ts
          /\ list' = list /\ At("timeout")
      BY <2>11 DEF TxGivesUp, timerVars
    <3>2. Timely' /\ \A u \in Timers : Listed(u)' <=> Listed(u)
      BY <2>11, <1>2, QuietKeeps DEF InTime
    <3>3. InTime' BY <3>1, <3>2, <1>2 DEF InTime, At
    <3>4. Waiting' BY <3>1, <3>2, <1>2 DEF Waiting, At
    <3> QED BY <3>3, <3>4
  <2> QED BY <1>4, <2>1, <2>2, <2>3, <2>4, <2>5, <2>6, <2>7, <2>8, <2>9, <2>10, <2>11
          DEF HandlerSteps, Calling
<1>a. At("outside") => \A t \in Timers : ~Handles(t) BY DEF Handles, At
<1>5. CASE MainSetsTimer
  <2>1. PICK t \in {Sm, Cad} : \E value \in IF t = Sm THEN SmDelays ELSE {CadInterval} :
          TimerSetValue(t, value)
    BY <1>5 DEF MainSetsTimer
  <2>2. PICK value \in IF t = Sm THEN SmDelays ELSE {CadInterval} : TimerSetValue(t, value)
    BY <2>1
  <2>3. t \in Timers /\ value \in Nat
    <3>1. CASE t = Sm BY <3>1, <2>2, Values
    <3>2. CASE t # Sm BY <3>2, <2>2, Values
    <3> QED BY <3>1, <3>2
  <2>4. TimerStop(t) /\ reload' = [reload EXCEPT ![t] = value] BY <2>2 DEF TimerSetValue
  <2>5. reload' \in [Timers -> Nat] BY <2>3, <2>4, <1>3
  <2>6. handler' = handler /\ At("outside") BY <1>5 DEF MainSetsTimer, InMain
  <2> QED BY <2>3, <2>4, <2>5, <2>6, <1>2, <1>a, StopKeepsWaiting
<1>6. CASE MainStartsRadio
  <2>1. TimerStop(Radio) /\ reload' = [reload EXCEPT ![Radio] = RadioTimeout]
    BY <1>6 DEF MainStartsRadio, TimerSetValue
  <2>2. reload' \in [Timers -> Nat] BY <2>1, <1>3, Values
  <2>3. handler' = handler /\ At("outside") BY <1>6 DEF MainStartsRadio, InMain
  <2> QED BY <2>1, <2>2, <2>3, <1>2, <1>a, Values, StopKeepsWaiting
<1>7. CASE MainStarts
  <2>1. TimerStart(main.timer) /\ reload' = reload /\ main # NotCalling
        /\ handler' = handler /\ At("outside")
    BY <1>7 DEF MainStarts
  <2>2. main.timer \in Timers BY <2>1, <1>3, Values DEF Calls
  <2>3. At("outside")' BY <2>1 DEF At
  <2> QED BY <2>1, <2>2, <2>3, <1>2, StartKeepsWaiting
<1>8. CASE MainStartsCad
  <2>1. left' = left /\ handler' = handler /\ elapsed' = elapsed /\ ts' = ts /\ list' = list
    BY <1>8 DEF MainStartsCad, timerVars
  <2>2. Timely' /\ \A u \in Timers : Listed(u)' <=> Listed(u)
    BY <1>2, <1>8, QuietKeeps DEF InTime
  <2>3. InTime' BY <2>1, <2>2, <1>2 DEF InTime, At
  <2>4. At("outside") BY <1>8 DEF MainStartsCad, InMain
  <2>5. Waiting' BY <2>1, <2>2, <2>4, <1>2 DEF Waiting, At
  <2> QED BY <2>3, <2>5
<1>9. CASE MainStopsTimer
  <2>1. PICK t \in {Sm, Cad} : TimerStop(t) BY <1>9 DEF MainStopsTimer
  <2>2. reload' = reload /\ handler' = handler /\ At("outside")
    BY <1>9 DEF MainStopsTimer, InMain
  <2>3. t \in Timers /\ reload' \in [Timers -> Nat] BY <2>2, <1>3, Values
  <2> QED BY <2>1, <2>2, <2>3, <1>2, <1>a, StopKeepsWaiting
<1>10. CASE DioEnds \/ DioCadDone
  <2>1. reload' = reload /\ handler' = handler /\ past' = past \cup Preempting
    BY <1>10 DEF DioEnds, DioCadDone
  <2>2. reload' \in [Timers -> Nat] BY <2>1, <1>3
  <2>3. ~Handles(Radio) BY <2>1, <1>1 DEF Preempting, Undisturbed
  <2>4. CASE TimerStop(Radio) BY <2>1, <2>2, <2>3, <2>4, <1>2, Values, StopKeepsWaiting
  <2>5. CASE UNCHANGED <<listVars, left>>
    <3>1. left' \in [Timers -> {Unset} \cup Nat] /\ \A t \in Timers : left'[t] <= left[t]
      BY <2>5, <1>3, LeftSame
    <3>2. /\ Timely => Timely'
          /\ \A u \in Timers : Listed(u)' <=> Listed(u)
          /\ list' = list /\ ts' = ts /\ elapsed' = elapsed
      BY <3>1, <2>2, <2>5, <1>3, Untouched
    <3>3. InTime' BY <2>1, <3>2, <1>2 DEF InTime, At
    <3>4. TimerListHead' = TimerListHead /\ left' = left BY <3>2, <2>5 DEF TimerListHead
    <3>5. Listed(handler.timer)' <=> Listed(handler.timer) BY <2>1, <3>2 DEF Listed
    <3>6. Waiting' BY <2>1, <3>2, <3>4, <3>5, <1>2 DEF Waiting, At
    <3> QED BY <3>3, <3>6
  <2> QED BY <1>10, <2>4, <2>5 DEF DioEnds, DioCadDone, ReportEnd
<1>11. CASE Time
  <2>1. list' = list /\ ts' = ts /\ handler' = handler BY <1>11 DEF Time, Tick
  <2>2. /\ Timely => Timely'
        /\ elapsed <= elapsed'
        /\ \A t \in Timers : (left'[t] = Unset <=> left[t] = Unset)
                             /\ (left[t] = 0 => left'[t] = 0)
    BY <1>11, TickKeeps DEF Time
  <2>3. InTime'
    <3>1. At("read") => handler.elapsed \in 0 .. MaxElapsed BY <1>3, HandlerHolds
    <3>2. elapsed \in Int /\ elapsed' \in Int BY <1>3, NextListing DEF Listing
    <3>3. At("read") => handler.elapsed <= elapsed' BY <3>1, <3>2, <2>2, <1>2 DEF InTime
    <3> QED BY <3>3, <2>1, <2>2, <1>2 DEF InTime, At
  <2>4. TimerListHead' = TimerListHead BY <2>1 DEF TimerListHead
  <2>5. \A u \in Timers : Listed(u)' <=> Listed(u) BY <2>1 DEF Listed
  <2>6. Listed(handler.timer)' <=> Listed(handler.timer) BY <2>1 DEF Listed
  <2>7. At("call") => handler.timer \in Timers BY <1>3, HandlerHolds
  <2>8. Waiting' BY <2>1, <2>2, <2>4, <2>5, <2>6, <2>7, <1>2 DEF Waiting, At
  <2> QED BY <2>3, <2>8
<1> QED BY <1>4, <1>5, <1>6, <1>7, <1>8, <1>9, <1>10, <1>11 DEF Next, Main
-----------------------------------------------------------------------------
(***************************************************************************)
(* The invariant, and what follows from it.                                *)
(***************************************************************************)
Inv == Typed /\ Ending /\ Alarmed /\ Handled

LEMMA InitInv == Init => Inv
<1> SUFFICES ASSUME Init PROVE Inv
  OBVIOUS
<1> USE DEF Init, TimersInit, Outside
<1>1. list \in Seq(Timers) /\ Distinct(list)
  <2>1. list = <<>> OBVIOUS
  <2>2. list \in Seq(Timers) /\ Len(list) = 0 BY <2>1, EmptySeq
  <2> QED BY <2>2 DEF Distinct
<1>2. Listing
  <2>1. 0 \in 0 .. MaxElapsed BY TimerAssumption
  <2> QED BY <1>1, <2>1 DEF Listing
<1>3. Typed
  <2>1. handler \in Handlers BY DEF Handlers
  <2>2. main \in Calls BY DEF Calls
  <2>3. late \in 0 .. MaxLatency BY Latency
  <2>4. state \in Operations /\ chip \in Operations BY DEF Operations
  <2>5. ends \in 0 .. 2 BY SMT
  <2>6. pending \in BOOLEAN BY Zenon
  <2>7. past \subseteq {"clash"} /\ raced \in BOOLEAN BY Zenon
  <2> HIDE DEF Init, TimersInit, Outside
  <2> QED BY <1>2, <2>1, <2>2, <2>3, <2>4, <2>5, <2>6, <2>7 DEF Typed
<1>4. Ending
  <2>1. main.timer # Radio BY Sx1272Assumption DEF NotCalling
  <2> QED BY <2>1 DEF Ending, At
<1>5. Alarmed BY DEF Alarmed
<1>6. \A t \in Timers : ~Listed(t) /\ left[t] = Unset
  <2>1. DOMAIN list = {} OBVIOUS
  <2> QED BY <2>1 DEF Listed
<1>7. Waiting BY <1>6 DEF Waiting, At
<1>8. InTime
  <2>1. DOMAIN list = {} OBVIOUS
  <2>2. Timely BY <2>1 DEF Timely
  <2> QED BY <2>2 DEF InTime, At
<1> QED BY <1>3, <1>4, <1>5, <1>7, <1>8 DEF Inv, Handled

LEMMA StutterInv ==
  ASSUME Inv, UNCHANGED vars
  PROVE  Inv'
<1>1. /\ UNCHANGED listVars /\ list' = list /\ ts' = ts /\ reload' = reload
      /\ (running' <=> running) /\ alarm' = alarm /\ (pending' <=> pending)
      /\ pending' = pending
      /\ late' = late /\ elapsed' = elapsed /\ handler' = handler /\ left' = left
      /\ state' = state /\ chip' = chip /\ main' = main /\ ends' = ends /\ raced' = raced
      /\ past' = past
  BY DEF vars, timerVars, listVars
<1>2. Listing /\ reload \in [Timers -> Nat] /\ left \in [Timers -> {Unset} \cup Nat]
  BY DEF Inv, Typed, Listing
<1>3. Listing' /\ (Timely => Timely') /\ \A t \in Timers : Listed(t)' <=> Listed(t)
  <2>1. \A t \in Timers : left'[t] <= left[t] BY <1>1, <1>2, LeftSame
  <2> QED BY <2>1, <1>1, <1>2, Untouched
<1>4. Typed' BY <1>1, <1>3 DEF Inv, Typed
<1>5. Ending' BY <1>1 DEF Inv, Ending, At
<1>6. Alarmed' BY <1>1 DEF Inv, Alarmed, At
<1>7. Handled'
  <2>1. TimerListHead' = TimerListHead BY <1>1 DEF TimerListHead
  <2>2. Listed(handler.timer)' <=> Listed(handler.timer) BY <1>1 DEF Listed
  <2>3. Waiting => Waiting' BY <1>1, <1>3, <2>1, <2>2 DEF Waiting, At
  <2>4. InTime => InTime' BY <1>1, <1>3 DEF InTime, At
  <2>5. Undisturbed' => Undisturbed BY <1>1 DEF Undisturbed
  <2> QED BY <2>3, <2>4, <2>5 DEF Inv, Handled
<1> QED BY <1>4, <1>5, <1>6, <1>7 DEF Inv

LEMMA NextInv ==
  ASSUME Inv, [Next]_vars
  PROVE  Inv'
<1>1. CASE Next BY <1>1, NextTyped, NextEnding, NextAlarmed, NextHandled DEF Inv
<1>2. CASE UNCHANGED vars BY <1>2, StutterInv
<1> QED BY <1>1, <1>2

(* The handler, the main loop, the radio and its interrupts keep Inv, in   *)
(* every order they come in.                                               *)
THEOREM Invariance == Spec => []Inv
<1>1. Init => Inv BY InitInv
<1>2. Inv /\ [Next]_vars => Inv' BY NextInv
<1> QED BY <1>1, <1>2, PTL DEF Spec

(* The timers are listed once each, the time a timer waits for the one     *)
(* before it is never negative (uint32_t in timer.c: it does not wrap), and *)
(* no operation of the radio is reported more than twice.                  *)
THEOREM TimersTypeCorrect == Spec => []TypeOK
<1>1. Inv => TypeOK
  <2> SUFFICES ASSUME Inv PROVE TypeOK
    OBVIOUS
  <2>1. list \in Seq(Timers) /\ Distinct(list) BY DEF Inv, Typed, Listing
  <2>2. DOMAIN list = 1 .. Len(list) BY <2>1, LenProperties
  <2>3. \A i, j \in DOMAIN list : list[i] = list[j] => i = j BY <2>1, <2>2 DEF Distinct
  <2>4. ToSet(list) \subseteq Timers
    <3>1. \A i \in 1 .. Len(list) : list[i] \in Timers BY <2>1, ElementOfSeq
    <3> QED BY <3>1, <2>2 DEF ToSet
  <2>5. handler.at \in {"outside", "read", "loop", "taken", "call", "rearm", "restart",
                        "timeout", "fault"}
    BY DEF Inv, Typed, Handlers
  <2>6. main.timer \in Timers \cup {"none"}
    BY Values DEF Inv, Typed, Calls, NotCalling
  <2> QED BY <2>3, <2>4, <2>5, <2>6 DEF Inv, Typed, Listing, Operations, TypeOK
<1> QED BY <1>1, Invariance, PTL

(* Whatever the timers do, the interrupt of the radio and                  *)
(* SX1272OnTimeoutIrq both report an operation only when that interrupt    *)
(* falls inside SX1272OnTimeoutIrq, after its test of the state.           *)
THEOREM ReportedOnce == Spec => []EndsOnce
<1>1. Inv => EndsOnce
  <2> SUFFICES ASSUME Inv, ~raced PROVE ~(ends > 1)
    BY DEF EndsOnce
  <2>1. ends <= 1 BY DEF Inv, Ending
  <2>2. ends \in 0 .. 2 BY DEF Inv, Typed
  <2> QED BY <2>1, <2>2
<1> QED BY <1>1, Invariance, PTL

(* Outside of TimerIrqHandler the alarm is set, or its interrupt waits, as *)
(* long as TimerListHead is a timer to wait for.                           *)
THEOREM AlarmOfHead == Spec => []AlarmSet
<1>1. Inv => AlarmSet BY DEF Inv, Alarmed, AlarmSet, At
<1> QED BY <1>1, Invariance, PTL

(* TimerStart, TimerStop and TimerIrqHandler drop no timer that somebody   *)
(* waits for, as long as no interrupt stops the one that is handled.       *)
THEOREM KeptTimers == Spec => []NoneDropped
<1>1. Inv => NoneDropped BY DEF Inv, Handled, Waiting, NoneDropped
<1> QED BY <1>1, Invariance, PTL

(* TimerIrqHandler calls no callback before its timeout is over, nor after *)
(* its timer was stopped, as long as no interrupt stops the one handled.   *)
THEOREM CalledWhenDue == Spec => NeverEarly
<1> DEFINE A == \A t \in Timers : Undisturbed' /\ Called(t) => left[t] = 0
<1>1. Inv /\ [Next]_vars => [A]_vars
  <2> SUFFICES ASSUME Inv, Next PROVE A
    OBVIOUS
  <2> SUFFICES ASSUME NEW t \in Timers, Undisturbed', Called(t) PROVE left[t] = 0
    OBVIOUS
  <2>1. Waiting BY PastStays DEF Inv, Handled
  <2>2. At("call") /\ handler.timer = t BY DEF Called
  <2> QED BY <2>1, <2>2 DEF Waiting
<1> QED BY <1>1, Invariance, PTL DEF Spec, NeverEarly
============================================================================
