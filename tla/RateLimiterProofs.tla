------------------------- MODULE RateLimiterProofs -------------------------
(***************************************************************************)
(* Theorems about RateLimiter, for any rate, burst, prices and number of   *)
(* entities.  The tokens of a bucket are exactly what the tightest window  *)
(* that is still open leaves over: BucketExact says so as an upper bound   *)
(* for every window (Room) and an equality for one of them (Tight).        *)
(***************************************************************************)
EXTENDS RateLimiter, SequenceTheorems, TLAPS

Spent(e, i) == (Len(granted[e]) - i + 1) * Price[e]

Allowance(e, i) == Burst + Rate * (last_update[e] - granted[e][i])

\* No window that began with a granted command has less room than there are tokens.
Room(e) == \A i \in 1 .. Len(granted[e]) : tokens[e] + Spent(e, i) <= Allowance(e, i)

\* The bucket is full, or some window has no more room than that.
Tight(e) ==
    \/ tokens[e] = Burst
    \/ \E i \in 1 .. Len(granted[e]) : tokens[e] + Spent(e, i) = Allowance(e, i)

BucketExact(e) ==
    IF e \in known
    THEN /\ last_update[e] <= now
         /\ \A i \in 1 .. Len(granted[e]) : granted[e][i] <= last_update[e]
         /\ Room(e) /\ Tight(e)
    ELSE granted[e] = <<>>

IInv == TypeOK /\ EveryWindowBounded /\ \A e \in Entities : BucketExact(e)

-----------------------------------------------------------------------------
LEMMA Shift ==
    ASSUME NEW b \in Int, NEW r \in Int, NEW n \in Int, NEW l \in Int, NEW g \in Int
    PROVE  b + r * (n - g) = (b + r * (l - g)) + (n - l) * r
OBVIOUS

LEMMA ProductInt ==
    ASSUME NEW a \in Int, NEW b \in Int
    PROVE  a * b \in Int
OBVIOUS

LEMMA OneMore ==
    ASSUME NEW n \in Int, NEW i \in Int, NEW p \in Int
    PROVE  (n - i + 2) * p = (n - i + 1) * p + p
OBVIOUS

LEMMA Product ==
    ASSUME NEW a \in Nat, NEW b \in Nat
    PROVE  a * b \in Nat
OBVIOUS

\* What the facts of BucketExact mean at the time of a call, after the refill.
LEMMA RefillExact ==
    ASSUME NEW e \in known, TypeOK, BucketExact(e)
    PROVE  /\ Refilled(e) \in 0 .. Burst
           /\ \A i \in 1 .. Len(granted[e]) :
                 Refilled(e) + Spent(e, i) <= Burst + Rate * (now - granted[e][i])
           /\ \/ Refilled(e) = Burst
              \/ \E i \in 1 .. Len(granted[e]) :
                    Refilled(e) + Spent(e, i) = Burst + Rate * (now - granted[e][i])
<1> USE LimiterAssumption
<1>1. /\ e \in Entities /\ now \in Nat /\ last_update[e] \in Nat /\ tokens[e] \in 0 .. Burst
      /\ Burst \in Nat /\ Rate \in Nat /\ Price[e] \in Nat
      /\ granted[e] \in Seq(Nat) /\ Len(granted[e]) \in Nat
      /\ \A i \in 1 .. Len(granted[e]) : granted[e][i] \in Nat
  BY DEF TypeOK
<1>2. last_update[e] <= now /\ Room(e) /\ Tight(e)
  BY DEF BucketExact
<1> DEFINE inflow == (now - last_update[e]) * Rate
<1>3. inflow \in Nat
  BY <1>1, <1>2, Product
<1>4. \A i \in 1 .. Len(granted[e]) :
         /\ Spent(e, i) \in Int /\ Allowance(e, i) \in Int
         /\ Burst + Rate * (now - granted[e][i]) = Allowance(e, i) + inflow
  <2>1. TAKE i \in 1 .. Len(granted[e])
  <2>2. granted[e][i] \in Nat /\ i \in Int
    BY <1>1
  <2>3. Spent(e, i) \in Int
    <3>1. Len(granted[e]) - i + 1 \in Int /\ Price[e] \in Int
      BY <1>1, <2>2
    <3>2. QED
      BY <3>1, ProductInt DEF Spent
  <2>4. Allowance(e, i) \in Int
    <3>1. Rate \in Int /\ last_update[e] - granted[e][i] \in Int
      BY <1>1, <2>2
    <3>2. Rate * (last_update[e] - granted[e][i]) \in Int
      BY <3>1, ProductInt
    <3>3. QED
      BY <1>1, <3>2 DEF Allowance
  <2>5. Burst + Rate * (now - granted[e][i]) = Allowance(e, i) + inflow
    <3>1. /\ Burst \in Int /\ Rate \in Int /\ now \in Int /\ last_update[e] \in Int
          /\ granted[e][i] \in Int
      BY <1>1, <2>2
    <3>2. /\ Allowance(e, i) = Burst + Rate * (last_update[e] - granted[e][i])
          /\ inflow = (now - last_update[e]) * Rate
      BY Zenon DEF Allowance
    <3>3. Burst + Rate * (now - granted[e][i])
             = (Burst + Rate * (last_update[e] - granted[e][i])) + (now - last_update[e]) * Rate
      <4> HIDE DEF inflow
      <4>1. QED
        BY <3>1, Shift
    <3>4. QED
      <4> HIDE DEF inflow
      <4>1. QED
        BY <3>2, <3>3, Zenon
  <2>6. QED
    BY <2>3, <2>4, <2>5
<1>5. Refilled(e) = IF tokens[e] + inflow < Burst THEN tokens[e] + inflow ELSE Burst
  BY DEF Refilled
<1> HIDE DEF inflow
<1>6. Refilled(e) \in 0 .. Burst /\ Refilled(e) <= tokens[e] + inflow
  BY <1>1, <1>3, <1>5
<1>7. ASSUME NEW i \in 1 .. Len(granted[e])
      PROVE  Refilled(e) + Spent(e, i) <= Burst + Rate * (now - granted[e][i])
  <2>1. tokens[e] + Spent(e, i) <= Allowance(e, i)
    BY <1>2 DEF Room
  <2>2. QED
    BY <1>1, <1>3, <1>4, <1>6, <2>1
<1>8. \/ Refilled(e) = Burst
      \/ \E i \in 1 .. Len(granted[e]) :
            Refilled(e) + Spent(e, i) = Burst + Rate * (now - granted[e][i])
  <2>1. CASE Refilled(e) = Burst
    BY <2>1
  <2>2. CASE Refilled(e) # Burst
    <3>1. Refilled(e) = tokens[e] + inflow /\ tokens[e] # Burst
      BY <1>1, <1>3, <1>5, <2>2
    <3>2. PICK i \in 1 .. Len(granted[e]) : tokens[e] + Spent(e, i) = Allowance(e, i)
      BY <1>2, <3>1 DEF Tight
    <3>3. Refilled(e) + Spent(e, i) = Allowance(e, i) + inflow
      BY <1>1, <1>3, <1>4, <3>1, <3>2
    <3>4. QED
      BY <1>4, <3>3, Zenon
  <2>3. QED
    BY <2>1, <2>2
<1>9. QED
  BY <1>6, <1>7, <1>8

\* A refilled bucket pays for a command exactly when every window conforms.
LEMMA PaysIffConforms ==
    ASSUME NEW e \in known, TypeOK, BucketExact(e)
    PROVE  Refilled(e) >= Price[e] <=> Window!Conforms(e)
<1> USE LimiterAssumption
<1> DEFINE n == Len(granted[e])
           window(i) == Burst + Rate * (now - granted[e][i])
<1>1. /\ e \in Entities /\ now \in Int
      /\ Burst \in Int /\ Rate \in Int /\ Price[e] \in Int
      /\ n \in Nat /\ \A i \in 1 .. n : granted[e][i] \in Int
  BY DEF TypeOK
<1>2. /\ Refilled(e) \in Int /\ Refilled(e) <= Burst
      /\ \A i \in 1 .. n : Refilled(e) + Spent(e, i) <= window(i)
      /\ Refilled(e) = Burst \/ \E i \in 1 .. n : Refilled(e) + Spent(e, i) = window(i)
  BY <1>1, RefillExact
<1>3. \A i \in 1 .. n : /\ Spent(e, i) \in Int /\ window(i) \in Int
                        /\ (n - i + 2) * Price[e] = Spent(e, i) + Price[e]
  <2>1. TAKE i \in 1 .. n
  <2>2. i \in Int /\ n \in Int /\ n - i + 1 \in Int /\ now - granted[e][i] \in Int
    BY <1>1
  <2>3. Spent(e, i) \in Int
    BY <1>1, <2>2, ProductInt DEF Spent
  <2>4. Rate * (now - granted[e][i]) \in Int
    BY <1>1, <2>2, ProductInt
  <2>5. (n - i + 2) * Price[e] = Spent(e, i) + Price[e]
    <3> HIDE DEF n
    <3>1. Spent(e, i) = (n - i + 1) * Price[e]
      BY DEF Spent, n
    <3>2. (n - i + 2) * Price[e] = (n - i + 1) * Price[e] + Price[e]
      BY <1>1, <2>2, OneMore
    <3>3. QED
      BY <3>1, <3>2, Zenon
  <2>6. QED
    BY <1>1, <2>3, <2>4, <2>5
<1>4. Window!Conforms(e) <=> /\ Price[e] <= Burst
                             /\ \A i \in 1 .. n : (n - i + 2) * Price[e] <= window(i)
  BY Zenon DEF Window!Conforms
<1> HIDE DEF n, window
<1>5. Window!Conforms(e) <=> /\ Price[e] <= Burst
                             /\ \A i \in 1 .. n : Spent(e, i) + Price[e] <= window(i)
  BY <1>3, <1>4
<1>6. QED
  BY <1>1, <1>2, <1>3, <1>5
-----------------------------------------------------------------------------
LEMMA InitIInv == Init => IInv
<1> SUFFICES ASSUME Init PROVE IInv
  OBVIOUS
<1> USE LimiterAssumption DEF Init
<1>1. TypeOK
  BY EmptySeq DEF TypeOK
<1>2. EveryWindowBounded
  BY DEF EveryWindowBounded
<1>3. \A e \in Entities : BucketExact(e)
  BY DEF BucketExact
<1>4. QED
  BY <1>1, <1>2, <1>3 DEF IInv

\* Time passes: what is known at the last call stays true of it.
LEMMA TickKeeps == IInv /\ Tick => IInv'
<1> SUFFICES ASSUME IInv, Tick PROVE IInv'
  OBVIOUS
<1> USE DEF Tick, IInv
<1>1. TypeOK'
  BY DEF TypeOK
<1>2. EveryWindowBounded'
  BY DEF EveryWindowBounded
<1>3. ASSUME NEW e \in Entities PROVE BucketExact(e)'
  BY DEF TypeOK, BucketExact, Room, Tight, Spent, Allowance
<1>4. QED
  BY <1>1, <1>2, <1>3

\* A call for one entity leaves the bucket of another alone.
LEMMA OthersKept ==
    ASSUME IInv, NEW e \in Entities, allow(e), NEW o \in Entities, o # e
    PROVE  BucketExact(o)'
<1>1. /\ tokens'[o] = tokens[o] /\ last_update'[o] = last_update[o]
      /\ granted'[o] = granted[o] /\ now' = now
      /\ o \in known' <=> o \in known
  BY DEF IInv, TypeOK, allow, FirstContact, Draw, True, False
<1>2. QED
  BY <1>1 DEF IInv, BucketExact, Room, Tight, Spent, Allowance

\* A granted command is the last of the windows it closes.
LEMMA GrantKeepsWindows ==
    ASSUME IInv, NEW e \in Entities, True(e), Window!Conforms(e)
    PROVE  EveryWindowBounded'
<1> DEFINE n == Len(granted[e])
<1>1. /\ now \in Nat /\ n \in Nat /\ Price[e] \in Nat /\ Burst \in Nat /\ Rate \in Nat
      /\ granted \in [Entities -> Seq(Nat)]
      /\ granted[e] \in Seq(Nat)
  BY LimiterAssumption DEF IInv, TypeOK
<1>2. /\ granted'[e] = Append(granted[e], now)
      /\ \A o \in Entities : o # e => granted'[o] = granted[o]
  BY <1>1 DEF True
<1>3. /\ Len(granted'[e]) = n + 1
      /\ granted'[e][n + 1] = now
      /\ \A i \in 1 .. n : granted'[e][i] = granted[e][i]
  BY <1>1, <1>2
<1>4. Price[e] <= Burst /\ \A i \in 1 .. n : (n - i + 2) * Price[e] <= Burst + Rate * (now - granted[e][i])
  BY Zenon DEF Window!Conforms
<1> HIDE DEF n
<1>5. ASSUME NEW o \in Entities, NEW j \in 1 .. Len(granted'[o]), NEW i \in 1 .. j
      PROVE  (j - i + 1) * Price[o] <= Burst + Rate * (granted'[o][j] - granted'[o][i])
  <2>1. CASE o # e
    BY <1>2, <2>1 DEF IInv, EveryWindowBounded
  <2>2. CASE o = e /\ j # n + 1
    <3>1. j \in 1 .. n /\ i \in 1 .. n
      BY <1>1, <1>3, <2>2
    <3>2. granted'[o][j] = granted[o][j] /\ granted'[o][i] = granted[o][i]
      BY <1>3, <2>2, <3>1
    <3>3. QED
      BY <2>2, <3>1, <3>2 DEF IInv, EveryWindowBounded, n
  <2>3. CASE o = e /\ j = n + 1 /\ i = n + 1
    <3>1. (n + 1) - (n + 1) + 1 = 1 /\ now - now = 0
      BY <1>1
    <3>2. 1 * Price[e] = Price[e] /\ Rate * 0 = 0 /\ Burst + 0 = Burst
      BY <1>1
    <3>3. QED
      BY <1>3, <1>4, <2>3, <3>1, <3>2, Zenon
  <2>4. CASE o = e /\ j = n + 1 /\ i # n + 1
    <3>1. i \in 1 .. n /\ j - i + 1 = n - i + 2
      BY <1>1, <2>4
    <3>2. granted'[o][j] = now /\ granted'[o][i] = granted[e][i]
      BY <1>3, <2>4, <3>1
    <3>3. QED
      BY <1>4, <2>4, <3>1, <3>2, Zenon
  <2>5. QED
    BY <2>1, <2>2, <2>3, <2>4
<1>6. QED
  BY <1>5, Zenon DEF EveryWindowBounded

\* What a call that says yes makes of a bucket that held r tokens after the refill.
LEMMA GrantKeepsBucket ==
    ASSUME IInv, NEW e \in Entities, True(e), NEW r \in 0 .. Burst,
           e \in known', now' = now,
           last_update' = [last_update EXCEPT ![e] = now],
           tokens' = [tokens EXCEPT ![e] = r - Price[e]],
           \A i \in 1 .. Len(granted[e]) : granted[e][i] <= now,
           \A i \in 1 .. Len(granted[e]) :
              r + Spent(e, i) <= Burst + Rate * (now - granted[e][i]),
           \/ r = Burst
           \/ \E i \in 1 .. Len(granted[e]) :
                 r + Spent(e, i) = Burst + Rate * (now - granted[e][i])
    PROVE  BucketExact(e)'
<1> DEFINE window(i) == Burst + Rate * (now - granted[e][i])
<1>a. /\ now \in Nat /\ Price[e] \in Nat /\ Burst \in Nat /\ Rate \in Nat
      /\ granted \in [Entities -> Seq(Nat)]
      /\ tokens \in [Entities -> 0 .. Burst] /\ last_update \in [Entities -> Nat]
  BY LimiterAssumption DEF IInv, TypeOK
<1>b. granted[e] \in Seq(Nat)
  BY <1>a
<1>c. Len(granted[e]) \in Nat
  BY <1>b
<1>d. PICK n \in Nat : n = Len(granted[e])
  BY <1>c
<1>1. /\ now \in Nat /\ n \in Nat /\ Price[e] \in Nat /\ Burst \in Nat /\ Rate \in Nat
      /\ granted[e] \in Seq(Nat)
      /\ \A i \in 1 .. n : granted[e][i] \in Nat
  BY <1>a, <1>b, <1>d
<1>2. /\ granted'[e] = Append(granted[e], now)
      /\ tokens'[e] = r - Price[e] /\ last_update'[e] = now
  BY <1>a DEF True
<1>3. /\ Len(granted'[e]) = n + 1
      /\ granted'[e][n + 1] = now
      /\ \A i \in 1 .. n : granted'[e][i] = granted[e][i]
  BY <1>1, <1>2, <1>d
<1>4. \A i \in 1 .. n : Spent(e, i) \in Int /\ Spent(e, i)' = Spent(e, i) + Price[e]
  <2>1. TAKE i \in 1 .. n
  <2>2. i \in Int /\ n - i + 1 \in Int /\ (n + 1) - i + 1 = n - i + 2
    BY <1>1
  <2>3. Spent(e, i) \in Int
    BY <1>1, <2>2, ProductInt DEF Spent
  <2>4. Spent(e, i)' = (n - i + 2) * Price[e]
    <3>1. Spent(e, i)' = (Len(granted'[e]) - i + 1) * Price[e]
      BY Zenon DEF Spent
    <3>2. QED
      BY <1>3, <2>2, <3>1, Zenon
  <2>5. Spent(e, i) = (n - i + 1) * Price[e]
    BY <1>d, Zenon DEF Spent
  <2>6. (n - i + 2) * Price[e] = (n - i + 1) * Price[e] + Price[e]
    <3>1. n \in Int /\ i \in Int /\ Price[e] \in Int
      BY <1>1
    <3>2. QED
      BY <3>1, OneMore, Zenon
  <2>7. QED
    BY <2>3, <2>4, <2>5, <2>6, Zenon
<1>5. \A i \in 1 .. n : window(i) \in Int /\ Allowance(e, i)' = window(i)
  <2>1. TAKE i \in 1 .. n
  <2>2. Rate \in Int /\ now - granted[e][i] \in Int
    BY <1>1
  <2>3. window(i) \in Int
    BY <1>1, <2>2, ProductInt
  <2>4. QED
    BY <1>2, <1>3, <2>3, Zenon DEF Allowance
<1>6. Spent(e, n + 1)' = Price[e] /\ Allowance(e, n + 1)' = Burst
  <2>1. Spent(e, n + 1)' = (Len(granted'[e]) - (n + 1) + 1) * Price[e]
    BY Zenon DEF Spent
  <2>2. Allowance(e, n + 1)' = Burst + Rate * (now - now)
    BY <1>2, <1>3, Zenon DEF Allowance
  <2>3. (n + 1) - (n + 1) + 1 = 1 /\ now - now = 0
    BY <1>1
  <2>4. 1 * Price[e] = Price[e] /\ Rate * 0 = 0 /\ Burst + 0 = Burst
    BY <1>1
  <2>5. QED
    BY <1>3, <2>1, <2>2, <2>3, <2>4, Zenon
<1>7. /\ \A i \in 1 .. n : r + Spent(e, i) <= window(i)
      /\ r = Burst \/ \E i \in 1 .. n : r + Spent(e, i) = window(i)
  BY <1>d, Zenon
<1>8. \A i \in 1 .. n : granted[e][i] <= now
  BY <1>d, Zenon
<1> HIDE DEF window
<1>9. Room(e)'
  <2>1. ASSUME NEW i \in 1 .. n + 1
        PROVE  tokens'[e] + Spent(e, i)' <= Allowance(e, i)'
    <3>1. CASE i = n + 1
      BY <1>1, <1>2, <1>6, <3>1
    <3>2. CASE i # n + 1
      <4>1. i \in 1 .. n
        BY <1>1, <3>2
      <4>2. QED
        BY <1>1, <1>2, <1>4, <1>5, <1>7, <4>1
    <3>3. QED
      BY <3>1, <3>2
  <2>2. QED
    BY <1>3, <2>1, Zenon DEF Room
<1>10. Tight(e)'
  <2>1. \E i \in 1 .. n + 1 : tokens'[e] + Spent(e, i)' = Allowance(e, i)'
    <3>1. CASE r = Burst
      <4>1. tokens'[e] + Spent(e, n + 1)' = Allowance(e, n + 1)'
        BY <1>1, <1>2, <1>6, <3>1
      <4>2. n + 1 \in 1 .. n + 1
        BY <1>1
      <4>3. QED
        BY <4>1, <4>2
    <3>2. CASE r # Burst
      <4>1. PICK i \in 1 .. n : r + Spent(e, i) = window(i)
        BY <1>7, <3>2
      <4>2. tokens'[e] + Spent(e, i)' = Allowance(e, i)' /\ i \in 1 .. n + 1
        BY <1>1, <1>2, <1>4, <1>5, <4>1
      <4>3. QED
        BY <4>2
    <3>3. QED
      BY <3>1, <3>2
  <2>2. QED
    BY <1>3, <2>1, Zenon DEF Tight
<1>11. \A i \in 1 .. Len(granted'[e]) : granted'[e][i] <= now
  <2>1. ASSUME NEW i \in 1 .. n + 1 PROVE granted'[e][i] <= now
    <3>1. CASE i = n + 1
      BY <1>1, <1>3, <3>1
    <3>2. CASE i # n + 1
      <4>1. i \in 1 .. n
        BY <1>1, <3>2
      <4>2. QED
        BY <1>3, <1>8, <4>1
    <3>3. QED
      BY <3>1, <3>2
  <2>2. QED
    BY <1>3, <2>1, Zenon
<1>12. QED
  <2>1. last_update'[e] <= now' /\ last_update'[e] = now
    BY <1>1, <1>2
  <2>2. QED
    BY <1>9, <1>10, <1>11, <2>1, Zenon DEF BucketExact

LEMMA AllowKeeps ==
    ASSUME IInv, NEW e \in Entities, allow(e)
    PROVE  IInv'
<1> USE LimiterAssumption
<1>1. /\ now \in Nat /\ Burst \in Nat /\ Price[e] \in Nat
      /\ tokens \in [Entities -> 0 .. Burst] /\ last_update \in [Entities -> Nat]
      /\ granted \in [Entities -> Seq(Nat)] /\ granted[e] \in Seq(Nat)
      /\ TypeOK /\ BucketExact(e) /\ EveryWindowBounded
  BY DEF IInv, TypeOK
<1>2. CASE e \notin known /\ Price[e] <= Burst
  <2>1. /\ tokens' = [tokens EXCEPT ![e] = Burst - Price[e]]
        /\ last_update' = [last_update EXCEPT ![e] = now]
        /\ known' = known \cup {e} /\ now' = now /\ True(e)
    BY <1>1, <1>2 DEF allow, FirstContact, Draw
  <2>2. granted[e] = <<>>
    BY <1>1, <1>2 DEF BucketExact
  <2>3. Window!Conforms(e)
    BY <1>2, <2>2 DEF Window!Conforms
  <2>4. TypeOK'
    <3>1. Burst - Price[e] \in 0 .. Burst
      BY <1>1, <1>2
    <3>2. Append(granted[e], now) \in Seq(Nat)
      BY <1>1
    <3>3. QED
      BY <1>1, <2>1, <3>1, <3>2 DEF TypeOK, True
  <2>5. EveryWindowBounded'
    BY <2>1, <2>3, GrantKeepsWindows
  <2>6. BucketExact(e)'
    <3>1. Burst \in 0 .. Burst /\ e \in known'
      BY <1>1, <2>1
    <3>2. \A i \in 1 .. Len(granted[e]) : FALSE
      BY <2>2
    <3>3. QED
      BY <2>1, <3>1, <3>2, GrantKeepsBucket
  <2>7. QED
    BY <2>4, <2>5, <2>6, OthersKept DEF IInv
<1>3. CASE e \notin known /\ Price[e] > Burst
  <2>1. UNCHANGED <<now, known, tokens, last_update, granted>> /\ False(e)
    BY <1>1, <1>3 DEF allow, FirstContact, Draw, False
  <2>2. TypeOK'
    BY <1>1, <2>1 DEF TypeOK, False
  <2>3. EveryWindowBounded'
    BY <1>1, <2>1 DEF EveryWindowBounded
  <2>4. BucketExact(e)'
    BY <1>1, <2>1, <1>3 DEF BucketExact
  <2>5. QED
    BY <2>2, <2>3, <2>4, OthersKept DEF IInv
<1>4. CASE e \in known
  <2>1. /\ Refilled(e) \in 0 .. Burst
        /\ \A i \in 1 .. Len(granted[e]) :
              Refilled(e) + Spent(e, i) <= Burst + Rate * (now - granted[e][i])
        /\ \/ Refilled(e) = Burst
           \/ \E i \in 1 .. Len(granted[e]) :
                 Refilled(e) + Spent(e, i) = Burst + Rate * (now - granted[e][i])
    BY <1>1, <1>4, RefillExact
  <2>2. /\ last_update' = [last_update EXCEPT ![e] = now]
        /\ now' = now /\ known' = known
    BY <1>4 DEF allow, FirstContact, Draw
  <2>3. \A i \in 1 .. Len(granted[e]) : granted[e][i] <= now
    BY <1>1, <1>4 DEF BucketExact, TypeOK
  <2>4. CASE Refilled(e) >= Price[e]
    <3>1. tokens' = [tokens EXCEPT ![e] = Refilled(e) - Price[e]] /\ True(e)
      BY <1>1, <1>4, <2>1, <2>4 DEF allow, FirstContact, Draw
    <3>2. Window!Conforms(e)
      BY <1>1, <1>4, <2>4, PaysIffConforms
    <3>3. TypeOK'
      <4>1. Refilled(e) - Price[e] \in 0 .. Burst
        BY <1>1, <2>1, <2>4
      <4>2. Append(granted[e], now) \in Seq(Nat)
        BY <1>1
      <4>3. QED
        BY <1>1, <2>2, <3>1, <4>1, <4>2 DEF TypeOK, True
    <3>4. EveryWindowBounded'
      BY <3>1, <3>2, GrantKeepsWindows
    <3>5. BucketExact(e)'
      BY <1>4, <2>1, <2>2, <2>3, <3>1, GrantKeepsBucket
    <3>6. QED
      BY <3>3, <3>4, <3>5, OthersKept DEF IInv
  <2>5. CASE Refilled(e) < Price[e]
    <3>1. tokens' = [tokens EXCEPT ![e] = Refilled(e)] /\ False(e)
      BY <1>1, <1>4, <2>1, <2>5 DEF allow, FirstContact, Draw
    <3>2. TypeOK'
      BY <1>1, <2>1, <2>2, <3>1 DEF TypeOK, False
    <3>3. EveryWindowBounded'
      BY <1>1, <3>1 DEF EveryWindowBounded, False
    <3>4. BucketExact(e)'
      <4>1. /\ tokens'[e] = Refilled(e) /\ last_update'[e] = now
            /\ granted' = granted
        BY <1>1, <2>2, <3>1 DEF False
      <4>2. \A i \in 1 .. Len(granted[e]) :
               /\ Spent(e, i)' = Spent(e, i)
               /\ Allowance(e, i)' = Burst + Rate * (now - granted[e][i])
        BY <4>1, Zenon DEF Spent, Allowance
      <4>3. Room(e)'
        BY <2>1, <4>1, <4>2, Zenon DEF Room
      <4>4. Tight(e)'
        BY <2>1, <4>1, <4>2, Zenon DEF Tight
      <4>5. now <= now
        BY <1>1
      <4>6. QED
        BY <1>4, <2>2, <2>3, <4>1, <4>3, <4>4, <4>5, Zenon DEF BucketExact
    <3>5. QED
      BY <3>2, <3>3, <3>4, OthersKept DEF IInv
  <2>6. QED
    BY <1>1, <2>1, <2>4, <2>5
<1>5. QED
  BY <1>1, <1>2, <1>3, <1>4

LEMMA Invariance == Spec => []IInv
<1>1. IInv /\ UNCHANGED vars => IInv'
  BY DEF vars, IInv, TypeOK, EveryWindowBounded, BucketExact, Room, Tight, Spent, Allowance
<1>2. IInv /\ Next => IInv'
  BY TickKeeps, AllowKeeps DEF Next
<1>3. QED
  BY <1>1, <1>2, InitIInv, PTL DEF Spec

-----------------------------------------------------------------------------
(***************************************************************************)
(* The tokens of a bucket stay between nothing and the burst.              *)
(***************************************************************************)
THEOREM TypeCorrect == Spec => []TypeOK
<1>1. IInv => TypeOK
  BY DEF IInv
<1>2. QED
  BY <1>1, Invariance, PTL

(***************************************************************************)
(* allow() keeps every window of an entity within the burst and the rate,  *)
(* for every rate, burst and price and however the calls are spread.       *)
(***************************************************************************)
THEOREM WindowsStayBounded == Spec => []EveryWindowBounded
<1>1. IInv => EveryWindowBounded
  BY DEF IInv
<1>2. QED
  BY <1>1, Invariance, PTL

(***************************************************************************)
(* The buckets of allow() answer as the definition over all windows does:  *)
(* yes exactly when the command conforms.                                  *)
(***************************************************************************)
THEOREM LimiterRefinement == Spec => ImplementsWindowLimiter
<1>1. Init => Window!Init
  BY DEF Init, Window!Init
<1>2. IInv /\ [Next]_vars => [Window!Next]_(Window!vars)
  <2> SUFFICES ASSUME IInv, [Next]_vars PROVE [Window!Next]_(Window!vars)
    OBVIOUS
  <2>1. CASE UNCHANGED vars
    BY <2>1 DEF vars, Window!vars
  <2>2. CASE Tick
    BY <2>2 DEF Tick, Window!Next, Window!Tick
  <2>3. ASSUME NEW e \in Entities, FirstContact(e) PROVE Window!Next
    <3>1. granted[e] = <<>> /\ now' = now
      BY <2>3 DEF IInv, BucketExact, FirstContact
    <3>2. Window!Conforms(e) <=> Price[e] <= Burst
      BY <3>1 DEF Window!Conforms
    <3>3. Window!Grant(e) \/ Window!Refuse(e)
      <4>1. CASE Price[e] <= Burst /\ True(e)
        BY <3>1, <3>2, <4>1 DEF Window!Grant, True
      <4>2. CASE Price[e] > Burst /\ False(e)
        <5>1. ~(Price[e] <= Burst)
          BY <4>2, LimiterAssumption
        <5>2. QED
          BY <3>1, <3>2, <4>2, <5>1 DEF Window!Refuse, False
      <4>3. QED
        BY <2>3, <4>1, <4>2 DEF FirstContact
    <3>4. QED
      BY <3>3 DEF Window!Next
  <2>4. ASSUME NEW e \in Entities, Draw(e) PROVE Window!Next
    <3>1. e \in known /\ TypeOK /\ BucketExact(e) /\ now' = now
      BY <2>4 DEF IInv, Draw
    <3>2. Refilled(e) >= Price[e] <=> Window!Conforms(e)
      BY <3>1, PaysIffConforms
    <3>3. Refilled(e) \in Int /\ Price[e] \in Int
      BY <3>1, RefillExact, LimiterAssumption
    <3>4. CASE Refilled(e) >= Price[e] /\ True(e)
      BY <3>1, <3>2, <3>4 DEF Window!Next, Window!Grant, True
    <3>5. CASE Refilled(e) < Price[e] /\ False(e)
      <4>1. ~Window!Conforms(e)
        BY <3>2, <3>3, <3>5
      <4>2. Window!Refuse(e)
        BY <3>1, <3>5, <4>1 DEF Window!Refuse, False
      <4>3. QED
        BY <4>2 DEF Window!Next
    <3>6. QED
      BY <2>4, <3>4, <3>5 DEF Draw
  <2>5. QED
    BY <2>1, <2>2, <2>3, <2>4 DEF Next, allow
<1>3. QED
  BY <1>1, <1>2, Invariance, PTL DEF Spec, ImplementsWindowLimiter, Window!Spec
=============================================================================
