------------------------ MODULE RequestPermitsProofs ------------------------
(***************************************************************************)
(* Proofs about RequestPermits, for any limit, any period, any pauses and  *)
(* any number of processes that share a token.                             *)
(***************************************************************************)
EXTENDS RequestPermits, FiniteSetTheorems, WellFoundedInduction, TLAPS

-----------------------------------------------------------------------------
(* The rate.                                                               *)

TypeOK ==
    /\ now \in Nat
    /\ callHistory \in Seq(Nat) /\ noted \in Seq(Nat) /\ made \in Seq(Nat)
    /\ caller \in {"idle", "look", "sleep", "note", "send"}

Ordered(calls) == \A i, j \in 1 .. Len(calls) : i <= j => calls[i] <= calls[j]

\* The last of a sequence, from behind position k.
IsRest(rest, calls, k) ==
    /\ Len(rest) = Len(calls) - k
    /\ \A i \in 1 .. Len(rest) : rest[i] = calls[i + k]

\* The history holds the calls that were noted last, and whichever it has
\* forgotten are a period old.
Remembered(at) ==
    \E k \in 0 .. Len(noted) : /\ IsRest(callHistory, noted, k)
                               /\ \A i \in 1 .. k : noted[i] <= at - Period

\* Between a call and the MaxCalls-th after it lies a period.
Spaced ==
    \A i \in 1 .. Len(noted) :
        i + MaxCalls <= Len(noted) => noted[i] + Period <= noted[i + MaxCalls]

\* A request arrives after its call was noted and before the next one is.
Arrived ==
    /\ Len(noted) = IF caller = "send" THEN Len(made) + 1 ELSE Len(made)
    /\ \A i \in 1 .. Len(made) : noted[i] <= made[i] /\ made[i] <= now
    /\ \A i \in 1 .. Len(made) : i + 1 <= Len(noted) => made[i] <= noted[i + 1]

RateInv ==
    /\ TypeOK
    /\ Ordered(noted)
    /\ \A i \in 1 .. Len(noted) : noted[i] <= now
    /\ Len(callHistory) <= MaxCalls
    /\ caller = "note" => Len(callHistory) # MaxCalls
    /\ Remembered(now)
    /\ Spaced
    /\ Arrived

-----------------------------------------------------------------------------
(* The storage.                                                            *)

Tokens == [state : {"none", "read", "fresh"}, refresh : Nat, expires : Nat]

TokensTyped ==
    /\ now \in Nat
    /\ rotates \in BOOLEAN /\ valid \in Nat \ {0}
    /\ stored \in [refresh : Nat, expires : Nat]
    /\ held \in [Processes -> Tokens]

\* There is one token, and everybody has it.
OneToken ==
    /\ valid = 1 /\ stored.refresh = 1
    /\ \A p \in Processes : held[p].state # "none" => held[p].refresh = 1

\* The valid token is in the storage, or with the one process that is about to
\* store it, while what all others have read is outdated.
OneHolder ==
    /\ \A p \in Processes : held[p].state # "none" => held[p].refresh <= valid
    /\ (\A p \in Processes : held[p].state # "fresh") => stored.refresh = valid
    /\ \A p, q \in Processes :
          held[p].state = "fresh" =>
              /\ held[p].refresh = valid /\ stored.refresh < valid
              /\ q # p => held[q].state = "none" \/ held[q].refresh < valid

TokenInv == TokensTyped /\ (IF rotates THEN OneHolder ELSE OneToken)

-----------------------------------------------------------------------------
(* What _cleanup keeps.                                                    *)

\* Every set of numbers that has a member has a least one.
LEMMA LeastMember ==
    ASSUME NEW S \in SUBSET Nat, S # {}
    PROVE  \E x \in S : \A y \in S : x <= y
<1> DEFINE R == OpToRel(<, Nat)
<1>1. IsWellFoundedOn(R, Nat)
  BY NatLessThanWellFounded
<1>2. R = {ss \in Nat \X Nat : ss[1] < ss[2]}
  BY DEF OpToRel
<1>3. PICK x \in S : \A y \in S : ~ (<<y, x>> \in R)
  <2> HIDE DEF R
  <2> QED
    BY <1>1, WFMin
<1>4. \A y \in S : ~ (y < x)
  BY <1>2, <1>3
<1> QED
  BY <1>4

\* In a sequence of rising times, those after a given time are the rest behind
\* some position.
LEMMA RestOfCalls ==
    ASSUME NEW calls \in Seq(Nat), Ordered(calls), NEW from \in Int
    PROVE  \E k \in 0 .. Len(calls) :
              /\ \A i \in 1 .. k : calls[i] <= from
              /\ \A i \in k + 1 .. Len(calls) : calls[i] > from
<1> DEFINE S == {i \in 1 .. Len(calls) : calls[i] > from}
<1>1. Len(calls) \in Nat /\ \A i \in 1 .. Len(calls) : calls[i] \in Nat
  OBVIOUS
<1>2. CASE S = {}
  <2>1. \A i \in 1 .. Len(calls) : calls[i] <= from
    BY <1>1, <1>2
  <2>2. Len(calls) \in 0 .. Len(calls) /\ Len(calls) + 1 .. Len(calls) = {}
    BY <1>1
  <2> QED
    BY <2>1, <2>2
<1>3. CASE S # {}
  <2>1. PICK m \in S : \A y \in S : m <= y
    <3>1. S \in SUBSET Nat
      OBVIOUS
    <3> HIDE DEF S
    <3> QED
      BY <1>3, <3>1, LeastMember
  <2>2. m - 1 \in 0 .. Len(calls) /\ m - 1 + 1 = m /\ m \in 1 .. Len(calls)
    BY <1>1
  <2>3. \A i \in 1 .. m - 1 : calls[i] <= from
    BY <1>1, <2>1, <2>2
  <2>4. \A i \in m .. Len(calls) : calls[i] > from
    <3> SUFFICES ASSUME NEW i \in m .. Len(calls) PROVE calls[i] > from
      OBVIOUS
    <3>1. i \in 1 .. Len(calls) /\ calls[m] <= calls[i]
      BY <1>1, <2>2 DEF Ordered
    <3>2. calls[m] > from /\ calls[m] \in Nat /\ calls[i] \in Nat
      BY <1>1, <2>2, <3>1
    <3> QED
      BY <3>1, <3>2
  <2> QED
    BY <2>2, <2>3, <2>4
<1> QED
  BY <1>2, <1>3

\* CallsAfter returns that rest.  Its recursion has a solution, the rest up to
\* each position, and no other: at the least position where one differed both
\* would follow from the same value before it.
LEMMA CallsAfterIsRest ==
    ASSUME NEW calls \in Seq(Nat), NEW from \in Int, NEW k \in 0 .. Len(calls),
           \A i \in 1 .. k : calls[i] <= from,
           \A i \in k + 1 .. Len(calls) : calls[i] > from
    PROVE  /\ CallsAfter(calls, from) \in Seq(Nat)
           /\ IsRest(CallsAfter(calls, from), calls, k)
<1> DEFINE n == Len(calls)
           Rest(i) == IF i <= k THEN <<>> ELSE [j \in 1 .. i - k |-> calls[j + k]]
           Solves(f) == f = [i \in 0 .. n |->
                                IF i = 0 THEN <<>>
                                ELSE IF calls[i] > from THEN Append(f[i - 1], calls[i])
                                                        ELSE f[i - 1]]
           g == [i \in 0 .. n |-> Rest(i)]
           kept == CHOOSE f : Solves(f)
<1>1. n \in Nat /\ k \in Nat /\ k <= n /\ \A i \in 1 .. n : calls[i] \in Nat
  OBVIOUS
<1>2. \A i \in 0 .. n : Rest(i) \in Seq(Nat) /\ Len(Rest(i)) = IF i <= k THEN 0 ELSE i - k
  <2> SUFFICES ASSUME NEW i \in 0 .. n
               PROVE  Rest(i) \in Seq(Nat) /\ Len(Rest(i)) = IF i <= k THEN 0 ELSE i - k
    OBVIOUS
  <2>1. CASE i <= k
    BY <2>1
  <2>2. CASE ~(i <= k)
    <3>1. i - k \in Nat /\ \A j \in 1 .. i - k : calls[j + k] \in Nat
      BY <1>1, <2>2
    <3>2. Rest(i) = [j \in 1 .. i - k |-> calls[j + k]]
      BY <2>2
    <3> QED
      BY <2>2, <3>1, <3>2
  <2> QED
    BY <2>1, <2>2
<1>3. \A i \in 1 .. n : Rest(i) = IF calls[i] > from THEN Append(Rest(i - 1), calls[i])
                                                     ELSE Rest(i - 1)
  <2> SUFFICES ASSUME NEW i \in 1 .. n
               PROVE  Rest(i) = IF calls[i] > from THEN Append(Rest(i - 1), calls[i])
                                                   ELSE Rest(i - 1)
    OBVIOUS
  <2>1. CASE i <= k
    BY <1>1, <2>1
  <2>2. CASE i > k
    <3>1. calls[i] > from
      BY <1>1, <2>2
    <3>2. i - 1 \in 0 .. n
      BY <1>1
    <3>3. Rest(i - 1) \in Seq(Nat) /\ Len(Rest(i - 1)) = i - 1 - k
      BY <1>1, <1>2, <2>2, <3>2
    <3>4. \A j \in 1 .. i - 1 - k : Rest(i - 1)[j] = calls[j + k]
      BY <1>1, <2>2
    <3>5. Rest(i) = [j \in 1 .. i - k |-> calls[j + k]]
      BY <1>1, <2>2
    <3>6. Append(Rest(i - 1), calls[i]) = [j \in 1 .. i - k |-> calls[j + k]]
      <4> HIDE DEF Rest
      <4>1. calls[i] \in Nat /\ i - 1 - k + 1 = i - k /\ i - k + k = i
        BY <1>1
      <4> DEFINE longer == Append(Rest(i - 1), calls[i])
      <4>2. longer \in Seq(Nat) /\ Len(longer) = i - k /\ longer[i - k] = calls[i]
        BY <3>3, <4>1
      <4>3. \A j \in 1 .. i - 1 - k : longer[j] = Rest(i - 1)[j]
        BY <3>3
      <4>4. longer = [j \in 1 .. i - k |-> longer[j]]
        <5> HIDE DEF longer
        <5> QED
          BY <4>2
      <4>5. \A j \in 1 .. i - k : longer[j] = calls[j + k]
        <5>1. \A j \in 1 .. i - k : j = i - k \/ j \in 1 .. i - 1 - k
          BY <1>1
        <5> HIDE DEF longer
        <5> QED
          BY <3>4, <4>1, <4>2, <4>3, <5>1
      <4> QED
        BY <4>4, <4>5
    <3> QED
      BY <3>1, <3>5, <3>6
  <2> QED
    BY <1>1, <2>1, <2>2
<1>4. Solves(g)
  <2> HIDE DEF Rest
  <2>1. Rest(0) = <<>>
    BY <1>1 DEF Rest
  <2>2. \A i \in 1 .. n : g[i - 1] = Rest(i - 1)
    BY <1>1
  <2> DEFINE e(i) == IF i = 0 THEN <<>>
                     ELSE IF calls[i] > from THEN Append(g[i - 1], calls[i])
                                             ELSE g[i - 1]
  <2>3. \A i \in 0 .. n : Rest(i) = e(i)
    <3> HIDE DEF g
    <3>1. \A i \in 0 .. n : i = 0 \/ i \in 1 .. n
      BY <1>1
    <3> QED
      BY <1>3, <2>1, <2>2, <3>1
  <2>4. [i \in 0 .. n |-> Rest(i)] = [i \in 0 .. n |-> e(i)]
    <3> HIDE DEF e
    <3> QED
      BY <2>3
  <2> QED
    BY <2>4
<1>5. Solves(kept)
  <2> HIDE DEF Solves, g
  <2> QED
    BY <1>4
<1>6. kept[n] = Rest(n)
  <2> DEFINE Wrong == {i \in 0 .. n : kept[i] # Rest(i)}
  <2> HIDE DEF kept, Rest
  <2> SUFFICES ASSUME Wrong # {} PROVE FALSE
    BY <1>1
  <2>1. PICK m \in Wrong : \A y \in Wrong : m <= y
    <3>1. Wrong \in SUBSET Nat
      BY <1>1
    <3> HIDE DEF Wrong
    <3> QED
      BY <3>1, LeastMember
  <2>2. Rest(0) = <<>>
    BY <1>1 DEF Rest
  <2>3. CASE m = 0
    BY <1>1, <1>5, <2>2, <2>3
  <2>4. CASE m # 0
    <3>1. m \in 1 .. n /\ m - 1 \in 0 .. n /\ m - 1 \notin Wrong
      BY <1>1, <2>1, <2>4
    <3>2. kept[m - 1] = Rest(m - 1)
      BY <3>1
    <3>3. kept[m] = IF calls[m] > from THEN Append(kept[m - 1], calls[m]) ELSE kept[m - 1]
      BY <1>5, <2>4
    <3> QED
      BY <1>3, <3>1, <3>2, <3>3
  <2> QED
    BY <2>3, <2>4
<1>7. CallsAfter(calls, from) = kept[n]
  BY DEF CallsAfter
<1>8. Rest(n) \in Seq(Nat) /\ Len(Rest(n)) = n - k
  BY <1>1, <1>2
<1>9. \A i \in 1 .. n - k : Rest(n)[i] = calls[i + k]
  BY <1>1
<1> QED
  <2> HIDE DEF Rest, kept
  <2> QED
    BY <1>6, <1>7, <1>8, <1>9 DEF IsRest

-----------------------------------------------------------------------------
(* The steps of the limiter.                                               *)

\* Looking at the history forgets only calls that are a period old.
LEMMA LookKeepsRate ==
    ASSUME RateInv, Look
    PROVE  RateInv'
<1> DEFINE from == now - Period
           n == Len(noted)
<1>0. /\ n = Len(noted) /\ n \in Nat /\ from = now - Period /\ from \in Int
      /\ MaxCalls \in Nat \ {0} /\ Period \in Nat \ {0} /\ now \in Nat
  BY PermitsAssumption DEF RateInv, TypeOK
<1>1. /\ callHistory \in Seq(Nat) /\ noted \in Seq(Nat) /\ Len(callHistory) \in Nat
      /\ \A i \in 1 .. n : noted[i] \in Nat
      /\ Len(callHistory) <= MaxCalls /\ Ordered(noted) /\ Remembered(now)
  BY DEF RateInv, TypeOK
<1> HIDE DEF n, from
<1>2. PICK k \in 0 .. n : /\ IsRest(callHistory, noted, k)
                          /\ \A i \in 1 .. k : noted[i] <= from
  BY <1>0, <1>1 DEF Remembered
<1>3. \A i \in 1 .. Len(callHistory) : i + k \in 1 .. n
  BY <1>0, <1>1, <1>2 DEF IsRest
<1>4. Ordered(callHistory)
  <2> SUFFICES ASSUME NEW i \in 1 .. Len(callHistory), NEW j \in 1 .. Len(callHistory), i <= j
               PROVE  callHistory[i] <= callHistory[j]
    BY DEF Ordered
  <2>1. i + k \in 1 .. n /\ j + k \in 1 .. n /\ i + k <= j + k
    BY <1>0, <1>3
  <2> QED
    BY <1>0, <1>1, <1>2, <2>1 DEF IsRest, Ordered
<1>5. PICK l \in 0 .. Len(callHistory) :
              /\ \A i \in 1 .. l : callHistory[i] <= from
              /\ \A i \in l + 1 .. Len(callHistory) : callHistory[i] > from
  BY <1>0, <1>1, <1>4, RestOfCalls
<1> DEFINE c == Cleaned(now)
<1>6. c \in Seq(Nat) /\ IsRest(c, callHistory, l)
  BY <1>0, <1>1, <1>5, CallsAfterIsRest DEF Cleaned
<1>7. /\ callHistory' = c /\ UNCHANGED <<now, noted, made>> /\ caller = "look"
      /\ caller' = IF Len(c) = MaxCalls THEN "sleep" ELSE "note"
  BY DEF Look
<1> HIDE DEF c
<1>8. k + l \in 0 .. n /\ Len(c) \in Nat /\ Len(c) = n - (k + l) /\ Len(c) <= MaxCalls
  BY <1>0, <1>1, <1>2, <1>5, <1>6 DEF IsRest
<1>9. IsRest(c, noted, k + l)
  <2>1. \A i \in 1 .. Len(c) : i + l \in 1 .. Len(callHistory) /\ i + l + k = i + (k + l)
    BY <1>0, <1>1, <1>2, <1>5, <1>6 DEF IsRest
  <2> QED
    BY <1>0, <1>2, <1>6, <1>8, <2>1 DEF IsRest
<1>10. \A i \in 1 .. k + l : noted[i] <= from
  <2> SUFFICES ASSUME NEW i \in 1 .. k + l PROVE noted[i] <= from
    OBVIOUS
  <2>1. CASE i <= k
    BY <1>0, <1>2, <2>1
  <2>2. CASE ~(i <= k)
    <3>1. i - k \in 1 .. l /\ i - k \in 1 .. Len(callHistory) /\ i - k + k = i
      BY <1>0, <1>5, <1>8, <2>2
    <3>2. callHistory[i - k] = noted[i]
      BY <1>0, <1>2, <3>1 DEF IsRest
    <3> QED
      BY <1>0, <1>5, <3>1, <3>2
  <2> QED
    BY <1>0, <2>1, <2>2
<1>11. Remembered(now)'
  BY <1>0, <1>7, <1>8, <1>9, <1>10 DEF Remembered
<1>12. TypeOK'
  BY <1>6, <1>7 DEF RateInv, TypeOK
<1>13. Arrived'
  BY <1>7 DEF RateInv, Arrived
<1>14. Spaced' /\ Ordered(noted)'
  BY <1>7 DEF RateInv, Spaced, Ordered
<1> QED
  BY <1>7, <1>8, <1>11, <1>12, <1>13, <1>14 DEF RateInv

\* A call is noted because there was room for it: the MaxCalls-th before it has
\* been forgotten, so is a period old.
LEMMA NoteKeepsRate ==
    ASSUME RateInv, Note
    PROVE  RateInv'
<1> DEFINE n == Len(noted)
           c == callHistory
<1>0. /\ n = Len(noted) /\ n \in Nat /\ MaxCalls \in Nat \ {0} /\ Period \in Nat \ {0}
      /\ now \in Nat /\ c = callHistory /\ c \in Seq(Nat) /\ Len(c) \in Nat
      /\ Len(c) <= MaxCalls /\ Len(c) # MaxCalls
      /\ noted \in Seq(Nat) /\ \A i \in 1 .. n : noted[i] \in Nat /\ noted[i] <= now
  BY PermitsAssumption DEF RateInv, TypeOK, Note
<1>1. /\ caller = "note" /\ caller' = "send" /\ UNCHANGED <<now, made>>
      /\ callHistory' = Append(c, now) /\ noted' = Append(noted, now)
  BY DEF Note
<1> HIDE DEF n, c
<1>2. PICK k \in 0 .. n : /\ IsRest(c, noted, k)
                          /\ \A i \in 1 .. k : noted[i] <= now - Period
  BY <1>0 DEF RateInv, Remembered
<1>3. k \in Nat /\ k <= n /\ Len(c) = n - k
  BY <1>0, <1>2 DEF IsRest
<1>4. /\ noted' \in Seq(Nat) /\ Len(noted') = n + 1 /\ noted'[n + 1] = now
      /\ \A i \in 1 .. n : noted'[i] = noted[i]
  BY <1>0, <1>1
<1>5. /\ callHistory' \in Seq(Nat) /\ Len(callHistory') = Len(c) + 1
      /\ callHistory'[Len(c) + 1] = now
      /\ \A i \in 1 .. Len(c) : callHistory'[i] = c[i]
  BY <1>0, <1>1
<1>6. \A i \in 1 .. n + 1 : i \in 1 .. n \/ i = n + 1
  BY <1>0
<1>7. TypeOK'
  BY <1>1, <1>4, <1>5 DEF RateInv, TypeOK
<1>8. \A i \in 1 .. Len(noted') : noted'[i] <= now'
  BY <1>0, <1>1, <1>4, <1>6
<1>9. Ordered(noted)'
  <2> SUFFICES ASSUME NEW i \in 1 .. n + 1, NEW j \in 1 .. n + 1, i <= j
               PROVE  noted'[i] <= noted'[j]
    BY <1>0, <1>4 DEF Ordered
  <2>1. CASE j = n + 1
    BY <1>0, <1>1, <1>4, <1>8, <2>1
  <2>2. CASE j # n + 1
    <3>1. i \in 1 .. n /\ j \in 1 .. n
      BY <1>0, <2>2
    <3> QED
      BY <1>0, <1>4, <3>1 DEF RateInv, Ordered
  <2> QED
    BY <2>1, <2>2
<1>10. Remembered(now)'
  <2>1. k \in 0 .. Len(noted') /\ Len(callHistory') = Len(noted') - k
    BY <1>0, <1>3, <1>4, <1>5
  <2>2. \A i \in 1 .. k : noted'[i] <= now' - Period
    <3>1. \A i \in 1 .. k : i \in 1 .. n
      BY <1>0, <1>3
    <3> QED
      BY <1>1, <1>2, <1>4, <3>1
  <2>3. ASSUME NEW i \in 1 .. Len(callHistory')
        PROVE  callHistory'[i] = noted'[i + k]
    <3>1. CASE i = Len(c) + 1
      <4>1. i + k = n + 1
        BY <1>0, <1>3, <3>1
      <4> QED
        BY <1>4, <1>5, <3>1, <4>1
    <3>2. CASE i # Len(c) + 1
      <4>1. i \in 1 .. Len(c)
        BY <1>0, <1>5, <3>2
      <4>2. i + k \in 1 .. n
        BY <1>0, <1>3, <4>1
      <4> QED
        BY <1>2, <1>4, <1>5, <4>1, <4>2 DEF IsRest
    <3> QED
      BY <3>1, <3>2
  <2> QED
    BY <2>1, <2>2, <2>3 DEF Remembered, IsRest
<1>11. Spaced'
  <2> SUFFICES ASSUME NEW i \in 1 .. n + 1, i + MaxCalls <= n + 1
               PROVE  noted'[i] + Period <= noted'[i + MaxCalls]
    BY <1>0, <1>4 DEF Spaced
  <2>0. n \in Nat /\ MaxCalls \in Nat /\ MaxCalls > 0
    BY <1>0
  <2>4. i \in 1 .. n /\ i + MaxCalls \in 1 .. n + 1
    BY <2>0
  <2>1. i \in 1 .. n /\ i + MaxCalls \in 1 .. n + 1 /\ noted'[i] = noted[i]
    BY <1>4, <2>4
  <2>2. CASE i + MaxCalls = n + 1
    <3>1. i \in 1 .. k
      BY <1>0, <1>3, <2>2
    <3>2. noted[i] <= now - Period /\ noted[i] \in Nat /\ noted'[i + MaxCalls] = now
      BY <1>0, <1>2, <1>4, <2>1, <2>2, <3>1
    <3> QED
      BY <1>0, <2>1, <3>2
  <2>3. CASE i + MaxCalls # n + 1
    <3>1. i + MaxCalls \in 1 .. n
      BY <2>0, <2>3, <2>4
    <3> QED
      BY <1>0, <1>4, <2>1, <3>1 DEF RateInv, Spaced
  <2> QED
    BY <2>2, <2>3
<1>12. Arrived'
  <2>1. /\ Len(made) = n /\ \A i \in 1 .. n : noted[i] <= made[i] /\ made[i] <= now
        /\ \A i \in 1 .. n : i + 1 <= n => made[i] <= noted[i + 1]
    BY <1>0, <1>1 DEF RateInv, Arrived
  <2>2. n \in Nat
    BY <1>0
  <2>3. ASSUME NEW i \in 1 .. n PROVE made[i] <= noted'[i + 1]
    <3>1. CASE i = n
      BY <1>4, <2>1, <3>1
    <3>2. CASE i # n
      <4>1. i + 1 \in 1 .. n /\ i + 1 <= n
        BY <2>2, <3>2
      <4> QED
        BY <1>4, <2>1, <4>1
    <3> QED
      BY <3>1, <3>2
  <2> QED
    BY <1>0, <1>1, <1>4, <2>1, <2>3 DEF Arrived
<1>13. Len(callHistory') <= MaxCalls
  BY <1>0, <1>5
<1> QED
  BY <1>1, <1>7, <1>8, <1>9, <1>10, <1>11, <1>12, <1>13 DEF RateInv

\* The request arrives, no earlier than its call was noted.
LEMMA SendKeepsRate ==
    ASSUME RateInv, Send
    PROVE  RateInv'
<1>1. /\ made \in Seq(Nat) /\ now \in Nat /\ Len(made) \in Nat
      /\ caller = "send" /\ caller' = "idle" /\ UNCHANGED <<now, callHistory, noted>>
      /\ made' = Append(made, now)
  BY DEF RateInv, TypeOK, Send
<1>2. /\ made' \in Seq(Nat) /\ Len(made') = Len(made) + 1 /\ made'[Len(made) + 1] = now
      /\ \A i \in 1 .. Len(made) : made'[i] = made[i]
  BY <1>1
<1>3. /\ Len(noted) = Len(made) + 1 /\ noted[Len(made) + 1] <= now
  BY <1>1 DEF RateInv, Arrived
<1>4. \A i \in 1 .. Len(made') : i \in 1 .. Len(made) \/ i = Len(made) + 1
  BY <1>1, <1>2
<1>5. Arrived'
  <2>1. Len(noted') = Len(made')
    BY <1>1, <1>2, <1>3
  <2>2. \A i \in 1 .. Len(made') : noted'[i] <= made'[i] /\ made'[i] <= now'
    BY <1>1, <1>2, <1>3, <1>4 DEF RateInv, Arrived
  <2>3. \A i \in 1 .. Len(made') : i + 1 <= Len(noted') => made'[i] <= noted'[i + 1]
    <3>1. \A i \in 1 .. Len(made') : i + 1 <= Len(noted') => i \in 1 .. Len(made)
      BY <1>1, <1>2, <1>3, <2>1
    <3> QED
      BY <1>1, <1>2, <3>1 DEF RateInv, Arrived
  <2> QED
    BY <1>1, <2>1, <2>2, <2>3 DEF Arrived
<1> QED
  BY <1>1, <1>2, <1>5 DEF RateInv, TypeOK, Remembered, IsRest, Spaced, Ordered

LEMMA RateInit == PermitsInit => RateInv
<1> SUFFICES ASSUME PermitsInit PROVE RateInv
  OBVIOUS
<1>1. now = 0 /\ callHistory = <<>> /\ noted = <<>> /\ made = <<>> /\ caller = "idle"
  BY DEF PermitsInit
<1>2. Remembered(now)
  <2>1. 0 \in 0 .. Len(noted)
    BY <1>1
  <2> QED
    BY <1>1, <2>1 DEF Remembered, IsRest
<1> QED
  BY <1>1, <1>2, PermitsAssumption DEF RateInv, TypeOK, Ordered, Spaced, Arrived

LEMMA RateStep == RateInv /\ [PermitsNext]_permitVars => RateInv'
<1> SUFFICES ASSUME RateInv, [PermitsNext]_permitVars
             PROVE  RateInv'
  OBVIOUS
<1>1. now \in Nat /\ Period \in Nat
  BY PermitsAssumption DEF RateInv, TypeOK
<1>2. ASSUME UNCHANGED <<callHistory, noted, made>>, now' \in Nat, now <= now',
             caller' \in {"idle", "look", "sleep", "note", "send"},
             (caller = "send") = (caller' = "send"), caller' = "note" => caller = "note"
      PROVE  RateInv'
  <2>1. /\ \A i \in 1 .. Len(noted) : noted[i] \in Nat
        /\ \A i \in 1 .. Len(made) : made[i] \in Nat
    BY DEF RateInv, TypeOK
  <2>2. Remembered(now)'
    <3>1. PICK k \in 0 .. Len(noted) : /\ IsRest(callHistory, noted, k)
                                       /\ \A i \in 1 .. k : noted[i] <= now - Period
      BY DEF RateInv, Remembered
    <3>2. \A i \in 1 .. k : i \in 1 .. Len(noted)
      BY <3>1
    <3>3. \A i \in 1 .. k : noted[i] <= now' - Period
      BY <1>1, <1>2, <2>1, <3>1, <3>2
    <3> QED
      BY <1>2, <3>1, <3>3 DEF Remembered, IsRest
  <2>3. \A i \in 1 .. Len(noted) : noted[i] <= now'
    BY <1>1, <1>2, <2>1 DEF RateInv
  <2>4. Arrived'
    <3>1. \A i \in 1 .. Len(made) : made[i] <= now'
      BY <1>1, <1>2, <2>1 DEF RateInv, Arrived
    <3> QED
      BY <1>2, <3>1 DEF RateInv, Arrived
  <2> QED
    BY <1>2, <2>2, <2>3, <2>4 DEF RateInv, TypeOK, Ordered, Spaced
<1>3. CASE Tick
  BY <1>1, <1>2, <1>3 DEF Tick, limiter, RateInv, TypeOK
<1>4. CASE Call
  BY <1>1, <1>2, <1>4 DEF Call
<1>5. CASE Look
  BY <1>5, LookKeepsRate
<1>6. CASE Sleep
  <2>1. PICK wake \in now .. Horizon : now' = wake
    BY <1>6 DEF Sleep
  <2>2. now' \in Nat /\ now <= now'
    BY <1>1, <2>1, PermitsAssumption
  <2> QED
    BY <1>2, <1>6, <2>2 DEF Sleep
<1>7. CASE Note
  BY <1>7, NoteKeepsRate
<1>8. CASE Send
  BY <1>8, SendKeepsRate
<1>9. CASE UNCHANGED <<now, callHistory, caller, noted, made>>
  BY <1>1, <1>2, <1>9 DEF RateInv, TypeOK
<1> QED
  BY <1>3, <1>4, <1>5, <1>6, <1>7, <1>8, <1>9
  DEF PermitsNext, LimiterNext, OAuthNext, permitVars, limiter, ReadToken,
      KeepToken, Refresh, RefreshRejected, StoreToken

\* Times each of which is a period before the n-th after it: at most n of them
\* lie within a period.
LEMMA SpacedIsMostWithin ==
    ASSUME NEW times \in Seq(Nat), NEW n \in Nat \ {0},
           \A i, j \in 1 .. Len(times) : i + n <= j => times[i] + Period <= times[j]
    PROVE  MostWithin(times, n)
<1> SUFFICES ASSUME NEW i \in 1 .. Len(times)
             PROVE  Cardinality({j \in i .. Len(times) : times[j] < times[i] + Period}) <= n
  BY DEF MostWithin
<1> DEFINE S == {j \in i .. Len(times) : times[j] < times[i] + Period}
<1>1. /\ Len(times) \in Nat /\ Period \in Nat /\ i \in Nat
      /\ \A j \in 1 .. Len(times) : times[j] \in Nat
  BY PermitsAssumption
<1>2. S \subseteq i .. i + n - 1
  <2> SUFFICES ASSUME NEW j \in S, j >= i + n PROVE FALSE
    BY <1>1
  <2>1. j \in 1 .. Len(times) /\ i + n <= j
    BY <1>1
  <2>2. times[i] + Period <= times[j] /\ times[i] \in Nat /\ times[j] \in Nat
    BY <1>1, <2>1
  <2>3. times[j] < times[i] + Period
    OBVIOUS
  <2> QED
    BY <1>1, <2>2, <2>3
<1>3. IsFiniteSet(i .. i + n - 1) /\ Cardinality(i .. i + n - 1) = n
  <2> DEFINE b == i + n - 1
  <2>1. b \in Int /\ i \in Int /\ ~(i > b) /\ b - i + 1 = n
    BY <1>1
  <2> HIDE DEF b
  <2>2. IsFiniteSet(i .. b) /\ Cardinality(i .. b) = n
    BY <2>1, FS_Interval
  <2> QED
    BY <2>2 DEF b
<1> HIDE DEF S
<1>4. Cardinality(S) <= Cardinality(i .. i + n - 1)
  BY <1>2, <1>3, FS_Subset
<1> QED
  BY <1>3, <1>4 DEF S

\* However long the pauses, however old the history and however slow the requests,
\* the limiter lets MaxCalls calls go in a period and the service gets no more
\* than one request beyond that in any (_base/rate_limit.py).
THEOREM RateIsNeverExceeded == PermitsSpec => []RateIsHeld
<1>1. RateInv => RateIsHeld
  <2> SUFFICES ASSUME RateInv PROVE RateIsHeld
    OBVIOUS
  <2>1. /\ noted \in Seq(Nat) /\ made \in Seq(Nat) /\ Len(made) <= Len(noted)
        /\ Len(made) \in Nat /\ Len(noted) \in Nat /\ Period \in Nat
        /\ MaxCalls \in Nat \ {0}
        /\ \A i \in 1 .. Len(noted) : noted[i] \in Nat
        /\ \A i \in 1 .. Len(made) : made[i] \in Nat
    <3>1. noted \in Seq(Nat) /\ made \in Seq(Nat) /\ Len(made) \in Nat /\ Len(noted) \in Nat
      BY DEF RateInv, TypeOK
    <3>2. Len(made) <= Len(noted)
      BY <3>1 DEF RateInv, Arrived
    <3>3. /\ \A i \in 1 .. Len(noted) : noted[i] \in Nat
          /\ \A i \in 1 .. Len(made) : made[i] \in Nat
      BY <3>1
    <3> QED
      BY <3>1, <3>2, <3>3, PermitsAssumption
  <2>2. ASSUME NEW i \in 1 .. Len(noted), NEW j \in 1 .. Len(noted), i + MaxCalls <= j
        PROVE  noted[i] + Period <= noted[j]
    <3>1. i + MaxCalls \in 1 .. Len(noted)
      BY <2>1, <2>2
    <3>2. noted[i] + Period <= noted[i + MaxCalls] /\ noted[i + MaxCalls] <= noted[j]
      BY <2>1, <2>2, <3>1 DEF RateInv, Spaced, Ordered
    <3> QED
      BY <2>1, <3>1, <3>2
  <2>3. ASSUME NEW i \in 1 .. Len(made), NEW j \in 1 .. Len(made), i + (MaxCalls + 1) <= j
        PROVE  made[i] + Period <= made[j]
    <3>1. i + 1 \in 1 .. Len(noted) /\ j \in 1 .. Len(noted) /\ i + 1 + MaxCalls <= j
      BY <2>1, <2>3
    <3>2. noted[i + 1] + Period <= noted[j]
      BY <2>2, <3>1
    <3>3. made[i] <= noted[i + 1] /\ noted[j] <= made[j]
      BY <2>1, <3>1 DEF RateInv, Arrived
    <3>4. made[i] \in Nat /\ made[j] \in Nat /\ noted[i + 1] \in Nat /\ noted[j] \in Nat
          /\ Period \in Nat
      BY <2>1, <3>1
    <3> QED
      BY <3>2, <3>3, <3>4
  <2>4. MostWithin(noted, MaxCalls)
    BY <2>1, <2>2, SpacedIsMostWithin
  <2>5. MostWithin(made, MaxCalls + 1)
    <3>1. MaxCalls + 1 \in Nat \ {0}
      BY <2>1
    <3> QED
      BY <2>1, <2>3, <3>1, SpacedIsMostWithin
  <2> QED
    BY <2>4, <2>5 DEF RateIsHeld
<1> QED
  BY <1>1, RateInit, RateStep, PTL DEF PermitsSpec

-----------------------------------------------------------------------------
(* The steps of the processes.                                             *)

LEMMA TokenInit == PermitsInit => TokenInv
  BY PermitsAssumption
  DEF PermitsInit, TokenInv, TokensTyped, OneHolder, OneToken, Nothing, Tokens

LEMMA TokenStep == TokenInv /\ [PermitsNext]_permitVars => TokenInv'
<1> SUFFICES ASSUME TokenInv, [PermitsNext]_permitVars
             PROVE  TokenInv'
  OBVIOUS
<1>1. /\ now \in Nat /\ rotates \in BOOLEAN /\ valid \in Nat \ {0}
      /\ stored.refresh \in Nat /\ stored.expires \in Nat
      /\ \A p \in Processes : held[p] \in Tokens
      /\ held \in [Processes -> Tokens]
      /\ Lifetime \in Nat /\ Horizon \in Nat
  BY PermitsAssumption DEF TokenInv, TokensTyped
<1>2. \A p \in Processes : held[p].state \in {"none", "read", "fresh"} /\ held[p].refresh \in Nat
                           /\ held[p].expires \in Nat
  BY <1>1 DEF Tokens
<1>3. Nothing \in Tokens
  BY DEF Nothing, Tokens
<1>4. ASSUME UNCHANGED <<rotates, valid, stored, held>>, now' \in Nat
      PROVE  TokenInv'
  BY <1>4 DEF TokenInv, TokensTyped, OneHolder, OneToken
<1>5. CASE Tick
  BY <1>1, <1>4, <1>5 DEF Tick, oauth
<1>6. CASE Call \/ Look \/ Note \/ Send
  BY <1>1, <1>4, <1>6 DEF Call, Look, Note, Send, oauth
<1>7. CASE Sleep
  BY <1>1, <1>4, <1>7 DEF Sleep, oauth
<1>8. ASSUME NEW p \in Processes, ReadToken(p)
      PROVE  TokenInv'
  <2> DEFINE t == [state |-> "read", refresh |-> stored.refresh, expires |-> stored.expires]
  <2>1. t \in Tokens /\ held' = [held EXCEPT ![p] = t] /\ UNCHANGED <<now, rotates, valid, stored>>
    BY <1>1, <1>8 DEF ReadToken, Tokens
  <2>2. TokensTyped'
    BY <1>1, <2>1 DEF TokenInv, TokensTyped
  <2>3. \A q \in Processes : held'[q] = IF q = p THEN t ELSE held[q]
    BY <1>1, <2>1
  <2>4. rotates => stored.refresh <= valid
    BY <1>1 DEF TokenInv, OneHolder
  <2>5. CASE rotates
    <3>1. OneHolder /\ held[p].state = "none"
      BY <1>8, <2>5 DEF TokenInv, ReadToken
    <3>2. /\ held'[p].state = "read" /\ held'[p].refresh = stored.refresh
          /\ \A q \in Processes : q # p => held'[q] = held[q]
          /\ stored' = stored /\ valid' = valid
      BY <2>1, <2>3
    <3>3. \A q \in Processes : held'[q].state # "none" => held'[q].refresh <= valid'
      BY <2>4, <2>5, <3>1, <3>2 DEF OneHolder
    <3>4. (\A q \in Processes : held'[q].state # "fresh") => stored'.refresh = valid'
      BY <3>1, <3>2 DEF OneHolder
    <3>5. ASSUME NEW a \in Processes, NEW q \in Processes, held'[a].state = "fresh"
          PROVE  /\ held'[a].refresh = valid' /\ stored'.refresh < valid'
                 /\ q # a => held'[q].state = "none" \/ held'[q].refresh < valid'
      <4>1. a # p /\ held[a].state = "fresh"
        BY <3>2, <3>5
      <4> QED
        BY <3>1, <3>2, <4>1 DEF OneHolder
    <3>6. OneHolder'
      BY <3>3, <3>4, <3>5 DEF OneHolder
    <3> QED
      BY <2>1, <2>2, <2>5, <3>6 DEF TokenInv
  <2>6. CASE ~rotates
    <3>1. OneToken'
      BY <1>1, <2>1, <2>3, <2>6 DEF TokenInv, OneToken
    <3> QED
      BY <2>1, <2>2, <2>6, <3>1 DEF TokenInv
  <2> QED
    BY <2>5, <2>6
<1>9. ASSUME NEW p \in Processes, KeepToken(p) \/ RefreshRejected(p)
      PROVE  TokenInv'
  <2>1. held' = [held EXCEPT ![p] = Nothing] /\ UNCHANGED <<now, rotates, valid, stored>>
        /\ held[p].state = "read"
    BY <1>9 DEF KeepToken, RefreshRejected
  <2>2. TokensTyped'
    BY <1>1, <1>3, <2>1 DEF TokenInv, TokensTyped
  <2>3. \A q \in Processes : held'[q] = IF q = p THEN Nothing ELSE held[q]
    BY <1>1, <2>1
  <2> QED
    BY <1>1, <1>2, <2>1, <2>2, <2>3 DEF TokenInv, OneHolder, OneToken, Nothing
<1>10. ASSUME NEW p \in Processes, Refresh(p)
       PROVE  TokenInv'
  <2> DEFINE r == IF rotates THEN valid + 1 ELSE held[p].refresh
             t == [state |-> "fresh", expires |-> now + Lifetime, refresh |-> r]
  <2>1. /\ held[p].state = "read" /\ held[p].refresh = valid
        /\ valid' = (IF rotates THEN valid + 1 ELSE valid)
        /\ held' = [held EXCEPT ![p] = t] /\ t \in Tokens
        /\ UNCHANGED <<now, rotates, stored>>
    <3>1. /\ held[p].state = "read" /\ held[p].refresh = valid
          /\ valid' = (IF rotates THEN valid + 1 ELSE valid)
          /\ UNCHANGED <<now, rotates, stored>>
      BY <1>10 DEF Refresh
    <3>2. valid' # 0
      BY <1>1, <3>1
    <3>3. TokensFrom(IF rotates THEN valid' ELSE 0, held[p].refresh) = r
      BY <1>1, <3>1, <3>2 DEF TokensFrom
    <3>4. held' = [held EXCEPT ![p] = t]
      BY <1>10, <3>3 DEF Refresh
    <3>5. r \in Nat /\ now + Lifetime \in Nat
      BY <1>1, <1>2
    <3>6. t \in Tokens
      BY <3>5 DEF Tokens
    <3> QED
      BY <3>1, <3>4, <3>6
  <2>2. TokensTyped'
    BY <1>1, <2>1 DEF TokenInv, TokensTyped
  <2>3. \A q \in Processes : held'[q] = IF q = p THEN t ELSE held[q]
    BY <1>1, <2>1
  <2> QED
    BY <1>1, <1>2, <2>1, <2>2, <2>3 DEF TokenInv, OneHolder, OneToken
<1>11. ASSUME NEW p \in Processes, StoreToken(p)
       PROVE  TokenInv'
  <2>1. /\ held' = [held EXCEPT ![p] = Nothing] /\ UNCHANGED <<now, rotates, valid>>
        /\ held[p].state = "fresh" /\ stored' = [refresh |-> held[p].refresh, expires |-> held[p].expires]
    BY <1>11 DEF StoreToken
  <2>2. TokensTyped'
    BY <1>1, <1>2, <1>3, <2>1 DEF TokenInv, TokensTyped
  <2>3. \A q \in Processes : held'[q] = IF q = p THEN Nothing ELSE held[q]
    BY <1>1, <2>1
  <2> QED
    BY <1>1, <1>2, <2>1, <2>2, <2>3 DEF TokenInv, OneHolder, OneToken, Nothing
<1>12. CASE UNCHANGED permitVars
  BY <1>1, <1>4, <1>12 DEF permitVars
<1> QED
  BY <1>5, <1>6, <1>7, <1>8, <1>9, <1>10, <1>11, <1>12
  DEF PermitsNext, LimiterNext, OAuthNext

\* However many processes refresh at once, the storage holds a token that the
\* provider accepts, or a process is about to put it there (chunkshop/oauth).
THEOREM StoredTokensAreValid == PermitsSpec => []StoredTokenIsValid
<1>1. TokenInv => StoredTokenIsValid
  BY DEF TokenInv, OneHolder, OneToken, StoredTokenIsValid
<1> QED
  BY <1>1, TokenInit, TokenStep, PTL DEF PermitsSpec
=============================================================================
