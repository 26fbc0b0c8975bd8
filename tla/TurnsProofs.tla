---------------------------- MODULE TurnsProofs ----------------------------
(***************************************************************************)
(* Theorems of a run's turns, for every set of responses, scripts and      *)
(* reports, every size of the prompt's parts and of a secret, any number   *)
(* of turns and of crashes: what a record holds after masking, what a      *)
(* recorded line of Jev's was answered with, and what a model has emitted. *)
(***************************************************************************)
EXTENDS Turns, WellFoundedInduction, FiniteSetTheorems, TLAPS

----------------------------------------------------------------------------
(* Least and greatest numbers.                                             *)

\* A set of numbers has a least one.
LEMMA LeastNumber ==
  ASSUME NEW T \in SUBSET Nat, T # {}
  PROVE  \E i \in T : \A j \in T : i <= j
<1> DEFINE Less == {p \in Nat \X Nat : p[1] < p[2]}
<1>1. IsWellFoundedOn(Less, Nat)
  BY NatLessThanWellFounded DEF OpToRel
<1>2. PICK i \in T : \A j \in T : ~(<<j, i>> \in Less)
  <2> HIDE DEF Less
  <2> QED
    BY <1>1, WFMin
<1>3. ASSUME NEW j \in T
      PROVE  i <= j
  <2>1. i \in Nat /\ j \in Nat
    OBVIOUS
  <2>2. <<j, i>> \in Nat \X Nat /\ <<j, i>>[1] = j /\ <<j, i>>[2] = i
    BY <2>1
  <2>3. ~(j < i)
    BY <1>2, <2>2
  <2> QED
    BY <2>1, <2>3
<1> QED
  BY <1>3

LEMMA MinOf ==
  ASSUME NEW T \in SUBSET Nat, T # {}
  PROVE  Min(T) \in T /\ \A j \in T : Min(T) <= j
<1>1. \E i \in T : \A j \in T : i =< j
  BY LeastNumber
<1> QED
  BY <1>1 DEF Min

LEMMA MaxOf ==
  ASSUME NEW T, NEW b \in Nat, T \subseteq 0..b, T # {}
  PROVE  Max(T) \in T /\ \A j \in T : j <= Max(T)
<1> DEFINE U == {n \in 0..b : b - n \in T}
<1>1. U \in SUBSET Nat
  OBVIOUS
<1>2. U # {}
  <2>1. PICK j \in T : TRUE
    OBVIOUS
  <2>2. j \in 0..b
    OBVIOUS
  <2>3. b - j \in 0..b /\ b - (b - j) = j
    BY <2>2
  <2> QED
    BY <2>3
<1>3. PICK n \in U : \A m \in U : n <= m
  BY <1>1, <1>2, LeastNumber
<1>4. ASSUME NEW j \in T
      PROVE  j <= b - n
  <2>1. j \in 0..b
    OBVIOUS
  <2>2. b - j \in 0..b /\ b - (b - j) = j
    BY <2>1
  <2>3. b - j \in U
    BY <2>2
  <2>4. n <= b - j
    BY <1>3, <2>3
  <2> QED
    BY <2>1, <2>4
<1>5. \E i \in T : \A j \in T : i >= j
  <2>1. b - n \in T /\ n \in 0..b
    OBVIOUS
  <2>2. \A j \in T : j \in 0..b
    OBVIOUS
  <2> QED
    BY <1>4, <2>1, <2>2
<1>6. Max(T) \in T /\ \A j \in T : Max(T) >= j
  BY <1>5 DEF Max
<1>7. \A j \in T : j \in 0..b
  OBVIOUS
<1> QED
  BY <1>6, <1>7

----------------------------------------------------------------------------
(* The matchers of a report.                                               *)

LEMMA RunEndOf ==
  ASSUME NEW input \in Seq(Cell), NEW from \in 1..(Len(input) + 1), NEW class
  PROVE  /\ RunEnd(input, from, class) \in from..(Len(input) + 1)
         /\ \A n \in from..(RunEnd(input, from, class) - 1) : input[n] \in class
         /\ RunEnd(input, from, class) # Len(input) + 1 =>
              input[RunEnd(input, from, class)] \notin class
<1> DEFINE S == {n \in from..(Len(input) + 1) :
                   n = Len(input) + 1 \/ input[n] \notin class}
<1>1. S \in SUBSET Nat
  OBVIOUS
<1>2. Len(input) + 1 \in S
  OBVIOUS
<1>3. Min(S) \in S /\ \A j \in S : Min(S) <= j
  BY <1>1, <1>2, MinOf
<1>4. RunEnd(input, from, class) = Min(S)
  BY DEF RunEnd
<1> DEFINE e == Min(S)
<1>5. e \in from..(Len(input) + 1)
  BY <1>3
<1>6. e # Len(input) + 1 => input[e] \notin class
  BY <1>3
<1>7. ASSUME NEW n \in from..(e - 1)
      PROVE  input[n] \in class
  <2>1. n \in from..(Len(input) + 1) /\ n # Len(input) + 1 /\ ~(e <= n)
    BY <1>5
  <2>2. n \notin S
    BY <1>3, <2>1
  <2> QED
    BY <2>1, <2>2
<1> HIDE DEF e
<1> QED
  BY <1>4, <1>5, <1>6, <1>7 DEF e

\* A run of a class that long is found.
LEMMA RunFound ==
  ASSUME NEW input \in Seq(Cell), NEW from \in 1..(Len(input) + 1), NEW class,
         NEW m \in Nat, from + m <= Len(input) + 1,
         \A n \in from..(from + m - 1) : input[n] \in class
  PROVE  RunEnd(input, from, class) >= from + m
<1> DEFINE e == RunEnd(input, from, class)
<1>1. e \in from..(Len(input) + 1)
  BY RunEndOf
<1>2. e # Len(input) + 1 => input[e] \notin class
  BY RunEndOf
<1> HIDE DEF e
<1>3. ASSUME e < from + m
      PROVE  FALSE
  <2>1. e \in from..(from + m - 1) /\ e # Len(input) + 1
    BY <1>1, <1>3
  <2> QED
    BY <1>2, <2>1
<1>4. e >= from + m
  BY <1>1, <1>3
<1> QED
  BY <1>4 DEF e

\* A pair of numbers has a smaller one.
LEMMA MinPair ==
  ASSUME NEW a \in Nat, NEW b \in Nat
  PROVE  /\ Min({a, b}) \in {a, b}
         /\ Min({a, b}) <= a
         /\ Min({a, b}) <= b
<1>1. {a, b} \in SUBSET Nat /\ {a, b} # {} /\ a \in {a, b} /\ b \in {a, b}
  OBVIOUS
<1> QED
  BY <1>1, MinOf

\* A token and an access key are matched wherever they are.
LEMMA SecretMatched ==
  ASSUME NEW input \in Seq(Cell), NEW at \in DOMAIN input,
         \/ input[at] = "k" /\ Stretch(input, at, TokenMin, TokenChar)
         \/ input[at] = "K" /\ Stretch(input, at, AkiaTail, Alnum)
  PROVE  MatchSecret(input, at) > 0
<1>0. at \in 1..Len(input) /\ at + 1 \in 1..(Len(input) + 1)
  OBVIOUS
<1>1. CASE input[at] = "k" /\ Stretch(input, at, TokenMin, TokenChar)
  <2> DEFINE e == RunEnd(input, at + 1, TokenChar)
             t == Min({e - (at + 1), TokenCap})
  <2>1. TokenMin \in Nat \ {0} /\ TokenCap \in Nat /\ TokenMin <= TokenCap
    BY MaskingAssumption
  <2>2. e \in (at + 1)..(Len(input) + 1)
    BY <1>0, RunEndOf
  <2>3. \A n \in (at + 1)..(at + 1 + TokenMin - 1) : input[n] \in TokenChar
    <3> SUFFICES ASSUME NEW n \in (at + 1)..(at + 1 + TokenMin - 1)
                 PROVE  input[n] \in TokenChar
      OBVIOUS
    <3>1. n - at \in 1..TokenMin /\ at + (n - at) = n
      BY <1>0, <2>1
    <3> QED
      BY <1>1, <3>1 DEF Stretch
  <2>4. at + 1 + TokenMin <= Len(input) + 1
    BY <1>0, <1>1, <2>1 DEF Stretch
  <2>5. e >= at + 1 + TokenMin
    BY <1>0, <2>1, <2>3, <2>4, RunFound
  <2>6. e - (at + 1) \in Nat /\ e - (at + 1) >= TokenMin
    BY <1>0, <2>1, <2>2, <2>5
  <2>7. t \in {e - (at + 1), TokenCap}
    BY <2>1, <2>6, MinPair
  <2> HIDE DEF e
  <2>8. t \in Nat /\ t >= TokenMin
    BY <2>1, <2>6, <2>7
  <2>9. MatchToken(input, at) = IF t >= TokenMin THEN 1 + t ELSE 0
    BY DEF MatchToken, e
  <2> HIDE DEF t
  <2>10. MatchToken(input, at) > 0
    BY <2>8, <2>9
  <2> QED
    BY <1>1, <2>10 DEF MatchSecret
<1>2. CASE input[at] = "K" /\ Stretch(input, at, AkiaTail, Alnum)
  <2>1. AkiaTail \in Nat \ {0}
    BY MaskingAssumption
  <2>2. \A n \in (at + 1)..(at + 1 + AkiaTail - 1) : input[n] \in Alnum
    <3> SUFFICES ASSUME NEW n \in (at + 1)..(at + 1 + AkiaTail - 1)
                 PROVE  input[n] \in Alnum
      OBVIOUS
    <3>1. n - at \in 1..AkiaTail /\ at + (n - at) = n
      BY <1>0, <2>1
    <3> QED
      BY <1>2, <3>1 DEF Stretch
  <2>3. at + 1 + AkiaTail <= Len(input) + 1
    BY <1>0, <1>2, <2>1 DEF Stretch
  <2>4. RunEnd(input, at + 1, Alnum) >= at + 1 + AkiaTail
    BY <1>0, <2>1, <2>2, <2>3, RunFound
  <2>5. RunEnd(input, at + 1, Alnum) \in Nat
    BY <1>0, RunEndOf
  <2>6. RunEnd(input, at + 1, Alnum) > at + AkiaTail
    BY <1>0, <2>1, <2>4, <2>5
  <2>7. MatchAkia(input, at) = 1 + AkiaTail
    BY <2>6 DEF MatchAkia
  <2> QED
    BY <1>2, <2>1, <2>7 DEF MatchSecret
<1> QED
  BY <1>1, <1>2

\* What a matcher takes is a number of cells.
LEMMA SecretSpan ==
  ASSUME NEW input \in Seq(Cell), NEW at \in DOMAIN input
  PROVE  MatchSecret(input, at) \in Nat
<1>0. at \in 1..Len(input) /\ at + 1 \in 1..(Len(input) + 1) /\ Len(input) \in Nat
  OBVIOUS
<1>1. MatchToken(input, at) \in Nat
  <2> DEFINE e == RunEnd(input, at + 1, TokenChar)
             t == Min({e - (at + 1), TokenCap})
  <2>1. e \in (at + 1)..(Len(input) + 1)
    BY <1>0, RunEndOf
  <2>2. TokenCap \in Nat /\ e - (at + 1) \in Nat
    BY <1>0, <2>1, MaskingAssumption
  <2>3. t \in {e - (at + 1), TokenCap}
    BY <2>2, MinPair
  <2>4. t \in Nat
    BY <2>2, <2>3
  <2> HIDE DEF t
  <2>5. MatchToken(input, at) = IF t >= TokenMin THEN 1 + t ELSE 0
    BY DEF MatchToken, t
  <2> QED
    BY <2>4, <2>5
<1>2. MatchAkia(input, at) \in Nat
  BY MaskingAssumption DEF MatchAkia
<1>3. MatchPem(input, at) \in Nat
  <2> DEFINE ends == {n \in (at + 1)..Len(input) :
                        input[n] = "END" /\ n - at < PemWindow}
             line == RunEnd(input, Min(ends), Cell \ {"newline"})
             stop == Min({line, Len(input)})
  <2>1. MatchPem(input, at) = IF ends = {} THEN 0 ELSE stop - at + 1
    BY DEF MatchPem
  <2>2. CASE ends # {}
    <3>1. ends \in SUBSET Nat
      BY <1>0
    <3>2. Min(ends) \in (at + 1)..Len(input)
      BY <2>2, <3>1, MinOf
    <3>3. Min(ends) \in 1..(Len(input) + 1)
      BY <1>0, <3>2
    <3>4. line \in Min(ends)..(Len(input) + 1)
      BY <3>3, RunEndOf
    <3>5. line \in Nat /\ line > at /\ Len(input) > at
      BY <1>0, <3>2, <3>4
    <3>6. stop \in {line, Len(input)}
      BY <1>0, <3>5, MinPair
    <3> HIDE DEF stop, line, ends
    <3>7. stop \in Nat /\ stop > at
      BY <1>0, <3>5, <3>6
    <3> QED
      BY <1>0, <2>1, <3>7
  <2> HIDE DEF ends, stop
  <2>3. CASE ends = {}
    BY <2>1, <2>3
  <2> QED
    BY <2>2, <2>3
<1> QED
  BY <1>1, <1>2, <1>3 DEF MatchSecret

LEMMA EmailSpan ==
  ASSUME NEW input \in Seq(Cell), NEW at \in DOMAIN input
  PROVE  /\ LocalStart(input, at) \in 1..at
         /\ DomainEnd(input, at) \in at..Len(input)
<1>0. at \in 1..Len(input) /\ at + 1 \in 1..(Len(input) + 1) /\ Len(input) \in Nat
  OBVIOUS
<1>1. LocalStart(input, at) \in 1..at
  <2> DEFINE T == {n \in 1..at : \A k \in n..(at - 1) : input[k] \in LocalChar}
  <2>1. T \in SUBSET Nat /\ at \in T
    BY <1>0
  <2>2. Min(T) \in T
    BY <2>1, MinOf
  <2> QED
    BY <2>2 DEF LocalStart
<1>2. DomainEnd(input, at) \in at..Len(input)
  <2> DEFINE e == RunEnd(input, at + 1, DomainChar)
             T == {n \in at..(e - 1) : n = at \/ input[n] # "."}
  <2>1. e \in (at + 1)..(Len(input) + 1)
    BY <1>0, RunEndOf
  <2>2. T \subseteq 0..Len(input) /\ at \in T
    BY <1>0, <2>1
  <2>3. Max(T) \in T
    BY <1>0, <2>2, MaxOf
  <2>4. DomainEnd(input, at) = Max(T)
    BY DEF DomainEnd
  <2> QED
    BY <1>0, <2>1, <2>3, <2>4
<1> QED
  BY <1>1, <1>2

LEMMA PhoneSpan ==
  ASSUME NEW input \in Seq(Cell), NEW at \in DOMAIN input
  PROVE  MatchPhone(input, at) \in Nat
<1>0. at \in 1..Len(input) /\ at + 1 \in 1..(Len(input) + 1) /\ Len(input) \in Nat
  OBVIOUS
<1> DEFINE Starts == \/ input[at] \in Digit
                     \/ /\ input[at] = "+" /\ at < Len(input)
                        /\ input[at + 1] \in Digit
<1>1. ASSUME Starts
      PROVE  PhoneEnd(input, at) \in at..Len(input)
  <2> DEFINE first == IF input[at] = "+" THEN at + 1 ELSE at
             e == RunEnd(input, first, Digit \cup PhoneSep)
             T == {n \in at..(e - 1) : n = at \/ input[n] \in Digit}
  <2>1. first \in {at, at + 1} /\ first \in 1..(Len(input) + 1)
    BY <1>0
  <2>2. e \in first..(Len(input) + 1)
    BY <2>1, RunEndOf
  <2>3. e > at
    <3>1. CASE input[at] = "+"
      BY <1>0, <2>2, <3>1
    <3>2. CASE input[at] # "+"
      <4>1. input[at] \in Digit \cup PhoneSep
        BY <1>1, <3>2
      <4>2. e # Len(input) + 1 => input[e] \notin Digit \cup PhoneSep
        BY <2>1, RunEndOf
      <4>3. e # at
        BY <1>0, <4>1, <4>2
      <4> QED
        BY <1>0, <2>1, <2>2, <4>3
    <3> QED
      BY <3>1, <3>2
  <2>4. T \subseteq 0..Len(input) /\ at \in T
    BY <1>0, <2>1, <2>2, <2>3
  <2>5. Max(T) \in T
    BY <1>0, <2>4, MaxOf
  <2>6. PhoneEnd(input, at) = Max(T)
    BY DEF PhoneEnd
  <2> QED
    BY <1>0, <2>1, <2>2, <2>5, <2>6
<1> DEFINE length == PhoneEnd(input, at) - at + 1
<1>2. Starts => length \in Nat
  BY <1>0, <1>1
<1>3. MatchPhone(input, at) = 0 \/ (Starts /\ MatchPhone(input, at) = length)
  BY DEF MatchPhone
<1> HIDE DEF length, Starts
<1> QED
  BY <1>2, <1>3

----------------------------------------------------------------------------
(* The pass over a report.                                                 *)

\* What was written since the last mark was copied from the cells before the
\* position, none of which starts a secret.
Copied(input, scan) ==
  \A i \in 1..Len(scan.out) :
    (\A j \in i..Len(scan.out) : scan.out[j] \notin Marker) =>
      LET from == scan.at - 1 - Len(scan.out) + i
      IN /\ from \in 1..Len(input)
         /\ scan.out[i] = input[from]
         /\ ~(MatchSecret(input, from) > 0)

Scanned(input, scan) ==
  /\ scan.at \in Nat \ {0}
  /\ scan.out \in Seq(Cell \cup Marker)
  /\ Copied(input, scan)
  /\ ~HoldsSecret(scan.out)

\* A mark ends what may be a secret.
LEMMA MarkIsHarmless ==
  ASSUME NEW written \in Seq(Cell \cup Marker), NEW m \in 0..Len(written),
         NEW marker \in Marker, ~HoldsSecret(written)
  PROVE  /\ Append(SubSeq(written, 1, m), marker) \in Seq(Cell \cup Marker)
         /\ ~HoldsSecret(Append(SubSeq(written, 1, m), marker))
<1> DEFINE o == Append(SubSeq(written, 1, m), marker)
<1>0. m \in Nat /\ m <= Len(written) /\ Len(written) \in Nat
  OBVIOUS
<1>1. /\ SubSeq(written, 1, m) \in Seq(Cell \cup Marker)
      /\ Len(SubSeq(written, 1, m)) = m
      /\ \A n \in 1..m : SubSeq(written, 1, m)[n] = written[n]
  BY <1>0
<1>2. o \in Seq(Cell \cup Marker) /\ Len(o) = m + 1
  BY <1>1
<1>3. o[m + 1] = marker /\ \A n \in 1..m : o[n] = written[n]
  BY <1>0, <1>1
<1>4. marker \notin TokenChar /\ marker \notin Alnum /\ marker # "k" /\ marker # "K"
  BY DEF Marker, TokenChar, Alnum, Letter, Digit
<1> HIDE DEF o
<1>5. ASSUME NEW at \in DOMAIN o, NEW length \in Nat \ {0}, NEW class,
             marker \notin class, o[at] # marker, Stretch(o, at, length, class)
      PROVE  /\ at \in DOMAIN written
             /\ o[at] = written[at]
             /\ Stretch(written, at, length, class)
  <2>1. at \in 1..m
    BY <1>2, <1>3, <1>5
  <2>2. at + length # m + 1
    <3>1. o[at + length] \in class
      BY <1>5 DEF Stretch
    <3> QED
      BY <1>3, <1>5, <3>1
  <2>3. at + length <= m
    BY <1>2, <1>5, <2>1, <2>2 DEF Stretch
  <2>4. ASSUME NEW n \in 1..length
        PROVE  written[at + n] \in class
    <3>1. at + n \in 1..m
      BY <1>0, <2>1, <2>3
    <3> QED
      BY <1>3, <1>5, <3>1 DEF Stretch
  <2> QED
    BY <1>0, <1>3, <2>1, <2>3, <2>4 DEF Stretch
<1>6. ~HoldsSecret(o)
  <2> SUFFICES ASSUME HoldsSecret(o)
               PROVE  FALSE
    OBVIOUS
  <2>1. TokenMin \in Nat \ {0} /\ AkiaTail \in Nat \ {0}
    BY MaskingAssumption
  <2>2. PICK at \in DOMAIN o :
          \/ o[at] = "k" /\ Stretch(o, at, TokenMin, TokenChar)
          \/ o[at] = "K" /\ Stretch(o, at, AkiaTail, Alnum)
    BY DEF HoldsSecret
  <2>3. CASE o[at] = "k" /\ Stretch(o, at, TokenMin, TokenChar)
    <3>1. at \in DOMAIN written /\ written[at] = "k" /\ Stretch(written, at, TokenMin, TokenChar)
      BY <1>4, <1>5, <2>1, <2>3
    <3> QED
      BY <3>1 DEF HoldsSecret
  <2>4. CASE o[at] = "K" /\ Stretch(o, at, AkiaTail, Alnum)
    <3>1. at \in DOMAIN written /\ written[at] = "K" /\ Stretch(written, at, AkiaTail, Alnum)
      BY <1>4, <1>5, <2>1, <2>4
    <3> QED
      BY <3>1 DEF HoldsSecret
  <2> QED
    BY <2>2, <2>3, <2>4
<1> QED
  BY <1>2, <1>6 DEF o

LEMMA CellsUnmarked ==
  Cell \cap Marker = {}
<1> SUFFICES ASSUME NEW c \in Cell, c \in Marker
             PROVE  FALSE
  OBVIOUS
<1>1. c = "secret" \/ c = "pii"
  BY DEF Marker
<1> QED
  BY <1>1 DEF Cell, Alnum, Letter, Digit, PhoneSep

LEMMA MarkScanned ==
  ASSUME NEW input \in Seq(Cell), NEW scan, Scanned(input, scan),
         NEW left \in 0..Len(scan.out), NEW span \in Nat, NEW marker \in Marker
  PROVE  /\ Scanned(input, Mark(scan, left, span, marker))
         /\ Mark(scan, left, span, marker).out # <<>>
<1> DEFINE m == Len(scan.out) - left
           o == Append(SubSeq(scan.out, 1, m), marker)
           next == Mark(scan, left, span, marker)
<1>0. scan.out \in Seq(Cell \cup Marker) /\ ~HoldsSecret(scan.out)
  BY DEF Scanned
<1>1. m \in 0..Len(scan.out)
  BY <1>0
<1>2. next.at = scan.at + span /\ next.out = o
  BY DEF Mark
<1>3. o \in Seq(Cell \cup Marker) /\ ~HoldsSecret(o)
  BY <1>0, <1>1, MarkIsHarmless
<1>4. Len(o) = m + 1 /\ o[m + 1] = marker
  BY <1>0, <1>1
<1>5. Len(o) \in Nat /\ o[Len(o)] \in Marker
  BY <1>1, <1>4
<1> HIDE DEF m, o, next
<1>6. Copied(input, next)
  <2> SUFFICES ASSUME NEW i \in 1..Len(o), \A j \in i..Len(o) : o[j] \notin Marker
               PROVE  FALSE
    BY <1>2 DEF Copied
  <2>1. Len(o) \in i..Len(o)
    BY <1>5
  <2> QED
    BY <1>5, <2>1
<1>7. next.at \in Nat \ {0}
  BY <1>2 DEF Scanned
<1>8. o # <<>>
  BY <1>1, <1>4
<1> QED
  BY <1>2, <1>3, <1>6, <1>7, <1>8 DEF Scanned, next

\* A cell that starts no secret is copied, and ends none.
LEMMA CopyScanned ==
  ASSUME NEW input \in Seq(Cell), NEW scan, Scanned(input, scan),
         scan.at <= Len(input), ~(MatchSecret(input, scan.at) > 0),
         NEW next, next.at = scan.at + 1,
         next.out = Append(scan.out, input[scan.at])
  PROVE  Scanned(input, next) /\ next.out # <<>>
<1> DEFINE at == scan.at
           written == scan.out
           o == Append(written, input[at])
           L == Len(written)
<1>0. /\ written \in Seq(Cell \cup Marker) /\ ~HoldsSecret(written)
      /\ at \in 1..Len(input) /\ L \in Nat /\ Len(input) \in Nat
  BY DEF Scanned
<1>1. input[at] \in Cell /\ input[at] \notin Marker
  <2>1. input[at] \in Cell
    BY <1>0
  <2> QED
    BY <2>1, CellsUnmarked
<1>2. /\ o \in Seq(Cell \cup Marker) /\ Len(o) = L + 1
      /\ o[L + 1] = input[at] /\ \A n \in 1..L : o[n] = written[n]
      /\ o # <<>>
  BY <1>0, <1>1
<1>3. Copied(input, scan) /\ scan.out = written
  BY DEF Scanned
<1>4. next.at = at + 1 /\ next.out = o
  OBVIOUS
<1>5. ~(MatchSecret(input, at) > 0)
  OBVIOUS
<1>10. at \in Nat /\ L \in Nat
  BY <1>0
<1> HIDE DEF o, at, written, L
<1>6. ASSUME NEW i \in 1..(L + 1), \A j \in i..(L + 1) : o[j] \notin Marker
      PROVE  /\ at - L - 1 + i \in 1..Len(input)
             /\ o[i] = input[at - L - 1 + i]
             /\ ~(MatchSecret(input, at - L - 1 + i) > 0)
  <2>1. CASE i = L + 1
    <3>1. at - L - 1 + i = at
      BY <1>0, <2>1
    <3> QED
      BY <1>0, <1>2, <1>5, <2>1, <3>1
  <2>2. CASE i # L + 1
    <3>1. i \in 1..L
      BY <1>0, <2>2
    <3>2. \A j \in i..L : j \in i..(L + 1) /\ j \in 1..L
      BY <1>0, <3>1
    <3>3. \A j \in i..L : written[j] \notin Marker
      BY <1>2, <1>6, <3>2
    <3>4. LET from == at - 1 - L + i
          IN /\ from \in 1..Len(input)
             /\ written[i] = input[from]
             /\ ~(MatchSecret(input, from) > 0)
      BY <1>3, <3>1, <3>3 DEF Copied, at, L
    <3>5. at - 1 - L + i = at - L - 1 + i
      BY <1>0
    <3> QED
      BY <1>2, <3>1, <3>4, <3>5
  <2> QED
    BY <2>1, <2>2
<1>7. Copied(input, next)
  <2> SUFFICES ASSUME NEW i \in 1..(L + 1), \A j \in i..(L + 1) : o[j] \notin Marker
               PROVE  LET from == (at + 1) - 1 - (L + 1) + i
                      IN /\ from \in 1..Len(input)
                         /\ o[i] = input[from]
                         /\ ~(MatchSecret(input, from) > 0)
    BY <1>2, <1>4 DEF Copied
  <2>1. (at + 1) - 1 - (L + 1) + i = at - L - 1 + i
    BY <1>0
  <2> QED
    BY <1>6, <2>1
<1>8. ASSUME NEW a \in DOMAIN o, NEW length \in Nat \ {0}, NEW class,
             class \cap Marker = {}, o[a] \notin Marker,
             Stretch(o, a, length, class)
      PROVE  \/ a \in DOMAIN written /\ written[a] = o[a] /\ Stretch(written, a, length, class)
             \/ \E from \in DOMAIN input :
                  /\ input[from] = o[a]
                  /\ Stretch(input, from, length, class)
                  /\ ~(MatchSecret(input, from) > 0)
  <2>1. a \in 1..(L + 1) /\ a + length <= L + 1
    BY <1>2, <1>8 DEF Stretch
  <2>2. a \in 1..L
    BY <1>0, <2>1
  <2>3. CASE a + length <= L
    <3>1. \A n \in 1..length : a + n \in 1..L
      BY <1>0, <2>2, <2>3
    <3>2. \A n \in 1..length : written[a + n] \in class
      BY <1>2, <1>8, <3>1 DEF Stretch
    <3>3. a \in DOMAIN written /\ written[a] = o[a]
      BY <1>0, <1>2, <2>2 DEF L
    <3>4. Stretch(written, a, length, class)
      BY <2>3, <3>2 DEF Stretch, L
    <3> QED
      BY <3>3, <3>4
  <2>4. CASE a + length = L + 1
    <3>1. ASSUME NEW j \in a..(L + 1)
          PROVE  o[j] \notin Marker
      <4>1. CASE j = a
        BY <1>8, <4>1
      <4>2. CASE j # a
        <5>1. j - a \in 1..length /\ a + (j - a) = j
          BY <1>0, <2>1, <2>4, <4>2
        <5>2. o[j] \in class
          BY <1>8, <5>1 DEF Stretch
        <5> QED
          BY <1>8, <5>2
      <4> QED
        BY <4>1, <4>2
    <3> DEFINE from == at - L - 1 + a
    <3>2. /\ from \in 1..Len(input) /\ o[a] = input[from]
          /\ ~(MatchSecret(input, from) > 0)
      BY <1>6, <2>1, <3>1
    <3>3. from + length = at
      <4>1. a \in Nat /\ length \in Nat
        BY <1>8, <1>10, <2>1
      <4> QED
        BY <1>10, <2>4, <4>1
    <3>4. ASSUME NEW n \in 1..length
          PROVE  input[from + n] \in class
      <4>1. a + n \in 1..(L + 1) /\ \A j \in (a + n)..(L + 1) : j \in a..(L + 1)
        BY <1>0, <2>1, <2>4
      <4>2. \A j \in (a + n)..(L + 1) : o[j] \notin Marker
        BY <3>1, <4>1
      <4>3. o[a + n] = input[at - L - 1 + (a + n)]
        BY <1>6, <4>1, <4>2
      <4>4. at - L - 1 + (a + n) = from + n
        BY <1>0, <2>1
      <4>5. o[a + n] \in class
        BY <1>8 DEF Stretch
      <4> QED
        BY <4>3, <4>4, <4>5
    <3>5. Stretch(input, from, length, class)
      BY <1>0, <3>3, <3>4 DEF Stretch
    <3>6. from \in DOMAIN input
      BY <3>2
    <3> QED
      BY <3>2, <3>5, <3>6
  <2>5. a + length <= L \/ a + length = L + 1
    BY <1>8, <1>10, <2>1
  <2> QED
    BY <2>3, <2>4, <2>5
<1>9. ~HoldsSecret(o)
  <2> SUFFICES ASSUME HoldsSecret(o)
               PROVE  FALSE
    OBVIOUS
  <2>1. TokenMin \in Nat \ {0} /\ AkiaTail \in Nat \ {0}
    BY MaskingAssumption
  <2>2. /\ TokenChar \cap Marker = {} /\ Alnum \cap Marker = {}
        /\ "k" \notin Marker /\ "K" \notin Marker
    BY DEF Marker, TokenChar, Alnum, Letter, Digit
  <2>3. PICK a \in DOMAIN o :
          \/ o[a] = "k" /\ Stretch(o, a, TokenMin, TokenChar)
          \/ o[a] = "K" /\ Stretch(o, a, AkiaTail, Alnum)
    BY DEF HoldsSecret
  <2>4. CASE o[a] = "k" /\ Stretch(o, a, TokenMin, TokenChar)
    <3>1. \/ a \in DOMAIN written /\ written[a] = "k" /\ Stretch(written, a, TokenMin, TokenChar)
          \/ \E from \in DOMAIN input :
               /\ input[from] = "k"
               /\ Stretch(input, from, TokenMin, TokenChar)
               /\ ~(MatchSecret(input, from) > 0)
      BY <1>8, <2>1, <2>2, <2>4
    <3> QED
      BY <1>0, <3>1, SecretMatched DEF HoldsSecret
  <2>5. CASE o[a] = "K" /\ Stretch(o, a, AkiaTail, Alnum)
    <3>1. \/ a \in DOMAIN written /\ written[a] = "K" /\ Stretch(written, a, AkiaTail, Alnum)
          \/ \E from \in DOMAIN input :
               /\ input[from] = "K"
               /\ Stretch(input, from, AkiaTail, Alnum)
               /\ ~(MatchSecret(input, from) > 0)
      BY <1>8, <2>1, <2>2, <2>5
    <3> QED
      BY <1>0, <3>1, SecretMatched DEF HoldsSecret
  <2> QED
    BY <2>3, <2>4, <2>5
<1> QED
  BY <1>0, <1>2, <1>4, <1>7, <1>9 DEF Scanned

LEMMA StepScanned ==
  ASSUME NEW input \in Seq(Cell), NEW scan, Scanned(input, scan)
  PROVE  /\ Scanned(input, Step(input, scan))
         /\ scan.at <= Len(input) \/ scan.out # <<>> =>
              Step(input, scan).out # <<>>
<1> DEFINE at == scan.at
<1>0. at \in Nat \ {0} /\ scan.out \in Seq(Cell \cup Marker) /\ Len(input) \in Nat
  BY DEF Scanned
<1>1. CASE at > Len(input)
  BY <1>0, <1>1 DEF Step
<1>2. CASE ~(at > Len(input))
  <2>1. at \in DOMAIN input /\ at <= Len(input)
    BY <1>0, <1>2
  <2>2. "secret" \in Marker /\ "pii" \in Marker /\ 0 \in 0..Len(scan.out)
    BY <1>0 DEF Marker
  <2>3. CASE MatchSecret(input, at) > 0
    <3>1. Step(input, scan) = Mark(scan, 0, MatchSecret(input, at), "secret")
      BY <1>2, <2>3 DEF Step
    <3> QED
      BY <2>1, <2>2, <3>1, SecretSpan, MarkScanned
  <2>4. CASE ~(MatchSecret(input, at) > 0)
    <3>1. CASE IsEmail(input, at) /\ CopiedLocal(input, scan)
      <4> DEFINE left == at - LocalStart(input, at)
                 span == DomainEnd(input, at) - at + 1
      <4>1. Step(input, scan) = Mark(scan, left, span, "pii")
        BY <1>2, <2>4, <3>1 DEF Step
      <4>2. left \in Nat /\ span \in Nat
        BY <1>0, <2>1, EmailSpan
      <4>3. left <= Len(scan.out)
        BY <3>1 DEF CopiedLocal
      <4>4. left \in 0..Len(scan.out)
        BY <1>0, <4>2, <4>3
      <4> HIDE DEF left, span
      <4> QED
        BY <2>2, <4>1, <4>2, <4>4, MarkScanned
    <3>2. CASE ~(IsEmail(input, at) /\ CopiedLocal(input, scan))
      <4>1. CASE MatchPhone(input, at) > 0
        <5>1. Step(input, scan) = Mark(scan, 0, MatchPhone(input, at), "pii")
          BY <1>2, <2>4, <3>2, <4>1 DEF Step
        <5> QED
          BY <2>1, <2>2, <5>1, PhoneSpan, MarkScanned
      <4>2. CASE ~(MatchPhone(input, at) > 0)
        <5>1. Step(input, scan) = [at |-> at + 1, out |-> Append(scan.out, input[at])]
          BY <1>2, <2>4, <3>2, <4>2 DEF Step
        <5>2. /\ Step(input, scan).at = scan.at + 1
              /\ Step(input, scan).out = Append(scan.out, input[scan.at])
          BY <5>1
        <5> QED
          BY <2>1, <2>4, <5>2, CopyScanned
      <4> QED
        BY <4>1, <4>2
    <3> QED
      BY <3>1, <3>2
  <2> QED
    BY <2>3, <2>4
<1> QED
  BY <1>1, <1>2

\* The scan is what its equation says: there is a function that satisfies it
\* up to any position, so there is one on the whole report.
LEMMA ScanPasses ==
  ASSUME NEW input \in Seq(Cell)
  PROVE  /\ Scan(input)[0] = [at |-> 1, out |-> <<>>]
         /\ \A n \in 1..Len(input) :
              Scan(input)[n] = Step(input, Scan(input)[n - 1])
<1> DEFINE N == Len(input)
           start == [at |-> 1, out |-> <<>>]
           Passes(f, n) == /\ f = [i \in 0..n |-> f[i]]
                           /\ f[0] = start
                           /\ \A i \in 1..n : f[i] = Step(input, f[i - 1])
           T == {n \in 0..N : ~(\E f : Passes(f, n))}
           Equation(f) ==
             f = [n \in 0..N |-> IF n = 0 THEN start ELSE Step(input, f[n - 1])]
<1>0. N \in Nat
  OBVIOUS
<1>1. T = {}
  <2> SUFFICES ASSUME T # {}
               PROVE  FALSE
    OBVIOUS
  <2>1. PICK n \in T : \A m \in T : n <= m
    <3>1. T \in SUBSET Nat
      BY <1>0
    <3> QED
      BY <3>1, LeastNumber
  <2>2. n \in 0..N /\ ~(\E f : Passes(f, n))
    OBVIOUS
  <2>3. CASE n = 0
    <3> DEFINE f == [i \in 0..0 |-> start]
    <3>1. Passes(f, 0)
      <4>1. f[0] = start /\ f = [i \in 0..0 |-> f[i]]
        OBVIOUS
      <4>2. 1..0 = {}
        OBVIOUS
      <4> QED
        BY <4>1, <4>2
    <3> QED
      BY <2>2, <2>3, <3>1
  <2>4. CASE n # 0
    <3>1. n - 1 \in 0..N /\ n \in Nat /\ ~(n <= n - 1)
      BY <1>0, <2>2, <2>4
    <3>2. n - 1 \notin T
      BY <2>1, <3>1
    <3>3. PICK g : Passes(g, n - 1)
      BY <3>1, <3>2
    <3> DEFINE f == [i \in 0..n |-> IF i = n THEN Step(input, g[n - 1]) ELSE g[i]]
    <3>4. /\ \A i \in 0..(n - 1) : f[i] = g[i]
          /\ f[n] = Step(input, g[n - 1])
          /\ f = [i \in 0..n |-> f[i]]
      BY <3>1
    <3> HIDE DEF f
    <3>5. f[0] = start
      <4>1. 0 \in 0..(n - 1)
        BY <2>4, <3>1
      <4>2. g[0] = start
        BY <3>3
      <4> HIDE DEF start
      <4> QED
        BY <3>4, <4>1, <4>2
    <3>6. ASSUME NEW i \in 1..n
          PROVE  f[i] = Step(input, f[i - 1])
      <4>1. CASE i = n
        <5>1. n - 1 \in 0..(n - 1)
          BY <3>1, <2>4
        <5> QED
          BY <3>4, <4>1, <5>1
      <4>2. CASE i # n
        <5>1. i \in 1..(n - 1) /\ i \in 0..(n - 1) /\ i - 1 \in 0..(n - 1)
          BY <3>1, <3>6, <4>2
        <5> QED
          BY <3>3, <3>4, <5>1
      <4> QED
        BY <4>1, <4>2
    <3>7. Passes(f, n)
      BY <3>4, <3>5, <3>6
    <3> QED
      BY <2>2, <3>7
  <2> QED
    BY <2>3, <2>4
<1>2. PICK f : Passes(f, N)
  BY <1>0, <1>1
<1>3. Equation(f)
  <2>1. ASSUME NEW n \in 0..N
        PROVE  f[n] = IF n = 0 THEN start ELSE Step(input, f[n - 1])
    <3>1. n # 0 => n \in 1..N
      BY <1>0, <2>1
    <3> QED
      BY <1>2, <3>1
  <2>2. f = [n \in 0..N |-> f[n]]
    BY <1>2
  <2> HIDE DEF start
  <2> QED
    BY <2>1, <2>2
<1>4. Scan(input) = CHOOSE s : Equation(s)
  BY DEF Scan
<1>5. Equation(Scan(input))
  <2> HIDE DEF Equation
  <2> QED
    BY <1>3, <1>4
<1>6. ASSUME NEW n \in 0..N
      PROVE  Scan(input)[n]
               = IF n = 0 THEN start ELSE Step(input, Scan(input)[n - 1])
  BY <1>5
<1>7. 0 \in 0..N /\ \A n \in 1..N : n \in 0..N /\ n # 0
  BY <1>0
<1> HIDE DEF start
<1>8. Scan(input)[0] = start
  BY <1>6, <1>7
<1>9. \A n \in 1..N : Scan(input)[n] = Step(input, Scan(input)[n - 1])
  BY <1>6, <1>7
<1> QED
  BY <1>8, <1>9 DEF start

\* A masked report holds no secret, and something unless the report is empty.
LEMMA MaskIsClean ==
  ASSUME NEW input \in Seq(Cell)
  PROVE  /\ Mask(input) \in Seq(Cell \cup Marker)
         /\ ~HoldsSecret(Mask(input))
         /\ input # <<>> => Mask(input) # <<>>
<1> DEFINE N == Len(input)
           scan == Scan(input)
           Good(n) == /\ Scanned(input, scan[n])
                      /\ n = 0 => scan[n].at <= Len(input) \/ input = <<>>
                      /\ n # 0 => scan[n].out # <<>>
           T == {n \in 0..N : ~Good(n)}
<1>0. N \in Nat /\ (N = 0 <=> input = <<>>)
  OBVIOUS
<1>1. Good(0)
  <2>1. scan[0].at = 1 /\ scan[0].out = <<>>
    BY ScanPasses
  <2>2. <<>> \in Seq(Cell \cup Marker) /\ Len(<<>>) = 0 /\ DOMAIN <<>> = {}
    OBVIOUS
  <2>3. ~HoldsSecret(<<>>)
    BY <2>2 DEF HoldsSecret
  <2>4. Copied(input, scan[0])
    <3>1. 1..0 = {}
      OBVIOUS
    <3> QED
      BY <2>1, <2>2, <3>1 DEF Copied
  <2>5. scan[0].at <= Len(input) \/ input = <<>>
    BY <1>0, <2>1
  <2> HIDE DEF scan
  <2> QED
    BY <2>1, <2>2, <2>3, <2>4, <2>5 DEF Scanned
<1>2. ASSUME NEW n \in 1..N, Good(n - 1)
      PROVE  Good(n)
  <2>1. scan[n] = Step(input, scan[n - 1])
    BY ScanPasses
  <2> HIDE DEF scan
  <2>2. Scanned(input, scan[n - 1])
    BY <1>2
  <2>3. scan[n - 1].at <= Len(input) \/ scan[n - 1].out # <<>>
    BY <1>0, <1>2
  <2>4. n # 0
    BY <1>2
  <2>5. Scanned(input, scan[n]) /\ scan[n].out # <<>>
    BY <2>1, <2>2, <2>3, StepScanned
  <2> QED
    BY <2>4, <2>5
<1> HIDE DEF scan, Good
<1>3. T = {}
  <2> SUFFICES ASSUME T # {}
               PROVE  FALSE
    OBVIOUS
  <2>1. T \in SUBSET Nat
    BY <1>0
  <2>2. PICK n \in T : \A m \in T : n <= m
    BY <2>1, LeastNumber
  <2>3. n \in 0..N /\ ~Good(n)
    OBVIOUS
  <2>4. n # 0
    BY <1>1, <2>3
  <2>5. n \in 1..N /\ n - 1 \in 0..N /\ ~(n <= n - 1)
    BY <1>0, <2>3, <2>4
  <2>6. Good(n - 1)
    BY <2>2, <2>5
  <2> QED
    BY <1>2, <2>3, <2>5, <2>6
<1>4. Good(N)
  BY <1>0, <1>3
<1>5. Mask(input) = scan[N].out
  BY DEF Mask, scan
<1> QED
  BY <1>0, <1>4, <1>5 DEF Good, Scanned

----------------------------------------------------------------------------
(* What a decoded call names.                                              *)

LEMMA CallNames ==
  ASSUME NEW line, DecodeLine(line).kind = "call"
  PROVE  LET call == DecodeLine(line)
         IN /\ line.verb = "CALL" /\ call = DecodeCall(line)
            /\ line.tool \in ToolName /\ call.tool = line.tool
            /\ call.args = Bound(line.text)
            /\ "pin" \in DOMAIN call.args => call.args.pin \in Pins
            /\ "sensor" \in DOMAIN call.args => call.args.sensor \in Sensors
<1>1. line.verb = "CALL" /\ DecodeLine(line) = DecodeCall(line)
  BY DEF DecodeLine, DecodeAsk, DecodeFinish
<1>2. /\ line.tool \in ToolName /\ Validates(line.text, CATALOG[line.tool].args)
      /\ DecodeCall(line) = [kind |-> "call", tool |-> line.tool, args |-> Bound(line.text)]
  BY <1>1 DEF DecodeCall
<1> DEFINE args == CATALOG[line.tool].args
           fields == line.text.fields
<1>3. /\ DOMAIN fields = DOMAIN args
      /\ \A name \in DOMAIN args : fields[name].value \in args[name].among
  BY <1>2 DEF Validates, Fits
<1>4. /\ "pin" \in DOMAIN args => args["pin"].among = Pins
      /\ "sensor" \in DOMAIN args => args["sensor"].among = Sensors
  BY <1>2 DEF ToolName, CATALOG, Contract, NoArgs, NumberIn, WordIn
<1>5. Bound(line.text) = [name \in DOMAIN fields |-> fields[name].value]
  BY DEF Bound
<1> HIDE DEF args, fields
<1>6. /\ "pin" \in DOMAIN fields => fields["pin"].value \in Pins
      /\ "sensor" \in DOMAIN fields => fields["sensor"].value \in Sensors
  BY <1>3, <1>4
<1>7. /\ "pin" \in DOMAIN Bound(line.text) => Bound(line.text).pin \in Pins
      /\ "sensor" \in DOMAIN Bound(line.text) => Bound(line.text).sensor \in Sensors
  BY <1>5, <1>6
<1> QED
  BY <1>1, <1>2, <1>7

----------------------------------------------------------------------------
(* What the prompt shows.                                                  *)

Display == [bytes : Nat, marked : BOOLEAN]

LEMMA RoomLeft ==
  ASSUME NEW room \in Nat
  PROVE  After(room, LastSize) \in Nat
BY TurnsAssumption DEF After

\* What is shown of an observation is a number of its bytes, marked or not.
LEMMA ShownTyped ==
  ASSUME NEW size \in Nat, NEW room \in Nat
  PROVE  ShownOf(size, room) \in Display
<1> DEFINE r == After(room, LastSize)
<1>1. r \in Nat /\ EmitSize \in Nat /\ MarkerSize \in Nat
  BY RoomLeft, TurnsAssumption
<1> HIDE DEF r
<1>2. Kept(size, r) \in Nat
  BY <1>1 DEF Kept
<1>3. CutTail(size, r) \in Display
  BY <1>2 DEF CutTail, Display
<1> QED
  BY <1>3 DEF ShownOf, Display, r

\* A recorded report has a size, and it is not nothing.
LEMMA ReportSize ==
  ASSUME NEW outcome \in Seq(Cell \cup Marker), outcome # <<>>
  PROVE  Min({Size(outcome), ObservationCap}) \in Nat \ {0}
<1> DEFINE S == {n \in DOMAIN outcome : outcome[n] \in Marker}
<1>1. Len(outcome) \in Nat \ {0} /\ DOMAIN outcome = 1..Len(outcome)
  OBVIOUS
<1>2. IsFiniteSet(1..Len(outcome))
  BY <1>1, FS_Interval
<1>3. IsFiniteSet(S)
  BY <1>1, <1>2, FS_Subset
<1>4. Cardinality(S) \in Nat
  BY <1>3, FS_CardinalityType
<1>5. MarkWidth - 1 \in Nat /\ ObservationCap \in Nat \ {0}
  BY TurnsAssumption
<1>6. Size(outcome) = Len(outcome) + (MarkWidth - 1) * Cardinality(S)
  BY DEF Size
<1> HIDE DEF S
<1>7. (MarkWidth - 1) * Cardinality(S) \in Nat
  BY <1>4, <1>5
<1>8. Size(outcome) \in Nat \ {0}
  BY <1>1, <1>6, <1>7
<1> QED
  BY <1>5, <1>8, MinPair

----------------------------------------------------------------------------
(* The exchange with Jev.                                                  *)

Exchanges ==
  [at : {"idle", "dial", "tunnel", "send", "head", "body", "done", "failed"},
   response : Responses \cup {NoResponse}, got : Nat]

\* What an exchange has received: a body is read after its head alone, and up
\* to the length the head announced.
Received(x) ==
  /\ x \in Exchanges
  /\ x.at \in {"head", "body", "done"} => x.response \in Responses
  /\ x.at \in {"body", "done"} =>
       ReadsHead(x.response) /\ x.got >= x.response.head
  /\ x.at = "done" =>
       \/ x.response.lengths = {}
       \/ \E length \in x.response.lengths : x.got - x.response.head >= length

LEMMA NothingReceived ==
  Received(NoExchange) /\ Received(Failed)
      /\ Received([NoExchange EXCEPT !.at = "dial"])
BY DEF Received, Exchanges, NoExchange, Failed

LEMMA ExchangeReceived ==
  ASSUME Received(net), Exchange
  PROVE  Received(net')
<1>0. net \in Exchanges
  BY DEF Received
<1>1. CASE Dial
  BY <1>0, <1>1, NothingReceived DEF Dial, Received, Exchanges
<1>2. CASE Tunnel
  BY <1>0, <1>2, NothingReceived DEF Tunnel, Received, Exchanges
<1>3. CASE Send
  BY <1>0, <1>3, NothingReceived DEF Send, Received, Exchanges
<1>4. CASE Read
  <2>1. PICK n \in 1..MaxRead :
          net' = [net EXCEPT !.got = @ + n, !.at = At(net.response, net.got + n)]
    BY <1>4 DEF Read
  <2> DEFINE r == net.response
             got == net.got + n
             at == At(r, got)
  <2>2. r \in Responses
    BY <1>4 DEF Read, Received
  <2>3. r.head \in Nat /\ r.lengths \subseteq Nat
    BY <2>2, SystemOneAssumption
  <2>4. got \in Nat
    BY <1>0, <2>1, SystemOneAssumption DEF Exchanges
  <2>5. /\ net'.response = r /\ net'.got = got /\ net'.at = at
        /\ net' = [at |-> at, response |-> r, got |-> got]
    BY <1>0, <2>1 DEF Exchanges
  <2>6. at \in {"head", "body", "done", "failed"}
    BY DEF At, BodyAt
  <2>7. at \in {"body", "done"} => ReadsHead(r) /\ got >= r.head
    BY <2>3, <2>4 DEF At
  <2>8. at = "done" => \E length \in r.lengths : got - r.head >= length
    BY DEF At, BodyAt
  <2> HIDE DEF r, got, at
  <2>9. net' \in Exchanges
    BY <2>2, <2>4, <2>5, <2>6 DEF Exchanges
  <2> QED
    BY <2>2, <2>5, <2>7, <2>8, <2>9 DEF Received
<1>5. CASE Close
  BY <1>0, <1>5, NothingReceived DEF Close, Received, Exchanges
<1>6. CASE TimeOut
  BY <1>6, NothingReceived DEF TimeOut
<1> QED
  BY <1>1, <1>2, <1>3, <1>4, <1>5, <1>6 DEF Exchange, ExchangeInTime

\* An answer was received in full, with nothing after it.
InFull(r, got) ==
  /\ r \in Responses
  /\ r.status = 200 /\ r.document.model = "pinned"
  /\ got >= r.head + r.document.cells
  /\ \/ r.lengths = {r.document.cells}
     \/ r.lengths = {} /\ got = r.head + r.document.cells
  /\ r.document.decision.choice \in Candidate
  /\ r.document.should_ask.noul \in Nat

LEMMA AnsweredInFull ==
  ASSUME Received(net), Answered
  PROVE  InFull(net.response, net.got)
<1> DEFINE r == net.response
           cells == r.document.cells
<1>1. /\ r \in Responses /\ ReadsHead(r) /\ net.got >= r.head /\ net.got \in Nat
      /\ \/ r.lengths = {}
         \/ \E length \in r.lengths : net.got - r.head >= length
  BY DEF Received, Answered, Exchanges
<1>2. r.head \in Nat /\ r.lengths \subseteq Nat /\ IsFiniteSet(r.lengths)
  BY <1>1, SystemOneAssumption
<1>3. /\ r.status = 200 /\ BodyRead = cells /\ r.document.model = "pinned"
      /\ r.document.decision.choice \in Candidate
      /\ "noul" \in DOMAIN r.document.should_ask
  BY DEF Answered, ReadsAnswer, ReadsDecision, ReadsNoul
<1>4. r.document.should_ask.noul \in Nat
  BY <1>1, <1>3, SystemOneAssumption
<1>5. CASE r.lengths = {}
  <2>1. cells = net.got - r.head
    BY <1>3, <1>5 DEF BodyRead
  <2> HIDE DEF r, cells
  <2>2. net.got >= r.head + cells /\ net.got = r.head + cells
    BY <1>1, <1>2, <2>1
  <2> QED
    BY <1>1, <1>3, <1>4, <1>5, <2>2 DEF InFull, r, cells
<1>6. CASE r.lengths # {}
  <2>1. Cardinality(r.lengths) <= 1
    BY <1>1 DEF ReadsHead
  <2>2. PICK length \in r.lengths : net.got - r.head >= length
    BY <1>1, <1>6
  <2>3. r.lengths = {length}
    <3>1. Cardinality(r.lengths) \in Nat /\ Cardinality(r.lengths) # 0
      BY <1>2, <1>6, FS_CardinalityType, FS_EmptySet
    <3>2. Cardinality(r.lengths) = 1
      BY <2>1, <3>1
    <3>3. PICK other : r.lengths = {other}
      BY <1>2, <3>2, FS_Singleton
    <3> QED
      BY <3>3
  <2>4. cells = length
    BY <1>3, <1>6, <2>3 DEF BodyRead
  <2> HIDE DEF r, cells
  <2>5. length \in Nat /\ net.got >= r.head + length
    BY <1>1, <1>2, <2>2
  <2> QED
    BY <1>1, <1>3, <1>4, <2>3, <2>4, <2>5 DEF InFull, r, cells
<1> QED
  BY <1>5, <1>6

----------------------------------------------------------------------------
(* Types.                                                                  *)

Rendered ==
  {RenderLine(choice, hints) : choice \in Candidate, hints \in Hints}

Held == UNION {Range(lines) : lines \in Scripts \cup Tables}

Line == Rendered \cup Held \cup {NoLine}

Observation == [pin : Pins, sensor : Sensors \cup {0}, size : Nat]

Answers ==
  [line : Line, response : Responses \cup {NoResponse}, got : Nat,
   evidence : Observation, shown : Display]

Performance ==
  [call : {DecodeLine(line) : line \in Line}, turn : Nat,
   outcome : Seq(Cell \cup Marker)]

Phases ==
  {"turn", "infer", "asking", "answered", "decode", "call", "await", "over"}

ModelTyped ==
  /\ backend \in {"scripted", "tiny", "jev"}
  /\ backend = "scripted" => script \in Scripts
  /\ backend = "tiny" => script \in Tables
  /\ backend = "jev" => script = <<>>
  /\ cursor \in 0..Len(script)
  /\ receipts \in Seq({r.document : r \in Responses})

TurnTyped ==
  /\ phase \in Phases
  /\ last \in Observation
  /\ shown \in Display
  /\ out \in Answers
  /\ log \in Seq(Answers)
  /\ performed \in Seq(Performance)
  /\ crashes \in 0..MaxCrashes

\* What is open belongs to the phase, and a turn has at most one record and
\* one call.
Phased ==
  /\ phase # "answered" => out = NoAnswer
  /\ phase # "asking" => net = NoExchange
  /\ Len(log) <= MaxTurns /\ Len(performed) <= Len(log)
  /\ phase \in {"infer", "asking", "answered"} => Len(log) < MaxTurns
  /\ phase \in {"decode", "call"} => Len(performed) < Len(log)

\* The lines that wait for their turn are lines, and a fault is none.
Standing ==
  /\ phase \in {"decode", "call", "await"} => log # <<>>
  /\ phase = "call" => DecodeLine(Recorded).kind = "call"
  /\ \A n \in DOMAIN log : log[n].line = NoLine => n = Len(log) /\ phase = "over"

Typed == ModelTyped /\ TurnTyped /\ Received(net) /\ Phased /\ Standing

LEMMA ScriptLines ==
  ASSUME ModelTyped
  PROVE  /\ script \in Seq(Line)
         /\ backend = "scripted" => \A n \in DOMAIN script : script[n] # NoLine
<1>1. CASE backend = "jev"
  BY <1>1 DEF ModelTyped
<1>2. CASE backend # "jev"
  <2>1. script \in Scripts \cup Tables
    BY <1>2 DEF ModelTyped
  <2>2. script \in Seq(Range(script))
    BY <2>1, TurnsAssumption
  <2>3. \A n \in DOMAIN script : script[n] \in Range(script)
    BY DEF Range
  <2>4. Range(script) \subseteq Line
    BY <2>1 DEF Line, Held
  <2>5. script \in Seq(Line)
    BY <2>2, <2>3, <2>4
  <2>6. backend = "scripted" => NoLine \notin Range(script)
    BY TurnsAssumption DEF ModelTyped
  <2> QED
    BY <2>3, <2>5, <2>6
<1> QED
  BY <1>1, <1>2

LEMMA EmptyTyped ==
  /\ NoObservation \in Observation /\ NothingShown \in Display
  /\ NoAnswer \in Answers /\ NoLine \in Line /\ NoHints \in Hints
<1>1. NoLine \in Line
  BY DEF Line
<1>2. 0 \in Pins
  BY ToolsAssumption
<1>3. NoObservation \in Observation /\ NothingShown \in Display /\ NoHints \in Hints
  BY <1>2 DEF NoObservation, Observation, NothingShown, Display, NoHints, Hints
<1> QED
  BY <1>1, <1>3 DEF NoAnswer, Answers

LEMMA InitTyped ==
  ASSUME Init
  PROVE  Typed
<1>1. ModelTyped
  <2>1. script \in IF backend = "scripted" THEN Scripts
                   ELSE IF backend = "tiny" THEN Tables ELSE {<<>>}
    BY DEF Init
  <2>2. script \in Scripts \cup Tables \/ script = <<>>
    BY <2>1
  <2>3. Len(script) \in Nat
    BY <2>2, TurnsAssumption
  <2> QED
    BY <2>1, <2>3 DEF Init, ModelTyped
<1>2. TurnTyped
  BY EmptyTyped, TurnsAssumption DEF Init, TurnTyped, Phases
<1>3. Phased /\ Standing
  BY TurnsAssumption DEF Init, Phased, Standing
<1> QED
  BY <1>1, <1>2, <1>3, NothingReceived DEF Init, Typed

LEMMA HintsOf ==
  ASSUME TurnTyped
  PROVE  DeriveHints \in Hints
BY EmptyTyped DEF TurnTyped, Observation, Hints, DeriveHints

\* An answer of Jev's is a line, and not the one of a fault.
LEMMA JevLine ==
  ASSUME TurnTyped, Received(net), Answered
  PROVE  LET line == RenderLine(Choice(net.response.document), DeriveHints)
         IN line \in Line /\ line # NoLine
<1>1. Choice(net.response.document) \in Candidate
  BY AnsweredInFull DEF InFull, Choice, Candidate
<1>2. RenderLine(Choice(net.response.document), DeriveHints) \in Rendered
  BY <1>1, HintsOf DEF Rendered
<1> QED
  BY <1>1, <1>2, HintsOf, TurnsAssumption DEF Line

LEMMA ProducedTyped ==
  ASSUME Typed, NEW line \in Line, Produce(line)
  PROVE  out' \in Answers /\ out'.line = line
<1>1. net.response \in Responses \cup {NoResponse} /\ net.got \in Nat
  BY DEF Typed, Received, Exchanges
<1> QED
  BY <1>1 DEF Produce, Answer, Answers, Typed, TurnTyped

LEMMA ScheduleTyped ==
  ASSUME Typed, Schedule
  PROVE  Typed'
<1>1. last.size \in Nat
  BY DEF Typed, TurnTyped, Observation
<1>2. shown' \in Display
  BY <1>1, ShownTyped, TurnsAssumption DEF Schedule
<1>3. ModelTyped' /\ Received(net)'
  BY DEF Schedule, Typed, ModelTyped, modelVars
<1>4. TurnTyped'
  BY <1>2 DEF Schedule, Typed, TurnTyped, Phases
<1>5. Phased' /\ Standing'
  BY DEF Schedule, Typed, TurnTyped, Phased, Standing, Recorded
<1> QED
  BY <1>3, <1>4, <1>5 DEF Typed

\* A line is produced in the phases in which nothing waits to be recorded.
LEMMA ProduceTyped ==
  ASSUME Typed, NEW line \in Line, Produce(line), phase \in {"infer", "asking"},
         net' = NoExchange
  PROVE  TurnTyped' /\ Received(net)' /\ Phased' /\ Standing'
<1>1. out' \in Answers
  BY ProducedTyped
<1>2. TurnTyped'
  BY <1>1 DEF Produce, Typed, TurnTyped, Phases
<1>3. Phased' /\ Standing'
  BY DEF Produce, Typed, TurnTyped, Phased, Standing
<1> QED
  BY <1>2, <1>3, NothingReceived

LEMMA EmitTyped ==
  ASSUME Typed, Emit
  PROVE  Typed'
<1>1. net' = NoExchange /\ phase = "infer"
  BY DEF Emit, Typed, Phased
<1>2. /\ script \in Seq(Line) /\ cursor \in 0..Len(script)
      /\ backend' = backend /\ script' = script /\ receipts' = receipts
  BY ScriptLines DEF Emit, Produce, Typed, ModelTyped
<1>3. CASE cursor < Len(script) /\ ~script[cursor + 1].overlong
  <2>1. Produce(script[cursor + 1]) /\ cursor' = cursor + 1
    BY <1>3 DEF Emit
  <2>2. cursor + 1 \in DOMAIN script /\ cursor' \in 0..Len(script)
    BY <1>2, <1>3, <2>1
  <2>3. script[cursor + 1] \in Line
    BY <1>2, <2>2
  <2>4. ModelTyped'
    BY <1>2, <2>2 DEF Typed, ModelTyped
  <2> QED
    BY <1>1, <2>1, <2>3, <2>4, ProduceTyped DEF Typed
<1>4. CASE ~(cursor < Len(script) /\ ~script[cursor + 1].overlong)
  <2>1. Produce(NoLine) /\ cursor' = cursor
    BY <1>4 DEF Emit
  <2>2. ModelTyped'
    BY <1>2, <2>1 DEF Typed, ModelTyped
  <2> QED
    BY <1>1, <2>1, <2>2, EmptyTyped, ProduceTyped DEF Typed
<1> QED
  BY <1>3, <1>4

LEMMA LookUpTyped ==
  ASSUME Typed, LookUp
  PROVE  Typed'
<1>1. net' = NoExchange /\ phase = "infer"
  BY DEF LookUp, Typed, Phased
<1>2. PICK line \in Line : Produce(line)
  <2>1. script \in Seq(Line) /\ Len(log) + 1 \in Nat \ {0}
    BY ScriptLines DEF Typed, TurnTyped
  <2>2. CASE /\ Len(log) + 1 <= Len(script) /\ script[Len(log) + 1] # NoEntry
             /\ ~script[Len(log) + 1].overlong
    <3>1. Len(log) + 1 \in DOMAIN script
      BY <2>1, <2>2
    <3> QED
      BY <2>1, <2>2, <3>1 DEF LookUp
  <2>3. CASE ~(/\ Len(log) + 1 <= Len(script) /\ script[Len(log) + 1] # NoEntry
               /\ ~script[Len(log) + 1].overlong)
    BY <2>3, EmptyTyped DEF LookUp
  <2> QED
    BY <2>2, <2>3
<1>3. ModelTyped'
  BY <1>2 DEF LookUp, Produce, Typed, ModelTyped
<1> QED
  BY <1>1, <1>2, <1>3, ProduceTyped DEF Typed

LEMMA AskJevTyped ==
  ASSUME Typed, AskJev
  PROVE  Typed'
<1>1. ModelTyped' /\ TurnTyped'
  BY DEF AskJev, Typed, ModelTyped, TurnTyped, Phases, modelVars
<1>2. Received(net)'
  BY NothingReceived DEF AskJev
<1>3. Phased' /\ Standing'
  BY DEF AskJev, Typed, TurnTyped, Phased, Standing
<1> QED
  BY <1>1, <1>2, <1>3 DEF Typed

LEMMA ExchangingTyped ==
  ASSUME Typed, Exchanging
  PROVE  Typed'
<1>1. ModelTyped' /\ TurnTyped'
  BY DEF Exchanging, Typed, ModelTyped, TurnTyped, modelVars, turnVars
<1>2. Received(net)'
  BY ExchangeReceived DEF Exchanging, Typed
<1>3. Phased' /\ Standing'
  BY DEF Exchanging, Typed, Phased, Standing, Recorded, turnVars
<1> QED
  BY <1>1, <1>2, <1>3 DEF Typed

LEMMA JevAnswersTyped ==
  ASSUME Typed, JevAnswers
  PROVE  Typed'
<1>1. net' = NoExchange /\ phase = "asking" /\ cursor' = cursor
  BY DEF JevAnswers
<1>2. receipts \in Seq({r.document : r \in Responses})
  BY DEF Typed, ModelTyped
<1>3. CASE Answered
  <2> DEFINE line == RenderLine(Choice(net.response.document), DeriveHints)
  <2>1. Produce(line) /\ receipts' = Append(receipts, net.response.document)
    BY <1>3 DEF JevAnswers
  <2>2. line \in Line
    BY <1>3, JevLine DEF Typed
  <2>3. net.response \in Responses
    BY <1>3 DEF Answered, Typed, Received
  <2>4. net.response.document \in {r.document : r \in Responses}
    BY <2>3
  <2>5. receipts' \in Seq({r.document : r \in Responses})
    BY <1>2, <2>1, <2>4
  <2> HIDE DEF line
  <2>6. ModelTyped'
    BY <1>1, <2>1, <2>5 DEF Produce, Typed, ModelTyped
  <2> QED
    BY <1>1, <2>1, <2>2, <2>6, ProduceTyped DEF Typed
<1>4. CASE ~Answered
  <2>1. Produce(NoLine) /\ receipts' = receipts
    BY <1>4 DEF JevAnswers
  <2>2. ModelTyped'
    BY <1>1, <2>1 DEF Produce, Typed, ModelTyped
  <2> QED
    BY <1>1, <2>1, <2>2, EmptyTyped, ProduceTyped DEF Typed
<1> QED
  BY <1>3, <1>4

LEMMA RecordTyped ==
  ASSUME Typed, Record
  PROVE  Typed'
<1>0. log \in Seq(Answers) /\ out \in Answers /\ log' = Append(log, out)
  BY DEF Record, Typed, TurnTyped
<1>1. /\ log' \in Seq(Answers) /\ Len(log') = Len(log) + 1
      /\ log'[Len(log')] = out /\ \A n \in DOMAIN log : log'[n] = log[n]
      /\ DOMAIN log' = 1..(Len(log) + 1) /\ Len(log) \in Nat
      /\ performed \in Seq(Performance)
  BY <1>0 DEF Typed, TurnTyped
<1>2. ModelTyped' /\ Received(net)'
  BY DEF Record, Typed, ModelTyped, modelVars
<1>3. TurnTyped'
  BY <1>1, EmptyTyped DEF Record, Typed, TurnTyped, Phases
<1>4. Phased'
  BY <1>1, TurnsAssumption DEF Record, Typed, Phased
<1>5. Standing'
  <2>1. ASSUME NEW n \in DOMAIN log', log'[n].line = NoLine
        PROVE  n = Len(log') /\ phase' = "over"
    <3>1. CASE n \in DOMAIN log
      <4>1. log[n].line = NoLine
        BY <1>1, <2>1, <3>1
      <4>2. phase = "over"
        BY <3>1, <4>1 DEF Typed, Standing
      <4> QED
        BY <4>2 DEF Record
    <3>2. CASE n \notin DOMAIN log
      <4>1. n = Len(log')
        BY <1>0, <1>1, <2>1, <3>2
      <4> QED
        BY <1>1, <2>1, <4>1 DEF Record
    <3> QED
      BY <3>1, <3>2
  <2>2. log' # <<>>
    BY <1>1
  <2>3. phase' # "call"
    BY DEF Record
  <2> QED
    BY <2>1, <2>2, <2>3 DEF Standing
<1> QED
  BY <1>2, <1>3, <1>4, <1>5 DEF Typed

LEMMA CrashTyped ==
  ASSUME Typed, Crash
  PROVE  Typed'
<1>1. cursor \in 0..Len(script) /\ receipts \in Seq({r.document : r \in Responses})
  BY DEF Typed, ModelTyped
<1>2. cursor' \in 0..Len(script)
  BY <1>1 DEF Crash, Unemitted
<1>3. receipts' \in Seq({r.document : r \in Responses})
  <2>1. CASE receipts = <<>>
    BY <1>1, <2>1 DEF Crash, Unemitted
  <2>2. CASE receipts # <<>>
    <3>1. Len(receipts) \in Nat \ {0}
      BY <1>1, <2>2
    <3>2. SubSeq(receipts, 1, Len(receipts) - 1) \in Seq({r.document : r \in Responses})
      BY <1>1, <3>1
    <3> QED
      BY <1>1, <3>2 DEF Crash, Unemitted
  <2> QED
    BY <2>1, <2>2
<1>4. ModelTyped' /\ Received(net)'
  BY <1>2, <1>3 DEF Crash, Typed, ModelTyped
<1>5. TurnTyped'
  BY EmptyTyped, TurnsAssumption DEF Crash, Typed, TurnTyped, Phases
<1>6. Phased' /\ Standing'
  BY DEF Crash, Typed, TurnTyped, Phased, Standing
<1> QED
  BY <1>4, <1>5, <1>6 DEF Typed

LEMMA DecodeTyped ==
  ASSUME Typed, Decode
  PROVE  Typed'
<1>1. /\ phase' \in {"turn", "call", "await", "over"}
      /\ phase' = "call" => DecodeLine(Recorded).kind = "call"
  BY DEF Decode
<1>2. phase = "decode" /\ UNCHANGED <<modelVars, last, shown, out, log, performed, crashes, net>>
  BY DEF Decode
<1>3. ModelTyped' /\ TurnTyped' /\ Received(net)'
  BY <1>1, <1>2 DEF Typed, ModelTyped, TurnTyped, Phases, modelVars
<1>4. Phased' /\ Standing'
  BY <1>1, <1>2 DEF Typed, Phased, Standing, Recorded
<1> QED
  BY <1>3, <1>4 DEF Typed

\* The line a call decodes is a line that was recorded.
LEMMA RecordedLine ==
  ASSUME Typed, phase \in {"decode", "call", "await"}
  PROVE  /\ Len(log) \in DOMAIN log
         /\ log[Len(log)] \in Answers /\ Recorded \in Line
         /\ Recorded # NoLine
<1>1. log \in Seq(Answers) /\ log # <<>>
  BY DEF Typed, TurnTyped, Standing
<1>2. Len(log) \in DOMAIN log
  BY <1>1
<1>3. log[Len(log)] \in Answers
  BY <1>1, <1>2
<1>4. log[Len(log)].line \in Line
  BY <1>3 DEF Answers
<1>5. log[Len(log)].line # NoLine
  BY <1>2 DEF Typed, Standing
<1> QED
  BY <1>2, <1>3, <1>4, <1>5 DEF Recorded

LEMMA CallTyped ==
  ASSUME Typed, Call
  PROVE  Typed'
<1> DEFINE call == DecodeLine(Recorded)
<1>0. phase = "call"
  BY DEF Call
<1>1. PICK report \in Reports[call.tool] :
        LET outcome == Mask(report)
        IN /\ performed' = Append(performed,
                [call |-> call, turn |-> Len(log), outcome |-> outcome])
           /\ IF RunsOn(call, outcome)
              THEN phase' = "turn" /\ last' = Reported(call, outcome)
              ELSE phase' = "over" /\ UNCHANGED last
  BY DEF Call
<1>2. call.kind = "call"
  BY <1>0 DEF Typed, Standing
<1>3. report \in Seq(Cell) /\ report # <<>>
  BY <1>2, CallNames, TurnsAssumption
<1> DEFINE outcome == Mask(report)
<1>4. outcome \in Seq(Cell \cup Marker) /\ outcome # <<>>
  BY <1>3, MaskIsClean
<1>5. call \in {DecodeLine(line) : line \in Line} /\ Len(log) \in Nat
  BY <1>0, RecordedLine DEF Typed, TurnTyped
<1>6. [call |-> call, turn |-> Len(log), outcome |-> outcome] \in Performance
  BY <1>4, <1>5 DEF Performance
<1>7. Reported(call, outcome) \in Observation
  <2>1. Min({Size(outcome), ObservationCap}) \in Nat
    BY <1>4, ReportSize
  <2>2. /\ "pin" \in DOMAIN call.args => call.args.pin \in Pins
        /\ "sensor" \in DOMAIN call.args => call.args.sensor \in Sensors
    BY <1>2, CallNames
  <2> QED
    BY <2>1, <2>2, ToolsAssumption DEF Reported, Observation
<1> HIDE DEF call, outcome
<1>8. /\ performed' = Append(performed, [call |-> call, turn |-> Len(log), outcome |-> outcome])
      /\ phase' \in {"turn", "over"} /\ last' \in Observation
  BY <1>1, <1>7 DEF call, outcome, Typed, TurnTyped
<1>9. UNCHANGED <<modelVars, shown, out, log, crashes, net>>
  BY DEF Call
<1>10. /\ performed' \in Seq(Performance) /\ Len(performed') = Len(performed) + 1
       /\ Len(performed) \in Nat
  BY <1>6, <1>8 DEF Typed, TurnTyped
<1>11. ModelTyped' /\ Received(net)'
  BY <1>9 DEF Typed, ModelTyped, modelVars
<1>12. TurnTyped'
  BY <1>8, <1>9, <1>10 DEF Typed, TurnTyped, Phases
<1>13. Phased' /\ Standing'
  BY <1>0, <1>5, <1>8, <1>9, <1>10 DEF Typed, Phased, Standing
<1> QED
  BY <1>11, <1>12, <1>13 DEF Typed

LEMMA InputTyped ==
  ASSUME Typed, Input
  PROVE  Typed'
<1>1. ModelTyped' /\ Received(net)'
  BY DEF Input, Typed, ModelTyped, modelVars
<1>2. TurnTyped'
  BY DEF Input, Typed, TurnTyped, Phases
<1>3. Phased' /\ Standing'
  BY DEF Input, Typed, Phased, Standing
<1> QED
  BY <1>1, <1>2, <1>3 DEF Typed

LEMMA NextTyped ==
  ASSUME Typed, [Next]_vars
  PROVE  Typed'
<1>1. CASE UNCHANGED vars
  BY <1>1 DEF vars, modelVars, turnVars, Typed, ModelTyped, TurnTyped, Phased,
     Standing, Recorded
<1> QED
  BY <1>1, ScheduleTyped, EmitTyped, LookUpTyped, AskJevTyped, ExchangingTyped,
     JevAnswersTyped, RecordTyped, CrashTyped, DecodeTyped, CallTyped, InputTyped
  DEF Next, Asking

\* Every run's state is of its types: an answer waits to be recorded only where
\* one may, and the exchange is open only while Jev is asked.
THEOREM TurnsTyped == Spec => []TypeOK
<1>1. Typed => TypeOK
  <2> SUFFICES ASSUME Typed
               PROVE  TypeOK
    OBVIOUS
  <2>1. last \in Observation /\ shown \in Display
    BY DEF Typed, TurnTyped
  <2>2. last.pin \in Pins /\ last.sensor \in Sensors \cup {0} /\ last.size \in Nat
    BY <2>1 DEF Observation
  <2>3. last.pin \in Nat /\ last.sensor \in Nat
    <3>1. \A n \in 0..NumberCap : n \in Nat
      BY ToolsAssumption
    <3>2. Pins \subseteq 0..NumberCap /\ Sensors \subseteq 0..NumberCap
      BY ToolsAssumption
    <3>3. last.pin \in 0..NumberCap /\ (last.sensor \in 0..NumberCap \/ last.sensor = 0)
      BY <2>2, <3>2
    <3> QED
      BY <3>1, <3>3
  <2>4. shown.bytes \in Nat /\ shown.marked \in BOOLEAN
    BY <2>1 DEF Display
  <2>5. backend \in {"scripted", "tiny", "jev"} /\ cursor \in 0..Len(script)
    BY DEF Typed, ModelTyped
  <2>6. /\ phase \in {"turn", "infer", "asking", "answered", "decode", "call",
                     "await", "over"}
        /\ crashes \in 0..MaxCrashes
    BY DEF Typed, TurnTyped, Phases
  <2>7. /\ phase # "answered" => out = NoAnswer
        /\ phase # "asking" => net = NoExchange
        /\ Len(log) <= MaxTurns /\ Len(performed) <= Len(log)
    BY DEF Typed, Phased
  <2> QED
    BY <2>2, <2>3, <2>4, <2>5, <2>6, <2>7 DEF TypeOK
<1> QED
  BY <1>1, InitTyped, NextTyped, PTL DEF Spec

----------------------------------------------------------------------------
(* What a line is rendered from.                                           *)

HintsShown(evidence, s) ==
  IF s.marked \/ s.bytes = 0 THEN NoHints
  ELSE [pin |-> evidence.pin, sensor |-> evidence.sensor]

\* A line of Jev's is rendered from an answer received in full, with hints of
\* what the prompt showed.
FromJev(a) ==
  /\ InFull(a.response, a.got)
  /\ a.line = RenderLine(Choice(a.response.document), HintsShown(a.evidence, a.shown))

Backed(a) == a.line # NoLine /\ backend = "jev" => FromJev(a)

Grounded == Backed(out) /\ \A n \in DOMAIN log : Backed(log[n])

\* A performed call is the one its turn's line decodes to, and its report was
\* masked.
Acted ==
  \A n \in DOMAIN performed :
    /\ performed[n].turn \in DOMAIN log
    /\ log[performed[n].turn].line # NoLine
    /\ performed[n].call = DecodeLine(log[performed[n].turn].line)
    /\ performed[n].call.kind = "call"
    /\ ~HoldsSecret(performed[n].outcome)

LEMMA InitGrounded ==
  ASSUME Init
  PROVE  Grounded /\ Acted
BY DEF Init, Grounded, Acted, Backed, NoAnswer

\* A line is produced by a backend that is not Jev, or by Jev from an answer.
LEMMA ProduceGrounded ==
  ASSUME Grounded, NEW line, Produce(line),
         line # NoLine /\ backend = "jev" =>
           /\ InFull(net.response, net.got)
           /\ line = RenderLine(Choice(net.response.document), DeriveHints)
  PROVE  Grounded'
<1>1. /\ out'.line = line /\ out'.evidence = last /\ out'.shown = shown
      /\ out'.response = net.response /\ out'.got = net.got
      /\ UNCHANGED <<backend, log>>
  BY DEF Produce, Answer
<1>2. DeriveHints = HintsShown(last, shown)
  BY DEF DeriveHints, HintsShown
<1>3. Backed(out)'
  BY <1>1, <1>2 DEF Backed, FromJev
<1> QED
  BY <1>1, <1>3 DEF Grounded, Backed

\* A step that leaves the answers alone.
LEMMA QuietGrounded ==
  ASSUME Grounded, UNCHANGED <<backend, out, log>>
  PROVE  Grounded'
BY DEF Grounded, Backed

LEMMA AskingGrounded ==
  ASSUME Typed, Grounded, Asking
  PROVE  Grounded'
<1>1. CASE Emit
  BY <1>1, ProduceGrounded DEF Emit
<1>2. CASE LookUp
  BY <1>2, ProduceGrounded DEF LookUp
<1>3. CASE AskJev
  BY <1>3, QuietGrounded DEF AskJev, modelVars
<1>4. CASE Exchanging
  BY <1>4, QuietGrounded DEF Exchanging, modelVars, turnVars
<1>5. CASE JevAnswers
  <2>1. CASE Answered
    BY <1>5, <2>1, AnsweredInFull, ProduceGrounded DEF JevAnswers, Typed
  <2>2. CASE ~Answered
    BY <1>5, <2>2, ProduceGrounded DEF JevAnswers
  <2> QED
    BY <2>1, <2>2
<1> QED
  BY <1>1, <1>2, <1>3, <1>4, <1>5 DEF Asking

LEMMA RecordGrounded ==
  ASSUME Typed, Grounded, Record
  PROVE  Grounded'
<1>0. log \in Seq(Answers) /\ out \in Answers /\ log' = Append(log, out)
  BY DEF Record, Typed, TurnTyped
<1>1. backend' = backend /\ out' = NoAnswer
  BY DEF Record, modelVars
<1>2. ASSUME NEW n \in DOMAIN log'
      PROVE  Backed(log[n])'
  <2>1. log'[n] = out \/ (n \in DOMAIN log /\ log'[n] = log[n])
    BY <1>0
  <2> QED
    BY <1>1, <2>1 DEF Grounded, Backed
<1> QED
  BY <1>1, <1>2 DEF Grounded, Backed, NoAnswer

LEMMA NextGrounded ==
  ASSUME Typed, Grounded, [Next]_vars
  PROVE  Grounded'
<1>1. CASE UNCHANGED vars
  BY <1>1, QuietGrounded DEF vars, modelVars, turnVars
<1>2. CASE Crash
  BY <1>2 DEF Crash, Grounded, Backed, NoAnswer
<1>3. CASE Schedule
  BY <1>3, QuietGrounded DEF Schedule, modelVars
<1>4. CASE Decode
  BY <1>4, QuietGrounded DEF Decode, modelVars
<1>5. CASE Call
  BY <1>5, QuietGrounded DEF Call, modelVars
<1>6. CASE Input
  BY <1>6, QuietGrounded DEF Input, modelVars
<1> QED
  BY <1>1, <1>2, <1>3, <1>4, <1>5, <1>6, AskingGrounded, RecordGrounded DEF Next

LEMMA NextActed ==
  ASSUME Typed, Acted, [Next]_vars
  PROVE  Acted'
<1>1. CASE Record
  <2>1. log \in Seq(Answers) /\ out \in Answers /\ log' = Append(log, out)
    BY <1>1 DEF Record, Typed, TurnTyped
  <2>2. \A n \in DOMAIN log : n \in DOMAIN log' /\ log'[n] = log[n]
    BY <2>1
  <2>3. performed' = performed
    BY <1>1 DEF Record
  <2> QED
    BY <2>2, <2>3 DEF Acted
<1>2. CASE Call
  <2> DEFINE call == DecodeLine(Recorded)
  <2>0. phase = "call" /\ log' = log
    BY <1>2 DEF Call
  <2>1. PICK report \in Reports[call.tool] :
          performed' = Append(performed,
             [call |-> call, turn |-> Len(log), outcome |-> Mask(report)])
    BY <1>2 DEF Call
  <2>2. call.kind = "call"
    BY <2>0 DEF Typed, Standing
  <2>3. report \in Seq(Cell)
    BY <2>2, CallNames, TurnsAssumption
  <2>4. ~HoldsSecret(Mask(report))
    BY <2>3, MaskIsClean
  <2>5. Len(log) \in DOMAIN log /\ Recorded # NoLine
    BY <2>0, RecordedLine
  <2> DEFINE entry == [call |-> call, turn |-> Len(log), outcome |-> Mask(report)]
  <2>6. /\ entry.turn \in DOMAIN log /\ log[entry.turn].line # NoLine
        /\ entry.call = DecodeLine(log[entry.turn].line)
        /\ entry.call.kind = "call" /\ ~HoldsSecret(entry.outcome)
    BY <2>2, <2>4, <2>5 DEF Recorded
  <2>7. performed \in Seq(Performance) /\ performed' = Append(performed, entry)
    BY <2>1 DEF Typed, TurnTyped
  <2> HIDE DEF entry
  <2>8. ASSUME NEW n \in DOMAIN performed'
        PROVE  performed'[n] = entry \/ (n \in DOMAIN performed /\ performed'[n] = performed[n])
    <3>1. DOMAIN performed' = 1..(Len(performed) + 1) /\ Len(performed) \in Nat
          /\ DOMAIN performed = 1..Len(performed)
      BY <2>7
    <3>2. n = Len(performed) + 1 \/ n \in 1..Len(performed)
      BY <3>1
    <3> QED
      BY <2>7, <3>1, <3>2
  <2> QED
    BY <2>0, <2>6, <2>8 DEF Acted
<1>3. CASE ~Record /\ ~Call
  <2>1. performed' = performed /\ log' = log
    BY <1>3 DEF Next, Asking, Schedule, Emit, LookUp, AskJev, Exchanging, JevAnswers,
       Produce, Crash, Decode, Input, vars, turnVars
  <2> QED
    BY <2>1 DEF Acted
<1> QED
  BY <1>1, <1>2, <1>3

THEOREM TurnsInductive == Spec => [](Typed /\ Grounded /\ Acted)
<1>1. Init => Typed /\ Grounded /\ Acted
  BY InitTyped, InitGrounded
<1>2. Typed /\ Grounded /\ Acted /\ [Next]_vars => (Typed /\ Grounded /\ Acted)'
  BY NextTyped, NextGrounded, NextActed
<1> QED
  BY <1>1, <1>2, PTL DEF Spec

\* What a tool reports is recorded without a token and without an access key,
\* wherever in the report it is and whatever else of it is masked.
THEOREM RecordsAreClean == Spec => []RecordsHoldNoSecret
<1>1. Acted => RecordsHoldNoSecret
  BY DEF Acted, RecordsHoldNoSecret
<1> QED
  BY <1>1, TurnsInductive, PTL

\* Where Jev is in doubt, the line is a question.
LEMMA DoubtAsks ==
  ASSUME NEW document, NEW hints, document.should_ask.noul >= NOUL_GATE_BPS
  PROVE  RenderLine(Choice(document), hints).verb = "ASK"
BY DEF Choice, RenderLine, AskLine

\* Every recorded line of Jev's was answered in full, whatever the connection
\* did and however the end of the body was announced.
THEOREM AnswersAreFull == Spec => []OnlyFullAnswersDecide
<1>1. ASSUME Typed, Grounded
      PROVE  OnlyFullAnswersDecide
  <2> SUFFICES ASSUME NEW n \in DOMAIN log, backend = "jev", log[n].line # NoLine
               PROVE  LET r == log[n].response
                      IN /\ r.status = 200 /\ r.document.model = "pinned"
                         /\ log[n].got >= r.head + r.document.cells
                         /\ \/ r.lengths = {r.document.cells}
                            \/ /\ r.lengths = {}
                               /\ log[n].got = r.head + r.document.cells
                         /\ \/ log[n].line.verb = "ASK"
                            \/ r.document.should_ask.noul < NOUL_GATE_BPS
    BY DEF OnlyFullAnswersDecide
  <2> DEFINE r == log[n].response
  <2>1. FromJev(log[n])
    BY <1>1 DEF Grounded, Backed
  <2>2. r.document.should_ask.noul \in Nat /\ NOUL_GATE_BPS \in Nat
    BY <2>1, SystemOneAssumption DEF FromJev, InFull
  <2>3. CASE r.document.should_ask.noul >= NOUL_GATE_BPS
    <3>1. log[n].line.verb = "ASK"
      BY <2>1, <2>3, DoubtAsks DEF FromJev
    <3> QED
      BY <2>1, <3>1 DEF FromJev, InFull
  <2>4. CASE ~(r.document.should_ask.noul >= NOUL_GATE_BPS)
    <3>1. r.document.should_ask.noul < NOUL_GATE_BPS
      BY <2>2, <2>4
    <3> QED
      BY <2>1, <3>1 DEF FromJev, InFull
  <2> QED
    BY <2>3, <2>4
<1>2. Typed /\ Grounded => OnlyFullAnswersDecide
  BY <1>1
<1> QED
  BY <1>2, TurnsInductive, PTL

----------------------------------------------------------------------------
(* What a model has emitted, where a crash loses no fault.                 *)

\* Lines on record: all answers, but for a fault at their end.
Said == IF log # <<>> /\ log[Len(log)].line = NoLine THEN Len(log) - 1 ELSE Len(log)

Emitted ==
  /\ backend = "scripted" =>
       /\ cursor = Said + Unrecorded
       /\ \A n \in 1..Said : log[n].line = script[n]
       /\ out.line # NoLine => out.line = script[cursor]
  /\ backend = "jev" =>
       /\ Len(receipts) = Said + Unrecorded
       /\ \A n \in 1..Said : receipts[n] = log[n].response.document
       /\ out.line # NoLine => receipts[Len(receipts)] = out.response.document

LEMMA SaidLines ==
  ASSUME Typed
  PROVE  /\ Said \in Nat
         /\ Emissions = 1..Said
         /\ phase # "over" => Said = Len(log)
<1>1. log \in Seq(Answers) /\ Len(log) \in Nat /\ DOMAIN log = 1..Len(log)
  BY DEF Typed, TurnTyped
<1>2. \A n \in DOMAIN log : log[n].line = NoLine => n = Len(log) /\ phase = "over"
  BY DEF Typed, Standing
<1>3. CASE log # <<>> /\ log[Len(log)].line = NoLine
  <2>1. Len(log) \in Nat \ {0} /\ Said = Len(log) - 1
    BY <1>1, <1>3 DEF Said
  <2>2. ASSUME NEW n \in 1..Len(log)
        PROVE  log[n].line # NoLine <=> n # Len(log)
    BY <1>1, <1>2, <1>3
  <2>3. phase = "over"
    BY <1>1, <1>2, <1>3, <2>1
  <2>4. Emissions = {n \in 1..Len(log) : n # Len(log)}
    BY <1>1, <2>2 DEF Emissions
  <2>5. {n \in 1..Len(log) : n # Len(log)} = 1..(Len(log) - 1)
    <3> DEFINE m == Len(log)
    <3>1. m \in Nat \ {0}
      BY <2>1
    <3> HIDE DEF m
    <3>2. {n \in 1..m : n # m} = 1..(m - 1)
      BY <3>1
    <3> QED
      BY <3>2 DEF m
  <2> QED
    BY <2>1, <2>3, <2>4, <2>5
<1>4. CASE ~(log # <<>> /\ log[Len(log)].line = NoLine)
  <2>1. Said = Len(log)
    BY <1>4 DEF Said
  <2>2. ASSUME NEW n \in 1..Len(log)
        PROVE  log[n].line # NoLine
    BY <1>1, <1>2, <1>4
  <2>3. Emissions = 1..Len(log)
    BY <1>1, <2>2 DEF Emissions
  <2> QED
    BY <1>1, <2>1, <2>3
<1> QED
  BY <1>3, <1>4

LEMMA InitEmitted ==
  ASSUME Init
  PROVE  Emitted
BY DEF Init, Emitted, Said, Unrecorded, NoAnswer

\* A step that leaves the record, the model and the answer alone.
LEMMA QuietEmitted ==
  ASSUME Emitted, UNCHANGED <<backend, script, cursor, receipts, out, log>>
  PROVE  Emitted'
BY DEF Emitted, Said, Unrecorded

LEMMA EmitEmitted ==
  ASSUME Typed, Emitted, Emit
  PROVE  Emitted'
<1>1. /\ backend = "scripted" /\ backend' = "scripted" /\ phase = "infer"
      /\ log' = log /\ script' = script
  BY DEF Emit, Produce
<1>2. out = NoAnswer /\ Unrecorded = 0 /\ Said' = Said /\ cursor = Said
  <2>1. out = NoAnswer
    BY <1>1 DEF Typed, Phased
  <2>2. Unrecorded = 0 /\ Said' = Said
    BY <1>1, <2>1 DEF Unrecorded, NoAnswer, Said
  <2> QED
    BY <1>1, <2>1, <2>2, SaidLines DEF Emitted
<1>3. /\ script \in Seq(Line) /\ cursor \in 0..Len(script)
      /\ \A n \in DOMAIN script : script[n] # NoLine
  BY <1>1, ScriptLines DEF Typed, ModelTyped
<1>4. \A n \in 1..Said' : log'[n].line = script'[n]
  BY <1>1, <1>2 DEF Emitted
<1>5. CASE cursor < Len(script) /\ ~script[cursor + 1].overlong
  <2>1. out'.line = script[cursor + 1] /\ cursor' = cursor + 1
    BY <1>5 DEF Emit, Produce, Answer
  <2>2. cursor + 1 \in DOMAIN script
    BY <1>3, <1>5
  <2>3. out'.line # NoLine
    BY <1>3, <2>1, <2>2
  <2>4. Unrecorded' = 1
    BY <2>3 DEF Unrecorded
  <2> QED
    BY <1>1, <1>2, <1>4, <2>1, <2>4 DEF Emitted
<1>6. CASE ~(cursor < Len(script) /\ ~script[cursor + 1].overlong)
  <2>1. out'.line = NoLine /\ cursor' = cursor
    BY <1>6 DEF Emit, Produce, Answer
  <2>2. Unrecorded' = 0
    BY <2>1 DEF Unrecorded
  <2> QED
    BY <1>1, <1>2, <1>4, <2>1, <2>2, SaidLines DEF Emitted
<1> QED
  BY <1>5, <1>6

LEMMA JevAnswersEmitted ==
  ASSUME Typed, Emitted, JevAnswers, backend = "jev"
  PROVE  Emitted'
<1>1. backend' = "jev" /\ phase = "asking" /\ log' = log
  BY DEF JevAnswers, Produce
<1>2. out = NoAnswer /\ Unrecorded = 0 /\ Said' = Said /\ Len(receipts) = Said
  <2>1. out = NoAnswer
    BY <1>1 DEF Typed, Phased
  <2>2. Unrecorded = 0 /\ Said' = Said
    BY <1>1, <2>1 DEF Unrecorded, NoAnswer, Said
  <2> QED
    BY <2>1, <2>2, SaidLines DEF Emitted
<1>3. \A n \in 1..Said : receipts[n] = log[n].response.document
  BY DEF Emitted
<1>4. Said \in Nat
  BY SaidLines
<1>5. CASE Answered
  <2> DEFINE document == net.response.document
             line == RenderLine(Choice(document), DeriveHints)
  <2>1. /\ out'.line = line /\ out'.response = net.response
        /\ receipts' = Append(receipts, document)
    BY <1>5 DEF JevAnswers, Produce, Answer
  <2>2. line # NoLine
    BY <1>5, JevLine DEF Typed
  <2>3. Unrecorded' = 1
    BY <2>1, <2>2 DEF Unrecorded
  <2>4. receipts \in Seq({r.document : r \in Responses})
    BY DEF Typed, ModelTyped
  <2> HIDE DEF document, line
  <2>5. /\ Len(receipts') = Said + 1 /\ receipts'[Said + 1] = document
        /\ \A n \in 1..Said : receipts'[n] = receipts[n]
    BY <1>2, <1>4, <2>1, <2>4
  <2> QED
    BY <1>1, <1>2, <1>3, <2>1, <2>3, <2>5 DEF Emitted, document
<1>6. CASE ~Answered
  <2>1. out'.line = NoLine /\ receipts' = receipts
    BY <1>6 DEF JevAnswers, Produce, Answer
  <2>2. Unrecorded' = 0
    BY <2>1 DEF Unrecorded
  <2> QED
    BY <1>1, <1>2, <1>3, <1>4, <2>1, <2>2 DEF Emitted
<1> QED
  BY <1>5, <1>6

LEMMA RecordEmitted ==
  ASSUME Typed, Emitted, Record
  PROVE  Emitted'
<1>1. /\ UNCHANGED <<backend, script, cursor, receipts>>
      /\ log' = Append(log, out) /\ out' = NoAnswer /\ phase = "answered"
  BY DEF Record, modelVars
<1>2. log \in Seq(Answers) /\ out \in Answers
  BY DEF Typed, TurnTyped
<1>3. /\ Len(log') = Len(log) + 1 /\ log'[Len(log) + 1] = out /\ log' # <<>>
      /\ \A n \in 1..Len(log) : log'[n] = log[n]
      /\ Len(log) \in Nat
  BY <1>1, <1>2
<1>4. Said = Len(log)
  BY <1>1, SaidLines
<1>5. Said' = Said + Unrecorded
  <2>1. log'[Len(log')] = out
    BY <1>3
  <2>2. Said' = IF out.line = NoLine THEN Len(log') - 1 ELSE Len(log')
    BY <1>3, <2>1 DEF Said
  <2>3. CASE out.line = NoLine
    BY <1>3, <1>4, <2>2, <2>3 DEF Unrecorded
  <2>4. CASE out.line # NoLine
    BY <1>3, <1>4, <2>2, <2>4 DEF Unrecorded
  <2> QED
    BY <2>3, <2>4
<1>6. Unrecorded' = 0
  BY <1>1 DEF Unrecorded, NoAnswer
<1>7. ASSUME NEW n \in 1..Said'
      PROVE  \/ n \in 1..Said /\ log'[n] = log[n]
             \/ n = Said + 1 /\ Unrecorded = 1 /\ log'[n] = out /\ out.line # NoLine
  <2>1. Unrecorded \in {0, 1} /\ (Unrecorded = 1 => out.line # NoLine)
    BY DEF Unrecorded
  <2> QED
    <3>1. n \in 1..Len(log) \/ (n = Len(log) + 1 /\ Unrecorded = 1)
      BY <1>3, <1>4, <1>5, <1>7, <2>1
    <3> QED
      BY <1>3, <1>4, <2>1, <3>1
<1>8. Said \in Nat /\ Unrecorded \in {0, 1}
  BY <1>3, <1>4 DEF Unrecorded
<1>9. ASSUME backend = "scripted"
      PROVE  /\ cursor' = Said' + Unrecorded'
             /\ \A n \in 1..Said' : log'[n].line = script'[n]
             /\ out'.line # NoLine => out'.line = script'[cursor']
  <2>1. cursor' = Said' + Unrecorded'
    BY <1>1, <1>5, <1>6, <1>8, <1>9 DEF Emitted
  <2>2. ASSUME NEW n \in 1..Said'
        PROVE  log'[n].line = script'[n]
    BY <1>1, <1>7, <1>9, <2>2 DEF Emitted
  <2> QED
    BY <1>1, <2>1, <2>2 DEF NoAnswer
<1>10. ASSUME backend = "jev"
       PROVE  /\ Len(receipts') = Said' + Unrecorded'
              /\ \A n \in 1..Said' : receipts'[n] = log'[n].response.document
              /\ out'.line # NoLine =>
                   receipts'[Len(receipts')] = out'.response.document
  <2>1. Len(receipts') = Said' + Unrecorded'
    BY <1>1, <1>5, <1>6, <1>8, <1>10 DEF Emitted
  <2>2. ASSUME NEW n \in 1..Said'
        PROVE  receipts'[n] = log'[n].response.document
    BY <1>1, <1>7, <1>10, <2>2 DEF Emitted
  <2> QED
    BY <1>1, <2>1, <2>2 DEF NoAnswer
<1> QED
  BY <1>1, <1>9, <1>10 DEF Emitted

LEMMA CrashEmitted ==
  ASSUME Typed, Emitted, Crash, ~FaultsLost
  PROVE  Emitted'
<1>1. /\ backend' = backend /\ script' = script /\ log' = log /\ out' = NoAnswer
      /\ phase = "answered" /\ out.line # NoLine
  BY DEF Crash
<1>2. Unrecorded = 1 /\ Unrecorded' = 0 /\ Said' = Said /\ Said \in Nat
  BY <1>1, SaidLines DEF Unrecorded, NoAnswer, Said
<1>3. ASSUME backend = "scripted"
      PROVE  cursor' = Said
  <2>1. cursor = Said + 1
    BY <1>2, <1>3 DEF Emitted
  <2>2. cursor' = cursor - 1
    BY <1>2, <1>3, <2>1 DEF Crash, Unemitted
  <2> QED
    BY <1>2, <2>1, <2>2
<1>4. ASSUME backend = "jev"
      PROVE  /\ Len(receipts') = Said
             /\ \A n \in 1..Said : receipts'[n] = receipts[n]
  <2>1. receipts \in Seq({r.document : r \in Responses}) /\ Len(receipts) = Said + 1
    BY <1>2, <1>4 DEF Emitted, Typed, ModelTyped
  <2>2. receipts # <<>>
    BY <1>2, <2>1
  <2>3. receipts' = SubSeq(receipts, 1, Len(receipts) - 1)
    BY <1>4, <2>2 DEF Crash, Unemitted
  <2>4. receipts' = SubSeq(receipts, 1, Said)
    BY <1>2, <2>1, <2>3
  <2> QED
    BY <1>2, <2>1, <2>4
<1>5. backend = "scripted" => \A n \in 1..Said : log'[n].line = script'[n]
  BY <1>1 DEF Emitted
<1>6. backend = "jev" => \A n \in 1..Said : receipts'[n] = log'[n].response.document
  BY <1>1, <1>4 DEF Emitted
<1>7. out'.line = NoLine
  BY <1>1 DEF NoAnswer
<1> QED
  BY <1>1, <1>2, <1>3, <1>4, <1>5, <1>6, <1>7 DEF Emitted

\* Jev alone is asked, so Jev alone answers.
AskedIsJev == phase = "asking" => backend = "jev"

LEMMA NextAsked ==
  ASSUME AskedIsJev, [Next]_vars
  PROVE  AskedIsJev'
BY DEF AskedIsJev, Next, Asking, Schedule, Emit, LookUp, AskJev, Exchanging, JevAnswers,
   Produce, Record, Crash, Decode, Call, Input, vars, turnVars, modelVars

LEMMA NextEmitted ==
  ASSUME Typed, AskedIsJev, Emitted, [Next]_vars, ~FaultsLost
  PROVE  Emitted'
<1>1. CASE UNCHANGED vars
  BY <1>1, QuietEmitted DEF vars, modelVars, turnVars
<1>2. CASE Schedule
  BY <1>2, QuietEmitted DEF Schedule, modelVars
<1>3. CASE LookUp
  <2>1. backend' = "tiny"
    BY <1>3 DEF LookUp, Produce
  <2> QED
    BY <2>1 DEF Emitted
<1>4. CASE AskJev
  BY <1>4, QuietEmitted DEF AskJev, modelVars
<1>5. CASE Exchanging
  BY <1>5, QuietEmitted DEF Exchanging, modelVars, turnVars
<1>6. CASE JevAnswers
  BY <1>6, JevAnswersEmitted DEF AskedIsJev, JevAnswers
<1>7. CASE Decode
  BY <1>7, QuietEmitted DEF Decode, modelVars
<1>8. CASE Call
  BY <1>8, QuietEmitted DEF Call, modelVars
<1>9. CASE Input
  BY <1>9, QuietEmitted DEF Input, modelVars
<1> QED
  BY <1>1, <1>2, <1>3, <1>4, <1>5, <1>6, <1>7, <1>8, <1>9, EmitEmitted, RecordEmitted,
     CrashEmitted DEF Next, Asking

\* Crashes make a model neither skip nor repeat a line, and Jev's receipts are
\* those of the recorded decisions, in order, as long as what a crash loses is
\* a line: a lost fault would take a recorded line back.
THEOREM EmissionsSurvive ==
  ASSUME ~FaultsLost
  PROVE  Spec => []EmissionsAreRecorded
<1>1. Init => Typed /\ AskedIsJev /\ Emitted
  BY InitTyped, InitEmitted DEF Init, AskedIsJev
<1>2. Typed /\ AskedIsJev /\ Emitted /\ [Next]_vars => (Typed /\ AskedIsJev /\ Emitted)'
  BY NextTyped, NextAsked, NextEmitted
<1>3. ASSUME Typed, Emitted
      PROVE  EmissionsAreRecorded
  <2>1. Emissions = 1..Said /\ Said \in Nat
    BY <1>3, SaidLines
  <2>2. Cardinality(Emissions) = Said
    BY <2>1, FS_Interval
  <2> QED
    BY <1>3, <2>1, <2>2 DEF Emitted, EmissionsAreRecorded
<1>4. Typed /\ Emitted => EmissionsAreRecorded
  BY <1>3
<1> QED
  BY <1>1, <1>2, <1>4, PTL DEF Spec

=============================================================================
