------------------------------ MODULE Masking ------------------------------
(***************************************************************************)
(* Masking (esper-core mask.rs): one pass over a report that copies what   *)
(* looks harmless and puts a marker in place of what looks like a secret   *)
(* or like personal data, before the report is recorded.                   *)
(*                                                                         *)
(* A report is a sequence of cells, each standing for its class of bytes;  *)
(* an anchor is one cell.  A marker is one cell, and of no class.          *)
(***************************************************************************)
EXTENDS Naturals, SequencesExt

CONSTANTS
  TokenMin, TokenCap,   \* cells of a token after its anchor: least, most
  AkiaTail,             \* cells of an access key after its anchor
  PemWindow,            \* cells an armoured key is searched for its end
  DomainMin,            \* cells of a domain
  PhoneMin, PhoneMax,   \* digits of a phone number: least, most
  BareMax               \* digits of one that has no separator

ASSUME MaskingAssumption ==
  /\ {TokenMin, TokenCap, AkiaTail, PemWindow, DomainMin, PhoneMin, PhoneMax,
      BareMax} \subseteq Nat \ {0}
  /\ TokenMin <= TokenCap

Letter == {"a", "k", "K"}   \* a letter, the anchor of a token, of a key
Digit == {"d"}
Alnum == Letter \cup Digit
TokenChar == Alnum \cup {".", "-", "+"}
LocalChar == Alnum \cup {".", "-", "+"}
DomainChar == Alnum \cup {".", "-"}
PhoneSep == {" ", "-", "."}
Cell == Alnum \cup PhoneSep \cup {"@", "+", "BEGIN", "END", "newline", "other"}
Marker == {"secret", "pii"}

----------------------------------------------------------------------------
(* Matchers: the cells of the span that starts at a position, 0 if none.   *)

\* The end of the longest run of a class from a position: the first cell
\* that is not of it.
RunEnd(input, from, class) ==
  Min({n \in from..(Len(input) + 1) :
         n = Len(input) + 1 \/ input[n] \notin class})

\* Mutant: the shortest token passes.
MatchTokenLonger(input, at) ==
  LET tail == Min({RunEnd(input, at + 1, TokenChar) - (at + 1), TokenCap})
  IN IF tail > TokenMin THEN 1 + tail ELSE 0

MatchToken(input, at) ==
  LET tail == Min({RunEnd(input, at + 1, TokenChar) - (at + 1), TokenCap})
  IN IF tail >= TokenMin THEN 1 + tail ELSE 0

MatchAkia(input, at) ==
  IF RunEnd(input, at + 1, Alnum) > at + AkiaTail THEN 1 + AkiaTail ELSE 0

\* To the end mark, then to the end of its line.
MatchPem(input, at) ==
  LET ends == {n \in (at + 1)..Len(input) :
                 input[n] = "END" /\ n - at < PemWindow}
      line == RunEnd(input, Min(ends), Cell \ {"newline"})
  IN IF ends = {} THEN 0 ELSE Min({line, Len(input)}) - at + 1

MatchSecret(input, at) ==
  IF input[at] = "BEGIN" THEN MatchPem(input, at)
  ELSE IF input[at] = "k" THEN MatchToken(input, at)
  ELSE IF input[at] = "K" THEN MatchAkia(input, at)
  ELSE 0

\* The local part's first cell and the domain's last.
LocalStart(input, at) ==
  Min({n \in 1..at : \A k \in n..(at - 1) : input[k] \in LocalChar})

DomainEnd(input, at) ==
  Max({n \in at..(RunEnd(input, at + 1, DomainChar) - 1) :
         n = at \/ input[n] # "."})

IsEmail(input, at) ==
  /\ input[at] = "@"
  /\ LocalStart(input, at) < at
  /\ DomainEnd(input, at) - at >= DomainMin
  /\ \E n \in (at + 1)..DomainEnd(input, at) : input[n] = "."

\* Digits and separators, without the separators at its end.
PhoneEnd(input, at) ==
  LET first == IF input[at] = "+" THEN at + 1 ELSE at
      run == RunEnd(input, first, Digit \cup PhoneSep) - 1
  IN Max({n \in at..run : n = at \/ input[n] \in Digit})

PhoneDigits(input, at) ==
  Cardinality({n \in at..PhoneEnd(input, at) : input[n] \in Digit})

MatchPhone(input, at) ==
  LET digits == PhoneDigits(input, at)
      length == PhoneEnd(input, at) - at + 1
      plus == IF input[at] = "+" THEN 1 ELSE 0
  IN IF /\ \/ input[at] \in Digit
           \/ input[at] = "+" /\ at < Len(input) /\ input[at + 1] \in Digit
        /\ digits \in PhoneMin..PhoneMax
        /\ length > digits + plus \/ digits <= BareMax
     THEN length ELSE 0

----------------------------------------------------------------------------
(* The pass.                                                               *)

\* The span and what is written in its place; the last `left` cells written
\* are taken back first.
Mark(scan, left, span, marker) ==
  [at |-> scan.at + span,
   out |-> Append(SubSeq(scan.out, 1, Len(scan.out) - left), marker)]

\* The local part was copied as it stands, so it can be taken back.
CopiedLocal(input, scan) ==
  LET left == scan.at - LocalStart(input, scan.at)
  IN /\ left <= Len(scan.out)
     /\ SubSeq(scan.out, Len(scan.out) - left + 1, Len(scan.out))
          = SubSeq(input, scan.at - left, scan.at - 1)

Step(input, scan) ==
  LET at == scan.at
  IN IF at > Len(input) THEN scan
     ELSE IF MatchSecret(input, at) > 0
     THEN Mark(scan, 0, MatchSecret(input, at), "secret")
     ELSE IF IsEmail(input, at) /\ CopiedLocal(input, scan)
     THEN Mark(scan, at - LocalStart(input, at), DomainEnd(input, at) - at + 1,
               "pii")
     ELSE IF MatchPhone(input, at) > 0
     THEN Mark(scan, 0, MatchPhone(input, at), "pii")
     ELSE [at |-> at + 1, out |-> Append(scan.out, input[at])]

\* The scan after so many steps.
Scan(input) ==
  LET scan[n \in 0..Len(input)] ==
        IF n = 0 THEN [at |-> 1, out |-> <<>>] ELSE Step(input, scan[n - 1])
  IN scan

\* Every step takes a cell at least.
Mask(input) == Scan(input)[Len(input)].out

=============================================================================
