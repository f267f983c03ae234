-------------------------- MODULE LaunchFlagsProofs --------------------------
(***************************************************************************)
(* Proofs about LaunchFlags: on a command line of any length the scans for *)
(* a flag's text and for the number behind it read what the words of the   *)
(* line say.                                                               *)
(*                                                                         *)
(* The scans are recursive functions that call themselves at a later       *)
(* position.  Each is given in closed form: the closed form solves the     *)
(* recursion, and two solutions cannot differ at a last position.          *)
(***************************************************************************)
EXTENDS LaunchFlags, FiniteSetTheorems, TLAPS

-----------------------------------------------------------------------------
(* Least and greatest positions.                                           *)

\* A nonempty set of naturals has a least element.
LEMMA LeastNatural ==
    ASSUME NEW S \in SUBSET Nat, S # {}
    PROVE  \E m \in S : \A n \in S : m <= n
<1> DEFINE below == {0..n : n \in S}
<1>1. below \in SUBSET FiniteSubsetsOf(Nat) /\ below # {}
  <2>1. \A n \in S : IsFiniteSet(0..n) /\ 0..n \in SUBSET Nat
    BY FS_Interval
  <2>2. \A n \in S : 0..n \in FiniteSubsetsOf(Nat)
    BY <2>1 DEF FiniteSubsetsOf
  <2> QED
    BY <2>2
<1>2. PICK least \in below :
        \A other \in below : <<other, least>> \notin StrictSubsetOrdering(Nat)
  BY <1>1, FS_StrictSubsetOrderingWellFounded, WFMin
<1>3. PICK m \in S : least = 0..m
  BY <1>2
<1>4. ASSUME NEW n \in S PROVE m <= n
  <2>1. SUFFICES ASSUME n < m PROVE FALSE
    OBVIOUS
  <2>2. 0..n \subseteq 0..m /\ m \in 0..m /\ m \notin 0..n /\ 0..n # 0..m
    BY <2>1
  <2>3. 0..m \in SUBSET Nat /\ 0..n \in SUBSET Nat
    OBVIOUS
  <2>4. <<0..n, 0..m>> \in StrictSubsetOrdering(Nat)
    BY <2>2, <2>3 DEF StrictSubsetOrdering
  <2> QED
    BY <1>2, <1>3, <2>4
<1> QED
  BY <1>4

\* A nonempty set of positions has a last one.
LEMMA LastPosition ==
    ASSUME NEW n \in Nat, NEW S \in SUBSET (1..n), S # {}
    PROVE  \E m \in S : \A k \in S : k <= m
<1> DEFINE back == {n - k : k \in S}
<1>0. \A k \in S : k \in Int /\ n - k \in Nat
  OBVIOUS
<1>1. back \in SUBSET Nat /\ back # {}
  BY <1>0
<1>2. PICK b \in back : \A c \in back : b <= c
  BY <1>1, LeastNatural
<1>3. PICK m \in S : b = n - m
  BY <1>2
<1>4. ASSUME NEW k \in S PROVE k <= m
  <2>1. n - m <= n - k
    BY <1>2, <1>3
  <2> QED
    BY <1>0, <2>1
<1> QED
  BY <1>4

-----------------------------------------------------------------------------
(* The command line.                                                       *)

LineOK == command_line \in Seq(Chars)

Size == Len(command_line)

\* The first position from pos on that is in S; 0 if there is none.
FirstIn(S, pos) ==
    IF \E q \in S : q >= pos THEN CHOOSE q \in S : q >= pos /\ \A r \in S : r >= pos => q <= r
    ELSE 0

LEMMA FirstInIs ==
    ASSUME NEW S \in SUBSET Nat, NEW pos \in Nat
    PROVE  /\ (\E q \in S : q >= pos) =>
                /\ FirstIn(S, pos) \in S /\ FirstIn(S, pos) >= pos
                /\ \A r \in S : r >= pos => FirstIn(S, pos) <= r
           /\ ~(\E q \in S : q >= pos) => FirstIn(S, pos) = 0
<1> DEFINE T == {q \in S : q >= pos}
<1>1. ASSUME T # {} PROVE \E q \in S : q >= pos /\ \A r \in S : r >= pos => q <= r
  <2>1. T \in SUBSET Nat
    OBVIOUS
  <2>2. PICK q \in T : \A r \in T : q <= r
    BY <1>1, <2>1, LeastNatural
  <2> QED
    BY <2>2
<1>2. CASE T # {}
  BY <1>1, <1>2 DEF FirstIn
<1>3. CASE T = {}
  BY <1>3 DEF FirstIn
<1> QED
  BY <1>2, <1>3

\* There is only one position that can be the first.
LEMMA FirstInUnique ==
    ASSUME NEW S \in SUBSET Nat, NEW pos \in Nat,
           NEW q \in S, q >= pos, \A r \in S : r >= pos => q <= r
    PROVE  FirstIn(S, pos) = q
<1>1. FirstIn(S, pos) \in S /\ FirstIn(S, pos) >= pos /\ FirstIn(S, pos) <= q
  BY FirstInIs
<1>2. q <= FirstIn(S, pos) /\ q \in Nat /\ FirstIn(S, pos) \in Nat
  BY <1>1
<1> HIDE DEF FirstIn
<1> QED
  BY <1>1, <1>2

\* Outside the line every position is a boundary.
LEMMA AtIs ==
    ASSUME LineOK, NEW pos \in Int
    PROVE  /\ At(pos) \in Chars
           /\ pos \in 1..Size => At(pos) = command_line[pos]
           /\ pos \notin 1..Size => At(pos) = Blank
  BY DEF LineOK, Size, At, Chars

\* Where the flag's text is, and where it is a word.
FlagTexts == {p \in 1..Size : At(p) = "-" /\ At(p + 1) = "f"}
FlagWords == {p \in FlagTexts : IsWord(p)}

\* FindFlag finds the next text, and behind every text there is a position in range.
LEMMA FindFlagIs ==
    ASSUME LineOK, NEW pos \in 1..(Size + 1)
    PROVE  FindFlag(pos) = FirstIn(FlagTexts, pos)
<1> DEFINE starts == {p \in pos..Len(command_line) :
                        \A k \in DOMAIN kPauseOnActivateFlag :
                            At(p + k - 1) = kPauseOnActivateFlag[k]}
           T == {p \in FlagTexts : p >= pos}
<1>1. Size \in Nat /\ Size = Len(command_line) /\ pos \in Nat
  BY DEF Size, LineOK
<1>2. \A p \in Int : (\A k \in DOMAIN kPauseOnActivateFlag :
                        At(p + k - 1) = kPauseOnActivateFlag[k])
                     <=> At(p) = "-" /\ At(p + 1) = "f"
  <2> TAKE p \in Int
  <2>1. DOMAIN kPauseOnActivateFlag = {1, 2}
    BY DEF kPauseOnActivateFlag
  <2>2. kPauseOnActivateFlag[1] = "-" /\ kPauseOnActivateFlag[2] = "f"
    BY DEF kPauseOnActivateFlag
  <2>3. p + 1 - 1 = p /\ p + 2 - 1 = p + 1
    OBVIOUS
  <2> QED
    BY <2>1, <2>2, <2>3
<1>3. starts = T
  BY <1>1, <1>2 DEF FlagTexts
<1>4. FindFlag(pos) = IF starts = {} THEN 0 ELSE CHOOSE p \in starts : \A q \in starts : p <= q
  BY DEF FindFlag
<1>5. T \in SUBSET Nat /\ FlagTexts \in SUBSET Nat
  BY DEF FlagTexts
<1>6. CASE T = {}
  BY <1>1, <1>3, <1>4, <1>5, <1>6, FirstInIs
<1>7. CASE T # {}
  <2>1. \E p \in T : \A q \in T : p <= q
    BY <1>5, <1>7, LeastNatural
  <2>2. FindFlag(pos) \in T /\ \A q \in T : FindFlag(pos) <= q
    BY <1>3, <1>4, <1>7, <2>1
  <2> QED
    BY <1>1, <1>5, <2>2, FirstInUnique
<1> QED
  BY <1>6, <1>7

LEMMA TextInLine ==
    ASSUME LineOK, NEW p \in FlagTexts
    PROVE  p \in 1..Size /\ p + 1 \in 1..Size /\ p + 1 \notin FlagTexts
<1>1. Size \in Nat /\ p \in 1..Size /\ At(p) = "-" /\ At(p + 1) = "f"
  BY DEF FlagTexts, Size, LineOK
<1>2. p + 1 \in 1..Size
  <2>1. p + 1 \in Int
    BY <1>1
  <2>2. p + 1 \notin 1..Size => At(p + 1) = Blank
    BY <2>1, AtIs
  <2> QED
    BY <1>1, <2>2 DEF Blank
<1>3. p + 1 \notin FlagTexts
  BY <1>1 DEF FlagTexts
<1> QED
  BY <1>1, <1>2, <1>3

\* The loop of both scans ends at the first text that is a word: no text is lost that
\* begins within one that is passed.
LEMMA FlagPositionIs ==
    ASSUME LineOK
    PROVE  FlagPosition = FirstIn(FlagWords, 1)
<1> DEFINE D == 1..(Len(command_line) + 1)
           Body(g, pos) == LET p == FindFlag(pos)
                           IN IF p = 0 \/ IsWord(p) THEN p ELSE g[AfterFlag(p)]
           Solves(g) == g = [pos \in D |-> Body(g, pos)]
           from == CHOOSE g : Solves(g)
           h == [pos \in D |-> FirstIn(FlagWords, pos)]
<1>1. FlagPosition = from[1]
  BY DEF FlagPosition
<1>2. Size \in Nat /\ D = 1..(Size + 1)
  BY DEF Size, LineOK
<1>3. FlagTexts \in SUBSET Nat /\ FlagWords \in SUBSET FlagTexts /\ FlagWords \in SUBSET Nat
  BY DEF FlagTexts, FlagWords
<1>4. ASSUME NEW pos \in D, FindFlag(pos) # 0, ~IsWord(FindFlag(pos))
     PROVE  AfterFlag(FindFlag(pos)) \in D /\ AfterFlag(FindFlag(pos)) > pos
  <2>0. FindFlag(pos) = FirstIn(FlagTexts, pos) /\ pos \in Nat
    BY <1>2, FindFlagIs
  <2>1. FindFlag(pos) \in FlagTexts /\ FindFlag(pos) >= pos
    <3>1. FirstIn(FlagTexts, pos) # 0
      BY <1>4, <2>0
    <3> QED
      BY <1>3, <2>0, <3>1, FirstInIs
  <2>2. FindFlag(pos) \in 1..Size /\ FindFlag(pos) + 1 \in 1..Size
    BY <2>1, TextInLine
  <2>3. AfterFlag(FindFlag(pos)) = FindFlag(pos) + 2
    BY DEF AfterFlag, kPauseOnActivateFlag
  <2> QED
    BY <1>2, <2>1, <2>2, <2>3
<1>5. ASSUME NEW pos \in D PROVE h[pos] = Body(h, pos)
  <2> DEFINE p == FindFlag(pos)
  <2>1. p = FirstIn(FlagTexts, pos) /\ pos \in Nat
    BY <1>2, FindFlagIs
  <2>2. CASE p = 0
    <3>1. ~\E q \in FlagTexts : q >= pos
      <4>1. 0 \notin FlagTexts
        BY DEF FlagTexts
      <4>2. FirstIn(FlagTexts, pos) \notin FlagTexts
        BY <2>1, <2>2, <4>1
      <4> QED
        BY <1>3, <2>1, <4>2, FirstInIs
    <3>2. ~\E q \in FlagWords : q >= pos
      BY <1>3, <3>1
    <3>3. FirstIn(FlagWords, pos) = 0
      BY <1>3, <2>1, <3>2, FirstInIs
    <3> QED
      BY <2>2, <3>3
  <2>3. CASE p # 0
    <3>1. p \in FlagTexts /\ p >= pos /\ \A q \in FlagTexts : q >= pos => p <= q
      BY <1>3, <2>1, <2>3, FirstInIs
    <3>2. CASE IsWord(p)
      <4>1. p \in FlagWords /\ \A q \in FlagWords : q >= pos => p <= q
        BY <1>3, <3>1, <3>2 DEF FlagWords
      <4>2. FirstIn(FlagWords, pos) = p
        BY <1>3, <2>1, <3>1, <4>1, FirstInUnique
      <4> QED
        BY <3>2, <4>2
    <3>3. CASE ~IsWord(p)
      <4>1. AfterFlag(p) = p + 2 /\ AfterFlag(p) \in D
        BY <1>4, <2>3, <3>3 DEF AfterFlag, kPauseOnActivateFlag
      <4>2. p + 1 \notin FlagTexts /\ p \notin FlagWords /\ p \in Nat
        BY <1>3, <3>1, <3>3, TextInLine DEF FlagWords
      <4>3. \A q \in FlagWords : q >= pos <=> q >= p + 2
        <5> TAKE q \in FlagWords
        <5>1. q \in Nat /\ q # p /\ q # p + 1 /\ (q >= pos => p <= q)
          BY <1>3, <3>1, <4>2
        <5> QED
          BY <2>1, <3>1, <4>2, <5>1
      <4>4. FirstIn(FlagWords, pos) = FirstIn(FlagWords, p + 2)
        <5>1. pos \in Nat /\ p + 2 \in Nat
          BY <2>1, <4>2
        <5>2. CASE \E q \in FlagWords : q >= pos
          <6>1. \E q \in FlagWords : q >= p + 2
            BY <4>3, <5>2
          <6> DEFINE q == FirstIn(FlagWords, p + 2)
          <6>2. q \in FlagWords /\ q >= p + 2 /\ \A r \in FlagWords : r >= p + 2 => q <= r
            BY <1>3, <5>1, <6>1, FirstInIs
          <6>3. q >= pos /\ \A r \in FlagWords : r >= pos => q <= r
            BY <4>3, <6>2
          <6> HIDE DEF q
          <6>4. FirstIn(FlagWords, pos) = q
            BY <1>3, <5>1, <6>2, <6>3, FirstInUnique
          <6> QED
            BY <6>4 DEF q
        <5>3. CASE ~\E q \in FlagWords : q >= pos
          <6>1. ~\E q \in FlagWords : q >= p + 2
            BY <4>3, <5>3
          <6> QED
            BY <1>3, <5>1, <5>3, <6>1, FirstInIs
        <5> QED
          BY <5>2, <5>3
      <4> QED
        BY <2>3, <3>3, <4>1, <4>4
    <3> QED
      BY <3>2, <3>3
  <2> QED
    BY <2>2, <2>3
<1> HIDE DEF Body
<1>6. Solves(h)
  BY <1>5
<1>7. Solves(from)
  <2> HIDE DEF Solves, h
  <2> QED
    BY <1>6
<1> HIDE DEF from
<1>8. \A pos \in D : from[pos] = h[pos]
  <2> DEFINE Bad == {pos \in D : from[pos] # h[pos]}
  <2>1. SUFFICES ASSUME Bad # {} PROVE FALSE
    OBVIOUS
  <2>2. PICK pos \in Bad : \A q \in Bad : q <= pos
    <3>1. Bad \in SUBSET (1..(Size + 1)) /\ Size + 1 \in Nat
      BY <1>2
    <3> HIDE DEF Bad
    <3> QED
      BY <2>1, <3>1, LastPosition
  <2>3. from[pos] = Body(from, pos) /\ h[pos] = Body(h, pos)
    BY <1>5, <1>7
  <2>4. CASE FindFlag(pos) = 0 \/ IsWord(FindFlag(pos))
    BY <2>2, <2>3, <2>4 DEF Body
  <2>5. CASE ~(FindFlag(pos) = 0 \/ IsWord(FindFlag(pos)))
    <3>1. AfterFlag(FindFlag(pos)) \in D /\ AfterFlag(FindFlag(pos)) > pos
      BY <1>4, <2>5
    <3>2. AfterFlag(FindFlag(pos)) \notin Bad
      BY <1>2, <2>2, <3>1
    <3> QED
      BY <2>2, <2>3, <2>5, <3>1, <3>2 DEF Body
  <2> QED
    BY <2>4, <2>5
<1> QED
  BY <1>1, <1>2, <1>8

-----------------------------------------------------------------------------
(* The text behind the flag.                                               *)

\* Where the scan over blanks stops, and where the scan over a word stops.
SkipStops == {pos \in 1..(Size + 1) : ~(pos <= Size /\ At(pos) = Blank)}
WordEnds == {pos \in 1..(Size + 1) : At(pos) = Blank}

\* Where both scans stop whatever the line is: behind its last character.
LEMMA StopsBehindLine ==
    ASSUME LineOK
    PROVE  /\ Size \in Nat
           /\ Size + 1 \in SkipStops /\ Size + 1 \in WordEnds
           /\ SkipStops \in SUBSET (1..(Size + 1)) /\ WordEnds \in SUBSET (1..(Size + 1))
<1>1. Size \in Nat
  BY DEF Size, LineOK
<1>2. At(Size + 1) = Blank
  <2>1. Size + 1 \in Int /\ Size + 1 \notin 1..Size
    BY <1>1
  <2> QED
    BY <2>1, AtIs
<1> QED
  BY <1>1, <1>2 DEF SkipStops, WordEnds

\* A scan that moves one position at a time until it is in S, and is so at the end.
ScansTo(g, n, S) == g = [pos \in 1..(n + 1) |-> IF pos \in S THEN pos ELSE g[pos + 1]]

\* Such a scan finds the first position in S: that function is a solution, the only one.
LEMMA ScanIs ==
    ASSUME NEW n \in Nat, NEW S \in SUBSET (1..(n + 1)), n + 1 \in S
    PROVE  /\ ScansTo([pos \in 1..(n + 1) |-> FirstIn(S, pos)], n, S)
           /\ \A g : ScansTo(g, n, S) => \A pos \in 1..(n + 1) : g[pos] = FirstIn(S, pos)
<1> DEFINE D == 1..(n + 1)
           h == [pos \in D |-> FirstIn(S, pos)]
<1>1. S \in SUBSET Nat /\ D \in SUBSET Nat
  OBVIOUS
<1>2. ASSUME NEW pos \in D, pos \notin S PROVE pos + 1 \in D
  BY <1>2
<1>3. ASSUME NEW pos \in D
      PROVE  FirstIn(S, pos) = IF pos \in S THEN pos ELSE h[pos + 1]
  <2>1. CASE pos \in S
    <3>1. pos \in Nat /\ pos >= pos /\ \A r \in S : r >= pos => pos <= r
      BY <1>1
    <3> QED
      BY <1>1, <2>1, <3>1, FirstInUnique
  <2>2. CASE pos \notin S
    <3>1. pos + 1 \in D /\ pos \in Nat /\ pos + 1 \in Nat /\ n + 1 >= pos + 1
      BY <1>2, <2>2
    <3>2. PICK q : q = FirstIn(S, pos + 1)
      OBVIOUS
    <3>3. q \in S /\ q >= pos + 1 /\ \A r \in S : r >= pos + 1 => q <= r
      BY <1>1, <3>1, <3>2, FirstInIs
    <3>4. q >= pos /\ \A r \in S : r >= pos => q <= r
      <4>1. q \in Nat
        BY <1>1, <3>3
      <4>2. ASSUME NEW r \in S, r >= pos PROVE q <= r
        <5>1. r \in Nat /\ r # pos
          BY <1>1, <2>2
        <5>2. r >= pos + 1
          BY <3>1, <4>2, <5>1
        <5> QED
          BY <3>3, <5>2
      <4> QED
        BY <3>1, <3>3, <4>1, <4>2
    <3>5. FirstIn(S, pos) = q
      BY <1>1, <3>1, <3>3, <3>4, FirstInUnique
    <3> QED
      BY <2>2, <3>1, <3>2, <3>5
  <2> QED
    BY <2>1, <2>2
<1>4. ScansTo(h, n, S)
  BY <1>3 DEF ScansTo
<1>5. ASSUME NEW g, ScansTo(g, n, S) PROVE \A pos \in D : g[pos] = FirstIn(S, pos)
  <2> DEFINE Bad == {pos \in D : g[pos] # FirstIn(S, pos)}
  <2>1. SUFFICES ASSUME Bad # {} PROVE FALSE
    OBVIOUS
  <2>2. PICK pos \in Bad : \A q \in Bad : q <= pos
    <3>1. Bad \in SUBSET (1..(n + 1)) /\ n + 1 \in Nat
      OBVIOUS
    <3> HIDE DEF Bad
    <3> QED
      BY <2>1, <3>1, LastPosition
  <2>3. pos \in D /\ g[pos] = (IF pos \in S THEN pos ELSE g[pos + 1])
    BY <1>5, <2>2 DEF ScansTo
  <2>4. FirstIn(S, pos) = IF pos \in S THEN pos ELSE h[pos + 1]
    BY <1>3, <2>3
  <2>5. pos \notin S
    BY <2>2, <2>3, <2>4
  <2>6. pos + 1 \in D /\ pos + 1 \notin Bad
    <3>1. pos + 1 \in D /\ ~(pos + 1 <= pos)
      BY <1>2, <2>3, <2>5
    <3> QED
      BY <2>2, <3>1
  <2>7. g[pos + 1] = h[pos + 1]
    BY <2>6
  <2> QED
    BY <2>2, <2>3, <2>4, <2>5, <2>7
<1> QED
  BY <1>4, <1>5

\* The word behind a position: where it begins, and its text.
ValueStart(p) == FirstIn(SkipStops, AfterFlag(p))
ValueEnd(p) == FirstIn(WordEnds, ValueStart(p))
ValueText(p) == SubSeq(command_line, ValueStart(p), ValueEnd(p) - 1)

\* What the two scans of TryGetLaunchFlagValue read when the flag is in the line.
LEMMA LaunchFlagValueIs ==
    ASSUME LineOK, NEW p \in FlagWords, FlagPosition = p
    PROVE  /\ ValueStart(p) \in SkipStops /\ ValueStart(p) >= p + 2
           /\ \A r \in SkipStops : r >= p + 2 => ValueStart(p) <= r
           /\ ValueEnd(p) \in WordEnds /\ ValueEnd(p) >= ValueStart(p)
           /\ \A r \in WordEnds : r >= ValueStart(p) => ValueEnd(p) <= r
           /\ LaunchFlagValue =
                 IF \/ ValueStart(p) > Size \/ At(ValueStart(p)) = "-"
                    \/ ~ParsesAsInt(ValueText(p))
                 THEN <<>> ELSE ValueText(p)
<1> DEFINE D == 1..(Len(command_line) + 1)
           IsSkip(g) == g = [pos \in D |-> IF pos <= Len(command_line) /\ At(pos) = Blank
                                           THEN g[pos + 1] ELSE pos]
           IsEnd(g) == g = [pos \in D |-> IF At(pos) # Blank THEN g[pos + 1] ELSE pos]
           skip == CHOOSE g : IsSkip(g)
           end == CHOOSE g : IsEnd(g)
           start == skip[AfterFlag(FlagPosition)]
           text == SubSeq(command_line, start, end[start] - 1)
<1>1. LaunchFlagValue = IF start > Len(command_line) \/ At(start) = "-" \/ ~ParsesAsInt(text)
                       THEN <<>> ELSE text
  BY DEF LaunchFlagValue
<1>2. /\ Size \in Nat /\ Size = Len(command_line) /\ D = 1..(Size + 1)
      /\ Size + 1 \in SkipStops /\ Size + 1 \in WordEnds
      /\ SkipStops \in SUBSET (1..(Size + 1)) /\ WordEnds \in SUBSET (1..(Size + 1))
      /\ SkipStops \in SUBSET Nat /\ WordEnds \in SUBSET Nat
  <2>1. \A S : S \in SUBSET (1..(Size + 1)) => S \in SUBSET Nat
    OBVIOUS
  <2>2. Size = Len(command_line) /\ D = 1..(Size + 1)
    BY DEF Size
  <2> QED
    BY <2>1, <2>2, StopsBehindLine
<1>3. \A g : IsSkip(g) <=> ScansTo(g, Size, SkipStops)
  <2> TAKE g
  <2>1. \A pos \in D : pos \in SkipStops <=> ~(pos <= Len(command_line) /\ At(pos) = Blank)
    BY <1>2 DEF SkipStops
  <2>2. [pos \in D |-> IF pos <= Len(command_line) /\ At(pos) = Blank THEN g[pos + 1] ELSE pos]
        = [pos \in 1..(Size + 1) |-> IF pos \in SkipStops THEN pos ELSE g[pos + 1]]
    BY <1>2, <2>1
  <2> QED
    BY <2>2 DEF ScansTo
<1>4. \A g : IsEnd(g) <=> ScansTo(g, Size, WordEnds)
  <2> TAKE g
  <2>1. \A pos \in D : pos \in WordEnds <=> At(pos) = Blank
    BY <1>2 DEF WordEnds
  <2>2. [pos \in D |-> IF At(pos) # Blank THEN g[pos + 1] ELSE pos]
        = [pos \in 1..(Size + 1) |-> IF pos \in WordEnds THEN pos ELSE g[pos + 1]]
    BY <1>2, <2>1
  <2> QED
    BY <2>2 DEF ScansTo
<1>5. \E g : IsSkip(g)
  <2>1. \E g : ScansTo(g, Size, SkipStops)
    BY <1>2, ScanIs
  <2> QED
    BY <1>3, <2>1
<1>6. \E g : IsEnd(g)
  <2>1. \E g : ScansTo(g, Size, WordEnds)
    BY <1>2, ScanIs
  <2> QED
    BY <1>4, <2>1
<1> HIDE DEF IsSkip, IsEnd
<1>7. IsSkip(skip) /\ IsEnd(end)
  BY <1>5, <1>6
<1> HIDE DEF skip, end
<1>8. \A pos \in D : skip[pos] = FirstIn(SkipStops, pos) /\ end[pos] = FirstIn(WordEnds, pos)
  <2> HIDE DEF D, start, text
  <2>1. ScansTo(skip, Size, SkipStops) /\ ScansTo(end, Size, WordEnds)
    BY <1>3, <1>4, <1>7
  <2>2. \A g : ScansTo(g, Size, SkipStops) =>
          \A pos \in 1..(Size + 1) : g[pos] = FirstIn(SkipStops, pos)
    BY <1>2, ScanIs
  <2>3. \A g : ScansTo(g, Size, WordEnds) =>
          \A pos \in 1..(Size + 1) : g[pos] = FirstIn(WordEnds, pos)
    BY <1>2, ScanIs
  <2>4. \A pos \in 1..(Size + 1) : skip[pos] = FirstIn(SkipStops, pos)
    BY <2>1, <2>2
  <2>5. \A pos \in 1..(Size + 1) : end[pos] = FirstIn(WordEnds, pos)
    BY <2>1, <2>3
  <2> QED
    BY <1>2, <2>4, <2>5
<1>9. AfterFlag(p) = p + 2 /\ p + 2 \in D /\ p + 2 \in Nat /\ Size + 1 >= p + 2
  <2>1. p \in FlagTexts
    BY DEF FlagWords
  <2>2. p \in 1..Size /\ p + 1 \in 1..Size
    BY <2>1, TextInLine
  <2> QED
    BY <1>2, <2>2 DEF AfterFlag, kPauseOnActivateFlag
<1>10. PICK first : first = ValueStart(p)
  OBVIOUS
<1>11. first = FirstIn(SkipStops, p + 2) /\ start = first
  BY <1>8, <1>9, <1>10 DEF ValueStart
<1>12. first \in SkipStops /\ first >= p + 2 /\ \A r \in SkipStops : r >= p + 2 => first <= r
  <2>1. \E q \in SkipStops : q >= p + 2
    BY <1>2, <1>9
  <2>2. SkipStops \in SUBSET Nat /\ p + 2 \in Nat /\ first = FirstIn(SkipStops, p + 2)
    BY <1>2, <1>9, <1>11
  <2> HIDE DEF start, text
  <2>3. /\ FirstIn(SkipStops, p + 2) \in SkipStops /\ FirstIn(SkipStops, p + 2) >= p + 2
        /\ \A r \in SkipStops : r >= p + 2 => FirstIn(SkipStops, p + 2) <= r
    BY <2>1, <2>2, FirstInIs
  <2> QED
    BY <2>2, <2>3
<1>13. first \in D /\ first \in Nat /\ Size + 1 >= first
  BY <1>2, <1>12
<1>14. PICK last : last = ValueEnd(p)
  OBVIOUS
<1>15. last = FirstIn(WordEnds, first) /\ end[start] = last
  BY <1>8, <1>10, <1>11, <1>13, <1>14 DEF ValueEnd
<1>16. last \in WordEnds /\ last >= first /\ \A r \in WordEnds : r >= first => last <= r
  <2>1. \E q \in WordEnds : q >= first
    BY <1>2, <1>13
  <2>2. WordEnds \in SUBSET Nat /\ first \in Nat
    BY <1>2, <1>13
  <2> HIDE DEF start, text
  <2>3. /\ FirstIn(WordEnds, first) \in WordEnds /\ FirstIn(WordEnds, first) >= first
        /\ \A r \in WordEnds : r >= first => FirstIn(WordEnds, first) <= r
    BY <2>1, <2>2, FirstInIs
  <2> QED
    BY <1>15, <2>3
<1>17. text = ValueText(p)
  BY <1>10, <1>11, <1>14, <1>15 DEF ValueText
<1> HIDE DEF start, text
<1>18. LaunchFlagValue = IF \/ ValueStart(p) > Size \/ At(ValueStart(p)) = "-"
                           \/ ~ParsesAsInt(ValueText(p))
                        THEN <<>> ELSE ValueText(p)
  BY <1>1, <1>2, <1>10, <1>11, <1>17
<1> QED
  BY <1>10, <1>12, <1>14, <1>16, <1>18

-----------------------------------------------------------------------------
(* What the words of the line say: the names OptionsAreWords binds.         *)

Words == {w \in (1..Len(command_line)) \X (1..Len(command_line)) : Word(w[1], w[2])}
Flags == {w \in Words : IsFlag(w[1], w[2])}
FirstFlags == {f \in Flags : \A g \in Flags : f[1] <= g[1]}
Values == {v \in Words : \E f \in FirstFlags :
             /\ v[1] > f[1] /\ \A w \in Words : w[1] > f[1] => v[1] <= w[1]
             /\ ParsesAsInt(SubSeq(command_line, v[1], v[2]))}

\* A word of the line is the flag exactly when the scan finds its text there as a word.
LEMMA FlagsAre ==
    ASSUME LineOK
    PROVE  Flags = {<<p, p + 1>> : p \in FlagWords}
<1>1. Size \in Nat /\ Size = Len(command_line) /\ command_line \in Seq(Chars)
  BY DEF Size, LineOK
<1>2. ASSUME NEW i \in 1..Size, NEW j \in 1..Size, IsFlag(i, j)
      PROVE  i \in FlagWords /\ j = i + 1
  <2>1. Word(i, j) /\ SubSeq(command_line, i, j) = <<"-", "f">>
    BY <1>2 DEF IsFlag, kPauseOnActivateFlag
  <2>2. i <= j /\ At(i - 1) = Blank /\ At(j + 1) = Blank
    BY <2>1 DEF Word
  <2>3. /\ Len(SubSeq(command_line, i, j)) = j - i + 1
        /\ \A k \in 1..(j - i + 1) : SubSeq(command_line, i, j)[k] = command_line[i + k - 1]
    BY <1>1, <2>2
  <2>4. j - i + 1 = 2
    <3>1. Len(<<"-", "f">>) = 2
      OBVIOUS
    <3> QED
      BY <2>1, <2>3, <3>1
  <2>5. j = i + 1
    BY <2>4
  <2>6. command_line[i] = "-" /\ command_line[i + 1] = "f"
    <3>1. command_line[i + 1 - 1] = "-" /\ command_line[i + 2 - 1] = "f"
      BY <2>1, <2>3, <2>4
    <3>2. i + 1 - 1 = i /\ i + 2 - 1 = i + 1
      OBVIOUS
    <3> QED
      BY <3>1, <3>2
  <2>7. At(i) = "-" /\ At(i + 1) = "f"
    <3>1. At(i) = command_line[i] /\ At(j) = command_line[j]
      BY AtIs
    <3> QED
      BY <2>5, <2>6, <3>1
  <2>8. AfterFlag(i) = i + 2 /\ j + 1 = i + 2
    BY <2>5 DEF AfterFlag, kPauseOnActivateFlag
  <2> QED
    BY <2>2, <2>5, <2>7, <2>8 DEF FlagWords, FlagTexts, IsWord
<1>3. ASSUME NEW p \in FlagWords
      PROVE  p \in 1..Size /\ p + 1 \in 1..Size /\ IsFlag(p, p + 1)
  <2>1. p \in FlagTexts /\ IsWord(p)
    BY DEF FlagWords
  <2>2. p \in 1..Size /\ p + 1 \in 1..Size /\ At(p) = "-" /\ At(p + 1) = "f"
    BY <2>1, TextInLine DEF FlagTexts
  <2>3. AfterFlag(p) = p + 2 /\ (p + 1) + 1 = p + 2
    BY <2>2 DEF AfterFlag, kPauseOnActivateFlag
  <2>4. At(p - 1) = Blank /\ At((p + 1) + 1) = Blank
    BY <2>1, <2>3 DEF IsWord
  <2>5. \A k \in p..(p + 1) : At(k) # Blank
    <3>1. \A k \in p..(p + 1) : k = p \/ k = p + 1
      BY <2>2
    <3> QED
      BY <2>2, <3>1 DEF Blank
  <2>6. Word(p, p + 1)
    BY <2>2, <2>4, <2>5 DEF Word
  <2>7. SubSeq(command_line, p, p + 1) = <<"-", "f">>
    <3>1. At(p) = command_line[p] /\ At(p + 1) = command_line[p + 1]
      BY <2>2, AtIs
    <3>2. command_line[p] = "-" /\ command_line[p + 1] = "f"
      BY <2>2, <3>1
    <3> DEFINE t == SubSeq(command_line, p, p + 1)
    <3>3. /\ t \in Seq(Chars) /\ Len(t) = 2
          /\ \A k \in 1..2 : t[k] = command_line[p + k - 1]
      BY <1>1, <2>2
    <3>4. t[1] = command_line[p] /\ t[2] = command_line[p + 1]
      <4>1. p + 1 - 1 = p /\ p + 2 - 1 = p + 1
        BY <2>2
      <4>2. t[1] = command_line[p + 1 - 1] /\ t[2] = command_line[p + 2 - 1]
        BY <3>3
      <4> QED
        BY <4>1, <4>2
    <3> HIDE DEF t
    <3>5. t = <<t[1], t[2]>>
      BY <3>3
    <3> QED
      BY <3>2, <3>4, <3>5 DEF t
  <2> QED
    BY <2>2, <2>6, <2>7 DEF IsFlag, kPauseOnActivateFlag
<1>4. Flags \subseteq {<<p, p + 1>> : p \in FlagWords}
  <2> SUFFICES ASSUME NEW w \in Flags PROVE w \in {<<p, p + 1>> : p \in FlagWords}
    OBVIOUS
  <2>1. PICK i \in 1..Size, j \in 1..Size : w = <<i, j>>
    BY <1>1 DEF Flags, Words
  <2>2. IsFlag(i, j)
    BY <2>1 DEF Flags
  <2> QED
    BY <1>2, <2>1, <2>2
<1>5. {<<p, p + 1>> : p \in FlagWords} \subseteq Flags
  <2> SUFFICES ASSUME NEW w \in {<<p, p + 1>> : p \in FlagWords} PROVE w \in Flags
    OBVIOUS
  <2>1. PICK p \in FlagWords : w = <<p, p + 1>>
    OBVIOUS
  <2>2. p \in 1..Size /\ p + 1 \in 1..Size /\ IsFlag(p, p + 1) /\ w[1] = p /\ w[2] = p + 1
    BY <1>3, <2>1
  <2>3. w \in (1..Size) \X (1..Size)
    BY <2>1, <2>2
  <2> QED
    BY <1>1, <2>2, <2>3 DEF Flags, Words, IsFlag
<1> QED
  BY <1>4, <1>5

\* The first flag is where the loop of the scans ends.
LEMMA FirstFlagIs ==
    ASSUME LineOK
    PROVE  /\ HasLaunchFlag <=> Flags # {}
           /\ Flags # {} => FlagPosition \in FlagWords
                            /\ FirstFlags = {<<FlagPosition, FlagPosition + 1>>}
<1>1. FlagTexts \in SUBSET Nat /\ FlagWords \in SUBSET FlagTexts /\ FlagWords \in SUBSET Nat
  BY DEF FlagTexts, FlagWords
<1>2. 0 \notin FlagWords /\ \A q \in FlagWords : q >= 1 /\ q \in Nat
  BY <1>1 DEF FlagTexts
<1>3. Flags = {<<q, q + 1>> : q \in FlagWords}
  BY FlagsAre
<1>4. Flags # {} <=> FlagWords # {}
  BY <1>3
<1>5. PICK p : p = FlagPosition
  OBVIOUS
<1>6. p = FirstIn(FlagWords, 1)
  BY <1>5, FlagPositionIs
<1>7. CASE FlagWords = {}
  <2>1. p = 0
    BY <1>1, <1>6, <1>7, FirstInIs
  <2> QED
    BY <1>4, <1>5, <1>7, <2>1 DEF HasLaunchFlag
<1>8. CASE FlagWords # {}
  <2>1. p \in FlagWords /\ \A q \in FlagWords : p <= q
    <3>1. \E q \in FlagWords : q >= 1
      BY <1>2, <1>8
    <3>2. p \in FlagWords /\ \A q \in FlagWords : q >= 1 => p <= q
      BY <1>1, <1>6, <3>1, FirstInIs
    <3> QED
      BY <1>2, <3>2
  <2>2. <<p, p + 1>> \in FirstFlags
    <3>1. <<p, p + 1>> \in Flags
      BY <1>3, <2>1
    <3>2. \A g \in Flags : p <= g[1]
      BY <1>3, <2>1
    <3> QED
      BY <3>1, <3>2 DEF FirstFlags
  <2>3. ASSUME NEW f \in FirstFlags PROVE f = <<p, p + 1>>
    <3>1. f \in Flags /\ \A g \in Flags : f[1] <= g[1]
      BY DEF FirstFlags
    <3>2. PICK q \in FlagWords : f = <<q, q + 1>>
      BY <1>3, <3>1
    <3>3. <<p, p + 1>> \in Flags
      BY <2>2 DEF FirstFlags
    <3>4. q <= p
      BY <3>1, <3>2, <3>3
    <3>5. q = p
      BY <1>2, <2>1, <3>4
    <3> QED
      BY <3>2, <3>5
  <2>4. FirstFlags = {<<p, p + 1>>}
    BY <2>2, <2>3
  <2>5. p # 0
    BY <1>2, <2>1
  <2> QED
    BY <1>4, <1>5, <1>8, <2>1, <2>4, <2>5 DEF HasLaunchFlag
<1> QED
  BY <1>7, <1>8

\* The word behind the flag begins where the first scan stops and ends where the second
\* one does; no word lies between it and the flag.
LEMMA NextWordIs ==
    ASSUME LineOK, NEW p \in FlagWords, FlagPosition = p
    PROVE  /\ ValueStart(p) <= Size =>
                /\ <<ValueStart(p), ValueEnd(p) - 1>> \in Words
                /\ ValueStart(p) > p
           /\ \A w \in Words : w[1] > p => ValueStart(p) <= w[1] /\ ValueStart(p) <= Size
           /\ \A w \in Words : w[1] = ValueStart(p) => w[2] = ValueEnd(p) - 1
<1>1. PICK start, end : start = ValueStart(p) /\ end = ValueEnd(p)
  OBVIOUS
<1>2. /\ start \in SkipStops /\ start >= p + 2
      /\ \A r \in SkipStops : r >= p + 2 => start <= r
      /\ end \in WordEnds /\ end >= start
      /\ \A r \in WordEnds : r >= start => end <= r
  BY <1>1, LaunchFlagValueIs
<1>3. Size \in Nat /\ Size = Len(command_line) /\ start \in 1..(Size + 1) /\ end \in 1..(Size + 1)
  BY <1>2, StopsBehindLine DEF Size
<1>4. /\ p \in 1..Size /\ p + 1 \in 1..Size
      /\ At(p) # Blank /\ At(p + 1) # Blank /\ At(p + 2) = Blank
  <2>1. p \in FlagTexts /\ IsWord(p)
    BY DEF FlagWords
  <2>2. p \in 1..Size /\ p + 1 \in 1..Size /\ At(p) = "-" /\ At(p + 1) = "f"
    BY <2>1, TextInLine DEF FlagTexts
  <2>3. AfterFlag(p) = p + 2
    BY DEF AfterFlag, kPauseOnActivateFlag
  <2> QED
    BY <2>1, <2>2, <2>3 DEF IsWord, Blank
<1>5. \A w \in Words : /\ w[1] \in 1..Size /\ w[2] \in 1..Size /\ w = <<w[1], w[2]>>
                       /\ Word(w[1], w[2])
  BY <1>3 DEF Words
<1>6. \A r \in 1..(Size + 1) : r \in SkipStops <=> (r = Size + 1 \/ At(r) # Blank)
  BY <1>3 DEF SkipStops
<1>7. \A r \in 1..(Size + 1) : r \in WordEnds <=> At(r) = Blank
  BY DEF WordEnds
<1>8. ASSUME start <= Size
      PROVE  <<start, end - 1>> \in Words /\ start > p
  <2>1. At(start) # Blank /\ start # p + 2
    BY <1>2, <1>3, <1>4, <1>6, <1>8
  <2>2. At(end) = Blank /\ end # start
    BY <1>2, <1>3, <1>7, <2>1
  <2>3. At(start - 1) = Blank
    <3>1. start - 1 >= p + 2 /\ start - 1 \in 1..(Size + 1) /\ ~(start <= start - 1)
          /\ start - 1 # Size + 1
      BY <1>2, <1>3, <1>4, <1>8, <2>1
    <3>2. start - 1 \notin SkipStops
      BY <1>2, <3>1
    <3> QED
      BY <1>6, <3>1, <3>2
  <2>4. end - 1 \in 1..Size /\ start <= end - 1 /\ (end - 1) + 1 = end /\ start \in 1..Size
    BY <1>2, <1>3, <1>8, <2>2
  <2>5. \A k \in start..(end - 1) : At(k) # Blank
    <3> SUFFICES ASSUME NEW k \in start..(end - 1) PROVE At(k) # Blank
      OBVIOUS
    <3>1. k \in 1..(Size + 1) /\ k >= start /\ ~(end <= k)
      BY <1>3, <2>4
    <3>2. k \notin WordEnds
      BY <1>2, <3>1
    <3> QED
      BY <1>7, <3>1, <3>2
  <2>6. Word(start, end - 1)
    BY <2>2, <2>3, <2>4, <2>5 DEF Word
  <2>7. start > p
    BY <1>2, <1>3, <1>4
  <2>8. <<start, end - 1>> \in (1..Len(command_line)) \X (1..Len(command_line))
    BY <1>3, <2>4
  <2> QED
    BY <2>6, <2>7, <2>8 DEF Words
<1>9. ASSUME NEW w \in Words, w[1] > p PROVE start <= w[1] /\ start <= Size
  <2>1. PICK i \in 1..Size, j \in 1..Size : i = w[1] /\ j = w[2] /\ Word(i, j)
    BY <1>5
  <2>2. At(i - 1) = Blank /\ At(i) # Blank
    BY <2>1 DEF Word
  <2>3. i # p + 1
    <3>1. (p + 1) - 1 = p
      BY <1>4
    <3> QED
      BY <1>4, <2>2, <3>1
  <2>4. i >= p + 2 /\ i \in 1..(Size + 1)
    BY <1>3, <1>4, <1>9, <2>1, <2>3
  <2>5. i \in SkipStops
    BY <1>6, <2>2, <2>4
  <2>6. start <= i
    BY <1>2, <2>4, <2>5
  <2> QED
    BY <1>3, <2>1, <2>6
<1>10. ASSUME NEW w \in Words, w[1] = start PROVE w[2] = end - 1
  <2>1. PICK j \in 1..Size : j = w[2] /\ Word(start, j)
    BY <1>5, <1>10
  <2>2. start <= j /\ At(j + 1) = Blank /\ \A k \in start..j : At(k) # Blank
    BY <2>1 DEF Word
  <2>3. end <= j + 1
    <3>1. j + 1 \in 1..(Size + 1) /\ j + 1 >= start
      BY <1>3, <2>2
    <3>2. j + 1 \in WordEnds
      BY <1>7, <2>2, <3>1
    <3> QED
      BY <1>2, <3>1, <3>2
  <2>4. ~(end <= j)
    <3>1. At(end) = Blank
      BY <1>2, <1>3, <1>7
    <3> QED
      BY <1>2, <1>3, <2>2, <3>1
  <2>5. j = end - 1
    BY <1>3, <2>3, <2>4
  <2> QED
    BY <2>1, <2>5
<1> QED
  BY <1>1, <1>8, <1>9, <1>10

\* The text of a number is neither empty nor begins with a dash.
LEMMA NumberText ==
    ASSUME LineOK, NEW i \in 1..Size, NEW j \in 1..Size, i <= j,
           ParsesAsInt(SubSeq(command_line, i, j))
    PROVE  At(i) # "-" /\ SubSeq(command_line, i, j) # <<>>
<1> DEFINE t == SubSeq(command_line, i, j)
<1>1. Size \in Nat /\ Size = Len(command_line) /\ command_line \in Seq(Chars)
  BY DEF Size, LineOK
<1>2. /\ t \in Seq(Chars) /\ Len(t) = j - i + 1
      /\ \A k \in 1..(j - i + 1) : t[k] = command_line[i + k - 1]
  BY <1>1
<1>3. 1 \in 1..(j - i + 1) /\ i + 1 - 1 = i /\ 1 <= j - i + 1
  OBVIOUS
<1>4. t[1] = command_line[i]
  BY <1>2, <1>3
<1>5. \A k \in DOMAIN t : t[k] = "9"
  BY DEF ParsesAsInt
<1> HIDE DEF t
<1>6. t[1] = "9"
  <2>1. 1 \in DOMAIN t
    BY <1>2, <1>3
  <2> QED
    BY <1>5, <2>1
<1>7. At(i) = command_line[i]
  BY AtIs
<1>8. t # <<>>
  <2>1. Len(t) # 0
    BY <1>2, <1>3
  <2> QED
    BY <2>1
<1> QED
  BY <1>4, <1>6, <1>7, <1>8 DEF t

\* What the scans read is what the words say.
LEMMA ValuesAre ==
    ASSUME LineOK, Flags # {}
    PROVE  /\ Values = {} => LaunchFlagValue = <<>>
           /\ Values # {} => LaunchFlagValue # <<>>
           /\ \A v \in Values : LaunchFlagValue = SubSeq(command_line, v[1], v[2])
<1>1. PICK p \in FlagWords : p = FlagPosition /\ FirstFlags = {<<p, p + 1>>}
  BY FirstFlagIs
<1>2. PICK start, end : start = ValueStart(p) /\ end = ValueEnd(p)
  OBVIOUS
<1>3. Size \in Nat /\ Size = Len(command_line) /\ p \in 1..Size
  BY DEF Size, LineOK, FlagWords, FlagTexts
<1>4. /\ start \in 1..(Size + 1) /\ end \in 1..(Size + 1)
      /\ LaunchFlagValue = IF \/ start > Size \/ At(start) = "-"
                              \/ ~ParsesAsInt(SubSeq(command_line, start, end - 1))
                           THEN <<>> ELSE SubSeq(command_line, start, end - 1)
  BY <1>1, <1>2, LaunchFlagValueIs, StopsBehindLine DEF ValueText
<1>5. /\ start <= Size => <<start, end - 1>> \in Words /\ start > p
      /\ \A w \in Words : w[1] > p => start <= w[1] /\ start <= Size
      /\ \A w \in Words : w[1] = start => w[2] = end - 1
  BY <1>1, <1>2, NextWordIs
<1>6. \A v : v \in Values <=> /\ v \in Words /\ v[1] > p
                             /\ \A w \in Words : w[1] > p => v[1] <= w[1]
                             /\ ParsesAsInt(SubSeq(command_line, v[1], v[2]))
  BY <1>1 DEF Values
<1>7. \A w \in Words : w[1] \in 1..Size /\ w[2] \in 1..Size /\ w[1] <= w[2]
  BY <1>3 DEF Words, Word
<1>8. ASSUME NEW v \in Values
      PROVE  LaunchFlagValue = SubSeq(command_line, v[1], v[2]) /\ LaunchFlagValue # <<>>
  <2>1. PICK i, j : i = v[1] /\ j = v[2]
    OBVIOUS
  <2>2. v \in Words /\ i > p /\ start <= i /\ start <= Size
    BY <1>5, <1>6, <2>1
  <2>3. i \in 1..Size /\ j \in 1..Size /\ i <= j
    BY <1>7, <2>1, <2>2
  <2>4. i <= start
    <3>1. <<start, end - 1>> \in Words /\ start > p
      BY <1>5, <2>2
    <3>2. \A w \in Words : w[1] > p => i <= w[1]
      BY <1>6, <2>1
    <3>3. <<start, end - 1>>[1] = start
      OBVIOUS
    <3> QED
      BY <3>1, <3>2, <3>3
  <2>5. i = start /\ j = end - 1
    <3>1. i = start
      BY <1>4, <2>2, <2>3, <2>4
    <3> QED
      BY <1>5, <2>1, <2>2, <3>1
  <2>6. ParsesAsInt(SubSeq(command_line, i, j))
    BY <1>6, <2>1
  <2>7. At(i) # "-" /\ SubSeq(command_line, i, j) # <<>>
    BY <2>3, <2>6, NumberText
  <2>8. ~(start > Size)
    BY <1>3, <2>3, <2>5
  <2> QED
    BY <1>4, <2>1, <2>5, <2>6, <2>7, <2>8
<1>9. ASSUME LaunchFlagValue # <<>> PROVE Values # {}
  <2>1. ~(start > Size) /\ ParsesAsInt(SubSeq(command_line, start, end - 1))
    BY <1>4, <1>9
  <2>2. start <= Size
    BY <1>3, <1>4, <2>1
  <2>3. PICK w : w = <<start, end - 1>>
    OBVIOUS
  <2>4. w \in Words /\ w[1] = start /\ w[2] = end - 1 /\ start > p
    BY <1>5, <2>2, <2>3
  <2>5. w \in Values
    BY <1>5, <1>6, <2>1, <2>4
  <2> QED
    BY <2>5
<1> QED
  BY <1>8, <1>9

-----------------------------------------------------------------------------
(* The options are what the words say.                                     *)

\* OptionsAreWords in the names above.
LEMMA OptionsAre ==
    OptionsAreWords <=>
      (refreshed =>
          /\ pause_on_activate = (Flags # {})
          /\ IF Flags = {} THEN pause_timeout_seconds = NoTimeout
             ELSE IF Values = {} THEN pause_timeout_seconds = Default
             ELSE \A v \in Values : pause_timeout_seconds = SubSeq(command_line, v[1], v[2]))
BY Zenon DEF OptionsAreWords, Words, Flags, FirstFlags, Values

\* While the line stays as it is, so do its words.
LEMMA OptionsAfterLine ==
    ASSUME command_line' = command_line
    PROVE  OptionsAreWords' <=>
             (refreshed' =>
                /\ pause_on_activate' = (Flags # {})
                /\ IF Flags = {} THEN pause_timeout_seconds' = NoTimeout
                   ELSE IF Values = {} THEN pause_timeout_seconds' = Default
                   ELSE \A v \in Values :
                          pause_timeout_seconds' = SubSeq(command_line, v[1], v[2]))
<1>1. Words' = Words
  BY DEF Words, Word, At
<1>2. Flags' = Flags
  BY <1>1 DEF Flags, IsFlag, Word, At
<1>3. FirstFlags' = FirstFlags
  BY <1>2 DEF FirstFlags
<1>4. Values' = Values
  BY <1>1, <1>2, <1>3 DEF Values, ParsesAsInt
<1>5. OptionsAreWords' <=>
        (refreshed' =>
            /\ pause_on_activate' = (Flags' # {})
            /\ IF Flags' = {} THEN pause_timeout_seconds' = NoTimeout
               ELSE IF Values' = {} THEN pause_timeout_seconds' = Default
               ELSE \A v \in Values' :
                      pause_timeout_seconds' = SubSeq(command_line', v[1], v[2]))
  BY Zenon DEF OptionsAreWords, Words, Flags, FirstFlags, Values
<1> QED
  BY <1>2, <1>4, <1>5

LFInv == LineOK /\ OptionsAreWords

LEMMA InitLine == ASSUME Init PROVE LFInv
<1>1. PICK n \in 0..MaxLength : command_line \in [1..n -> Chars]
  BY DEF Init
<1>2. n \in Nat
  BY ConstantsAssumption
<1>3. LineOK
  BY <1>1, <1>2 DEF LineOK
<1>4. refreshed = FALSE
  BY DEF Init
<1> QED
  BY <1>3, <1>4, OptionsAre DEF LFInv

\* RefreshRuntimeOptions leaves the options the words of the line ask for.
LEMMA RefreshKeeps == ASSUME LFInv, RefreshRuntimeOptions PROVE LFInv'
<1>1. LineOK /\ command_line' = command_line
  BY DEF LFInv, RefreshRuntimeOptions
<1>2. LineOK'
  BY <1>1 DEF LineOK
<1>3. /\ pause_on_activate' = HasLaunchFlag
      /\ pause_timeout_seconds' =
            IF ~HasLaunchFlag THEN NoTimeout
            ELSE IF LaunchFlagValue = <<>> THEN Default ELSE LaunchFlagValue
  BY DEF RefreshRuntimeOptions
<1>4. pause_on_activate' = (Flags # {})
  BY <1>1, <1>3, FirstFlagIs DEF HasLaunchFlag
<1>5. IF Flags = {} THEN pause_timeout_seconds' = NoTimeout
      ELSE IF Values = {} THEN pause_timeout_seconds' = Default
      ELSE \A v \in Values : pause_timeout_seconds' = SubSeq(command_line, v[1], v[2])
  <2>1. CASE Flags = {}
    BY <1>1, <1>3, <2>1, FirstFlagIs
  <2>2. CASE Flags # {}
    <3>1. HasLaunchFlag
      BY <1>1, <2>2, FirstFlagIs
    <3>2. CASE Values = {}
      BY <1>1, <1>3, <2>2, <3>1, <3>2, ValuesAre
    <3>3. CASE Values # {}
      BY <1>1, <1>3, <2>2, <3>1, <3>3, ValuesAre
    <3> QED
      BY <2>2, <3>2, <3>3
  <2> QED
    BY <2>1, <2>2
<1>6. OptionsAreWords'
  BY <1>1, <1>4, <1>5, OptionsAfterLine
<1> QED
  BY <1>2, <1>6 DEF LFInv

\* The line stays a sequence of characters, and the options what its words say.
THEOREM Invariance == Spec => []LFInv
<1>1. Init => LFInv
  BY InitLine
<1>2. LFInv /\ [Next]_vars => LFInv'
  <2> SUFFICES ASSUME LFInv, [Next]_vars PROVE LFInv'
    OBVIOUS
  <2>1. CASE RefreshRuntimeOptions
    BY <2>1, RefreshKeeps
  <2>2. CASE UNCHANGED vars
    <3>1. LineOK'
      BY <2>2 DEF LFInv, LineOK, vars
    <3>2. OptionsAreWords'
      <4>1. /\ command_line' = command_line /\ refreshed' = refreshed
            /\ pause_on_activate' = pause_on_activate
            /\ pause_timeout_seconds' = pause_timeout_seconds
        BY <2>2 DEF vars
      <4> QED
        BY <4>1, OptionsAre, OptionsAfterLine DEF LFInv
    <3> QED
      BY <3>1, <3>2 DEF LFInv
  <2> QED
    BY <2>1, <2>2 DEF Next
<1> QED
  BY <1>1, <1>2, PTL DEF Spec

\* On a command line of any length, with numbers of any width, what the search over the
\* raw text of main.cpp reads is what the words of the line say.
THEOREM OptionSafety == Spec => []OptionsAreWords
<1>1. LFInv => OptionsAreWords
  BY DEF LFInv
<1> QED
  BY <1>1, Invariance, PTL
=============================================================================
