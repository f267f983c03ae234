----------------------------- MODULE LaunchFlags -----------------------------
(***************************************************************************)
(* The options gm_rdb reads from the game's command line                   *)
(* (src/source/main.cpp): HasLaunchFlag, TryGetLaunchFlagValue and         *)
(* RefreshRuntimeOptions.                                                  *)
(*                                                                         *)
(* The scans search the raw text for the flag's text.  A command line is a *)
(* sequence of characters; the characters that matter are the boundary, a  *)
(* dash, a digit and any other.  One flag of two characters stands for     *)
(* both flags: allow_remote is the same scan as pause_on_activate.         *)
(***************************************************************************)
EXTENDS Integers, Sequences

CONSTANTS
    MaxLength,  \* characters of a command line
    MaxDigits   \* digits of a number that fits an int

ASSUME ConstantsAssumption == MaxLength \in Nat /\ MaxDigits \in Nat

VARIABLES
    command_line,
    pause_on_activate,
    pause_timeout_seconds, \* the default, no timeout, or the digits of one
    refreshed  \* history: the options have been read

vars == <<command_line, pause_on_activate, pause_timeout_seconds, refreshed>>

\* A boundary; a NUL between two arguments reads as one.
Blank == " "
Chars == {Blank, "-", "f", "9"}
kPauseOnActivateFlag == <<"-", "f">>
Default == <<"default">>
NoTimeout == <<"none">>

\* The character at a position; a position past either end is a boundary.
At(pos) == IF pos \in DOMAIN command_line THEN command_line[pos] ELSE Blank

\* std::string::find: the flag's first occurrence at or after pos, 0 if there is none.
FindFlag(pos) ==
    LET starts == {p \in pos..Len(command_line) :
                      \A k \in DOMAIN kPauseOnActivateFlag :
                          At(p + k - 1) = kPauseOnActivateFlag[k]}
    IN IF starts = {} THEN 0 ELSE CHOOSE p \in starts : \A q \in starts : p <= q

AfterFlag(p) == p + Len(kPauseOnActivateFlag)

\* Mutant: only the end of the flag's text has to be a word's end.
EndsWord(p) == At(AfterFlag(p)) = Blank

IsWord(p) == At(p - 1) = Blank /\ At(AfterFlag(p)) = Blank

\* The loop of both scans: the first occurrence between two boundaries.
FlagPosition ==
    LET from[pos \in 1..(Len(command_line) + 1)] ==
          LET p == FindFlag(pos)
          IN IF p = 0 \/ IsWord(p) THEN p ELSE from[AfterFlag(p)]
    IN from[1]

HasLaunchFlag == FlagPosition # 0

\* TryParseNonNegativeInt, strtol over the whole text.
ParsesAsInt(text) ==
    Len(text) \in 1..MaxDigits /\ \A k \in DOMAIN text : text[k] = "9"

\* TryGetLaunchFlagValue: FALSE, or the text of the number after the first flag.
LaunchFlagValue ==
    LET skip[pos \in 1..(Len(command_line) + 1)] ==
          IF pos <= Len(command_line) /\ At(pos) = Blank THEN skip[pos + 1] ELSE pos
        end[pos \in 1..(Len(command_line) + 1)] ==
          IF At(pos) # Blank THEN end[pos + 1] ELSE pos
        start == skip[AfterFlag(FlagPosition)]
        text == SubSeq(command_line, start, end[start] - 1)
    IN IF start > Len(command_line) \/ At(start) = "-" \/ ~ParsesAsInt(text) THEN <<>> ELSE text

Init ==
    /\ command_line \in UNION {[1..n -> Chars] : n \in 0..MaxLength}
    /\ pause_on_activate = FALSE /\ pause_timeout_seconds = NoTimeout
    /\ refreshed = FALSE

RefreshRuntimeOptions ==
    /\ pause_on_activate' = HasLaunchFlag
    /\ pause_timeout_seconds' =
          IF ~HasLaunchFlag THEN NoTimeout
          ELSE IF LaunchFlagValue = <<>> THEN Default ELSE LaunchFlagValue
    /\ refreshed' = TRUE
    /\ UNCHANGED command_line

Next == RefreshRuntimeOptions

Spec == Init /\ [][Next]_vars

-----------------------------------------------------------------------------
(* Properties.                                                             *)

\* From i to j is a word: characters between two boundaries.
Word(i, j) ==
    /\ At(i - 1) = Blank /\ At(j + 1) = Blank
    /\ i <= j /\ \A k \in i..j : At(k) # Blank

IsFlag(i, j) == Word(i, j) /\ SubSeq(command_line, i, j) = kPauseOnActivateFlag

\* What the search over raw text reads is what the words of the line say: the flag is
\* on exactly when it is a word, a part of a longer word never counts, and the timeout
\* is the word after the first such flag if that is a number that fits, else the
\* default; a second flag's number is not used.
OptionsAreWords ==
    LET words == {w \in (1..Len(command_line)) \X (1..Len(command_line)) : Word(w[1], w[2])}
        flags == {w \in words : IsFlag(w[1], w[2])}
        first == {f \in flags : \A g \in flags : f[1] <= g[1]}
        values == {v \in words : \E f \in first :
                      /\ v[1] > f[1] /\ \A w \in words : w[1] > f[1] => v[1] <= w[1]
                      /\ ParsesAsInt(SubSeq(command_line, v[1], v[2]))}
    IN refreshed =>
          /\ pause_on_activate = (flags # {})
          /\ IF flags = {} THEN pause_timeout_seconds = NoTimeout
             ELSE IF values = {} THEN pause_timeout_seconds = Default
             ELSE \A v \in values : pause_timeout_seconds = SubSeq(command_line, v[1], v[2])
=============================================================================
