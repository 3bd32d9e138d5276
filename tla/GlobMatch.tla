----------------------------- MODULE GlobMatch -----------------------------
(***************************************************************************)
(* Wildcard patterns of request filters (request_filter.go): a pattern is  *)
(* compiled to one bit per token position and a value runs through all     *)
(* positions at once, word by word, with the carries between words.        *)
(*                                                                         *)
(* A word is the set of its bits that are set; bit b of word w stands for  *)
(* token position WordBits * w + b, and position k is active when the      *)
(* first k tokens match what has been read, or a star behind them has      *)
(* begun to.                                                               *)
(***************************************************************************)
EXTENDS Globs, FiniteSets

CONSTANTS
    Chars,      \* the runes of values and the literals of patterns
    Patterns,   \* the patterns of the instance
    Values,     \* the values of the instance
    WordBits    \* the bits of a word (64 in the code)

ASSUME GlobAssumption ==
    /\ Star \notin Chars /\ Question \notin Chars /\ Star # Question
    /\ Patterns \subseteq Seq(Chars \cup {Star, Question})
    /\ Values \subseteq Seq(Chars)
    /\ WordBits \in Nat \ {0}

VARIABLES
    pattern,    \* the runes of the pattern
    taken,      \* how many of them have been compiled
    tokens,     \* the pattern with each run of stars collapsed to one
    value,      \* the runes of the value
    pos,        \* how many of them have been read
    active,     \* the active positions, word by word
    phase

globVars == <<pattern, taken, tokens, value, pos, active, phase>>

\* One bit per token and one for the position behind the last.
NumWords == (Len(tokens) + WordBits) \div WordBits

Words == 0..(NumWords - 1)
Bits == 0..(WordBits - 1)
Position(w, b) == WordBits * w + b
IsSet(buffer, k) == k % WordBits \in buffer[k \div WordBits]

\* The bits of word w of the positions that hold the token: position k is before
\* the token k + 1.
Bitmap(w, token) ==
    {b \in Bits: Position(w, b) < Len(tokens) /\ tokens[Position(w, b) + 1] = token}
Stars(w) == Bitmap(w, Star)
Questions(w) == Bitmap(w, Question)
Literals(w, char) == Bitmap(w, char)
Occurrences(char) == {k \in 0..(Len(tokens) - 1): tokens[k + 1] = char}

\* A literal that occurs in at least as many places as there are words has a
\* bitmap of its own; a rarer one keeps the list of its places.
Dense(char) == Cardinality(Occurrences(char)) >= NumWords

GlobInit ==
    /\ pattern \in Patterns /\ value \in Values
    /\ taken = 0 /\ tokens = <<>> /\ pos = 0
    /\ active = [w \in {} |-> {}]
    /\ phase = "compile"

\* Mutant: runs of stars are kept.
NeverRepeats(token) == FALSE
RepeatsStar(token) == token = Star /\ tokens # <<>> /\ tokens[Len(tokens)] = Star

CompileToken ==
    /\ phase = "compile" /\ taken < Len(pattern)
    /\ LET token == pattern[taken + 1]
       IN  tokens' = IF RepeatsStar(token) THEN tokens ELSE Append(tokens, token)
    /\ taken' = taken + 1
    /\ UNCHANGED <<pattern, value, pos, active, phase>>

-----------------------------------------------------------------------------
(* matches. *)

ShiftLeft(word) == {b + 1: b \in word} \cap Bits

\* Mutant: a shift does not carry into the next word.
NoCarry(word) == {}
Carry(word) == IF WordBits - 1 \in word THEN {0} ELSE {}

\* Word w of the buffer one bit up, with what the word below carries.
Shifted(buffer, w) == ShiftLeft(buffer[w]) \cup (IF w = 0 THEN {} ELSE Carry(buffer[w - 1]))

\* expandStars: a star may stand for nothing.  Stars are never adjacent, so one
\* pass is enough and the carry need not be expanded again.
ExpandStars(buffer) ==
    LET starred == [w \in Words |-> buffer[w] \cap Stars(w)]
    IN  [w \in Words |-> buffer[w] \cup Shifted(starred, w)]

StartMatch ==
    /\ phase = "compile" /\ taken = Len(pattern)
    /\ active' = ExpandStars([w \in Words |-> IF w = 0 THEN {0} ELSE {}])
    /\ phase' = "match"
    /\ UNCHANGED <<pattern, taken, tokens, value, pos>>

\* What a rune makes of the active positions before stars are expanded.
Stepped(char) ==
    LET stepped == [w \in Words |->
            active[w] \cap (Questions(w) \cup IF Dense(char) THEN Literals(w, char) ELSE {})]
        listed == IF Dense(char) THEN {} ELSE {k \in Occurrences(char): IsSet(active, k)}
    IN  [w \in Words |->
            (active[w] \cap Stars(w)) \cup Shifted(stepped, w)
            \cup {b \in Bits: \E k \in listed: Position(w, b) = k + 1}]

ReadRune ==
    /\ phase = "match" /\ pos < Len(value)
    /\ active' = ExpandStars(Stepped(value[pos + 1]))
    /\ pos' = pos + 1
    /\ UNCHANGED <<pattern, taken, tokens, value, phase>>

Answer ==
    /\ phase = "match" /\ pos = Len(value)
    /\ phase' = IF IsSet(active, Len(tokens)) THEN "matched" ELSE "unmatched"
    /\ UNCHANGED <<pattern, taken, tokens, value, pos, active>>

GlobNext == CompileToken \/ StartMatch \/ ReadRune \/ Answer

GlobSpec == GlobInit /\ [][GlobNext]_globVars

-----------------------------------------------------------------------------
(* Properties. *)

\* The first k tokens match the first j runes, or the token behind is a star
\* that has begun to take runes.
Reached(k, j) ==
    \/ Aligned(tokens, k, value, j)
    \/ k < Len(tokens) /\ tokens[k + 1] = Star /\ \E i \in 0..j: Aligned(tokens, k, value, i)

\* Across all words, exactly the positions are active that the runes read so
\* far reach.
ActiveIsAligned ==
    phase = "match" =>
        /\ active \in [Words -> SUBSET Bits]
        /\ \A w \in Words, b \in Bits:
               b \in active[w] <=> /\ Position(w, b) <= Len(tokens)
                                   /\ Reached(Position(w, b), pos)

\* The compiled pattern decides what the pattern as written means.
DecidesGlob ==
    phase \in {"matched", "unmatched"} =>
        (phase = "matched" <=> GlobMatches(pattern, value))
=============================================================================
