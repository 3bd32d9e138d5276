---------------------------- MODULE NestingGuard ----------------------------
(***************************************************************************)
(* The nesting guard that reads a request body before anything recursive   *)
(* does (jsonNestingWithin in selectors.go): one loop over the bytes that  *)
(* counts brackets outside strings, whatever their kind, and gives up when *)
(* the count exceeds the limit.  Reader is what the guard is for: a reader *)
(* that recurses at every bracket.                                         *)
(***************************************************************************)
EXTENDS Integers, Sequences, SequencesExt

CONSTANTS
    MaxDepth,   \* maxJSONNestingDepth
    Byte        \* the bytes a body is made of

VARIABLES
    bytes,      \* what is read
    pos,        \* how many of them have been
    depth, inString, escaped,
    verdict     \* what jsonNestingWithin returns

guard == <<bytes, pos, depth, inString, escaped, verdict>>

Quote == "\""
Escape == "\\"
Openers == {"{", "["}
Closers == {"}", "]"}

ASSUME GuardAssumption ==
    /\ MaxDepth \in Nat
    /\ {Quote, Escape} \cup Openers \cup Closers \subseteq Byte

GuardInit ==
    /\ bytes \in Seq(Byte)
    /\ pos = 0 /\ depth = 0 /\ inString = FALSE /\ escaped = FALSE
    /\ verdict = "reading"

\* Mutant: an escaped quote ends the string.
EscapedNever(b) == FALSE

\* A backslash takes the next byte along, inside a string.
StartsEscape(b) == ~escaped /\ b = Escape

InString ==
    /\ verdict = "reading" /\ pos < Len(bytes) /\ inString
    /\ LET b == bytes[pos + 1]
       IN  /\ escaped' = StartsEscape(b)
           /\ inString' = (escaped \/ b # Quote)
    /\ pos' = pos + 1
    /\ UNCHANGED <<bytes, depth, verdict>>

TooDeep(newDepth) == newDepth > MaxDepth

OutsideString ==
    /\ verdict = "reading" /\ pos < Len(bytes) /\ ~inString
    /\ LET b == bytes[pos + 1]
       IN  /\ inString' = (b = Quote)
           /\ depth' = CASE b \in Openers -> depth + 1
                         [] b \in Closers -> depth - 1
                         [] OTHER -> depth
           /\ verdict' = IF b \in Openers /\ TooDeep(depth') THEN "refused" ELSE verdict
    /\ pos' = pos + 1
    /\ UNCHANGED <<bytes, escaped>>

\* All bytes are read.
GuardEnds ==
    /\ verdict = "reading" /\ pos = Len(bytes)
    /\ verdict' = IF depth = 0 /\ ~inString THEN "within" ELSE "refused"
    /\ UNCHANGED <<bytes, pos, depth, inString, escaped>>

GuardNext == InString \/ OutsideString \/ GuardEnds

GuardSpec == GuardInit /\ [][GuardNext]_guard

-----------------------------------------------------------------------------
(* A reader that recurses at every bracket and stops at the first byte it    *)
(* does not expect, as far as brackets and strings tell: gjson and           *)
(* encoding/json.                                                            *)

Unread == [ok |-> TRUE, open |-> <<>>, deepest |-> 0, inString |-> FALSE, escaped |-> FALSE]

Opened(reader, b) ==
    [reader EXCEPT !.open = Append(@, b),
                   !.deepest = IF @ > Len(reader.open) THEN @ ELSE Len(reader.open) + 1]

Closed(reader, b) ==
    IF reader.open # <<>> /\ <<Last(reader.open), b>> \in {<<"{", "}">>, <<"[", "]">>}
    THEN [reader EXCEPT !.open = Front(@)] ELSE [reader EXCEPT !.ok = FALSE]

Read(reader, b) ==
    CASE ~reader.ok -> reader
      [] reader.ok /\ reader.escaped -> [reader EXCEPT !.escaped = FALSE]
      [] reader.ok /\ ~reader.escaped /\ reader.inString ->
            [reader EXCEPT !.escaped = (b = Escape), !.inString = (b # Quote)]
      [] OTHER -> CASE b = Quote -> [reader EXCEPT !.inString = TRUE]
                    [] b = Escape -> [reader EXCEPT !.ok = FALSE]
                    [] b \in Openers -> Opened(reader, b)
                    [] b \in Closers -> Closed(reader, b)
                    [] OTHER -> reader

\* The reader after each of the bytes.
ReadUpto(list) ==
    LET reader[n \in 0..Len(list)] == IF n = 0 THEN Unread ELSE Read(reader[n - 1], list[n])
    IN  reader

Reader(list) == ReadUpto(list)[Len(list)]

Reads(list) == Reader(list).ok /\ Reader(list).open = <<>> /\ ~Reader(list).inString

-----------------------------------------------------------------------------
(* Property. *)

\* What the guard lets through takes a recursive reader no deeper than the limit,
\* unbalanced or mismatched brackets included; what it refuses is too deep or
\* no JSON: brackets in strings do not count.
GuardBoundsReader ==
    /\ verdict = "within" => Reader(bytes).deepest <= MaxDepth
    /\ verdict = "refused" => ~Reads(bytes) \/ Reader(bytes).deepest > MaxDepth
=============================================================================
