------------------------------ MODULE Streaming -----------------------------
(***************************************************************************)
(* StreamingMultiLinePatternMatcher (pkg/patterns/multiline_matcher.go):   *)
(* a pattern is looked for in text that arrives in chunks, in a buffer     *)
(* that is halved when it gets full.  The pattern is a literal, matched    *)
(* anywhere in the buffer; texts are sequences of symbols.                 *)
(***************************************************************************)
EXTENDS Integers, Sequences

CONSTANTS
  Symbols,            \* the characters
  Literals,           \* the patterns
  Chunks,             \* the chunks
  MaxBuffer,          \* maxBuffer, in symbols
  MaxText             \* bound: symbols given to the matcher between resets

ASSUME StreamAssumption ==
  /\ Literals \subseteq Seq(Symbols) /\ Chunks \subseteq Seq(Symbols)
  /\ \E c \in Chunks : \A d \in Chunks : Len(d) <= Len(c)
  /\ MaxBuffer \in Nat /\ MaxText \in Nat

VARIABLES
  pattern,            \* the literal; <<>> before the matcher is made
  buffer,             \* sm.buffer
  matched,            \* sm.matched
  counters,           \* metrics: calls, matches, failures
  given               \* observation: everything given since the last Reset

streamVars == <<pattern, buffer, matched, counters, given>>

Occurs(text, p) ==
  \E i \in 0 .. Len(text) - Len(p) : SubSeq(text, i + 1, i + Len(p)) = p

StreamInit ==
  /\ pattern = <<>>
  /\ buffer = <<>>
  /\ matched = FALSE
  /\ counters = [total |-> 0, found |-> 0, failed |-> 0]
  /\ given = <<>>

(* NewStreamingMultiLinePatternMatcher refuses the empty pattern.          *)
NewStreaming(p) ==
  /\ pattern = <<>>
  /\ p # <<>>
  /\ pattern' = p
  /\ UNCHANGED <<buffer, matched, counters, given>>

(* Mutated TrimBuffer: only the last quarter is kept.                      *)
TrimToQuarter(b) == SubSeq(b, (3 * Len(b)) \div 4 + 1, Len(b))

(* currentContent[len(currentContent)/2:].                                 *)
TrimBuffer(b) == SubSeq(b, Len(b) \div 2 + 1, Len(b))

(* sm.buffer.Len() + len(chunk) > sm.maxBuffer, negated.                   *)
Room(b, chunk) == Len(b) + Len(chunk) <= MaxBuffer

(* ProcessChunk.                                                           *)
ProcessChunk(chunk) ==
  LET kept == IF Room(buffer, chunk) THEN buffer ELSE TrimBuffer(buffer)
      now == kept \o chunk
      hit == Occurs(now, pattern)
  IN
  /\ pattern # <<>>
  /\ Len(given) + Len(chunk) <= MaxText
  /\ given' = given \o chunk
  /\ \/ /\ matched
        /\ counters' = [counters EXCEPT !.total = @ + 1]
        /\ UNCHANGED <<buffer, matched>>
     \/ /\ ~matched
        /\ buffer' = now
        /\ matched' = hit
        /\ counters' = [total |-> counters.total + 1,
                        found |-> counters.found + IF hit THEN 1 ELSE 0,
                        failed |-> counters.failed + IF hit THEN 0 ELSE 1]
  /\ UNCHANGED pattern

(* Reset, for the next text (the metrics go on).                           *)
Reset ==
  /\ given # <<>> /\ counters.total < MaxText
  /\ buffer' = <<>>
  /\ matched' = FALSE
  /\ given' = <<>>
  /\ UNCHANGED <<pattern, counters>>

StreamNext ==
  \/ \E p \in Literals : NewStreaming(p)
  \/ \E chunk \in Chunks : ProcessChunk(chunk)
  \/ Reset

StreamSpec == StreamInit /\ [][StreamNext]_streamVars

-----------------------------------------------------------------------------
LargestChunk == CHOOSE n \in {Len(c) : c \in Chunks} :
                  \A c \in Chunks : Len(c) <= n

(* The buffer stays within the larger of its limit and two chunks          *)
(* (ProcessChunk checks the limit before it appends).                      *)
BufferBounded ==
  Len(buffer) <= IF MaxBuffer >= 2 * LargestChunk THEN MaxBuffer
                 ELSE 2 * LargestChunk

(* What is left of a full buffer still holds the beginning of a pattern    *)
(* that the next chunk completes, if the pattern is this short.            *)
ShortEnough(p) == (MaxBuffer - LargestChunk + 2) \div 2 >= Len(p) - 1

(* No match is made up, and none is missed: HasMatch says whether the      *)
(* pattern occurs in everything given since the last Reset, for a pattern  *)
(* that is short enough for the half of the buffer that is kept; and the   *)
(* buffer stays bounded, however the chunks come.                          *)
FindsWhatIsThere ==
  /\ BufferBounded
  /\ matched => Occurs(given, pattern)
  /\ pattern # <<>> /\ ShortEnough(pattern) /\ Occurs(given, pattern) => matched

=============================================================================
