---------------------------- MODULE IntentMatcher ----------------------------
(***************************************************************************)
(* The keyword matcher (intent/matcher.go) that finds the tool for an      *)
(* intent.  Texts are the sequences of words that tokenize returns.        *)
(* Scores are exact fractions <<n, d>>; the code adds float64, so of two   *)
(* tools with equal fractions it may take either for the better one        *)
(* (1/4 + 0.05 against 2/10 + 0.1).  Nothing is claimed of their order.    *)
(***************************************************************************)
EXTENDS Naturals, FiniteSets, SequencesExt

CONSTANTS StopWords, (* words that carry no meaning                          *)
          Stem,      (* simpleStem, as a function on words                   *)
          Within,    (* <<v, w>>: v is a substring of w                      *)
          NameOf,    (* the words of a tool's name                           *)
          DescOf     (* and of its description                               *)

Words == DOMAIN Stem

ASSUME WordAssumption ==
  \A t \in DOMAIN NameOf : NameOf[t] \in Seq(Words) /\ DescOf[t] \in Seq(Words)

(* The loops that copy what passes a test: the elements that are in set.   *)
Keep(seq, set) ==
  LET kept[i \in 0 .. Len(seq)] ==
        IF i = 0 THEN <<>>
        ELSE IF seq[i] \in set THEN Append(kept[i - 1], seq[i]) ELSE kept[i - 1]
  IN  kept[Len(seq)]

RemoveStopWords(tokens) ==
  LET filtered == Keep(tokens, Range(tokens) \ StopWords)
  IN  IF filtered = <<>> THEN tokens ELSE filtered

StemTokens(tokens) == [i \in DOMAIN tokens |-> Stem[tokens[i]]]

(* Words of b that are in a, and the size of the union: a is taken as a    *)
(* set, b is counted word by word.                                         *)
Intersection(a, b) == Cardinality({i \in DOMAIN b : b[i] \in Range(a)})
UnionSize(a, b) == Cardinality(Range(a)) + Len(b) - Intersection(a, b)

(* The words of the intent that are in the tool's name.  As long as none   *)
(* was, part of a word counts as well.                                     *)
NameMatches(tokens, name) ==
  LET Exact == {i \in DOMAIN tokens : tokens[i] \in Range(name)}
      Partial == {i \in DOMAIN tokens : \E v \in Range(name) :
                    <<v, tokens[i]>> \in Within \/ <<tokens[i], v>> \in Within}
  IN  Cardinality(Exact) +
        IF \E i \in Partial : \A j \in Exact : i < j THEN 1 ELSE 0

AtLeast(x, y) == x[1] * y[2] >= y[1] * x[2]

(* The Jaccard similarity of the stems plus 1/20 per match in the name, at *)
(* most 1; nothing without a common stem.                                  *)
ScoreTool(tokens, tool) ==
  LET a == StemTokens(tokens)
      b == StemTokens(NameOf[tool] \o RemoveStopWords(DescOf[tool]))
      i == Intersection(a, b)
      u == UnionSize(a, b)
      s == <<20 * i + u * NameMatches(tokens, NameOf[tool]), 20 * u>>
  IN  IF i = 0 THEN <<0, 1>> ELSE IF AtLeast(s, <<1, 1>>) THEN <<1, 1>> ELSE s

(* Mutant: a match moves up past those whose score is higher. *)
NotAbove(x, y) == AtLeast(y, x)

(* A match moves up past those whose score is lower. *)
NotBelow(x, y) == AtLeast(x, y)

(* Where the insertion stops.                                              *)
Place(tokens, sorted, t) ==
  InsertAt(sorted,
           1 + Cardinality({i \in DOMAIN sorted :
                 NotBelow(ScoreTool(tokens, sorted[i]), ScoreTool(tokens, t))}),
           t)

(* The tools with a score, sorted by insertion.                            *)
Ranked(tokens, tools) ==
  LET sorted[i \in 0 .. Len(tools)] ==
        IF i = 0 THEN <<>>
        ELSE IF ScoreTool(tokens, tools[i])[1] > 0
             THEN Place(tokens, sorted[i - 1], tools[i]) ELSE sorted[i - 1]
  IN  sorted[Len(tools)]

(* MatchAll: the first limit of them.                                      *)
MatchAll(intent, tools, limit) ==
  LET tokens == RemoveStopWords(intent)
      sorted == Ranked(tokens, tools)
  IN  IF tokens = <<>> THEN <<>>
      ELSE IF limit > 0 /\ Len(sorted) > limit THEN SubSeq(sorted, 1, limit)
      ELSE sorted

DefaultThreshold == <<1, 5>>

(* Match: the best tool, or <<>> when even its score is below the          *)
(* threshold.                                                              *)
Match(intent, tools) ==
  LET matches == MatchAll(intent, tools, 1)
  IN  IF matches # <<>> /\ AtLeast(ScoreTool(RemoveStopWords(intent), matches[1]),
                                   DefaultThreshold)
      THEN matches ELSE <<>>
=============================================================================
