-------------------------- MODULE FailoverMatcher --------------------------
(***************************************************************************)
(* The operator's failover list (internal/fault/matcher.go): a    *)
(* spec of codes and inclusive ranges, parsed token by token, merged and   *)
(* searched, with the fallbacks of the router that reads it.               *)
(***************************************************************************)
EXTENDS Integers, Sequences, FiniteSets, SequencesExt

CONSTANTS
  Bounds,      \* numbers that may appear in a token
  Statuses,    \* upstream statuses to look up
  MaxTokens,   \* how many tokens a spec may have
  Default      \* the tokens of DefaultFailoverStatusCodes

ASSUME CodesAssumption == Bounds \subseteq Nat
ASSUME StatusesAssumption == Statuses \subseteq Int
ASSUME MaxTokensAssumption == MaxTokens \in Nat

VARIABLES
  spec,     \* the tokens of the configured spec; low = -1 is not a number
  matcher   \* the ranges in use

matcherVars == <<spec, matcher>>

Codes(low, high) == [low |-> low, high |-> high]
NotANumber == Codes(-1, -1)

Ranges == [low : Nat, high : Nat]
Tokens == [low : Bounds, high : Bounds] \cup {NotANumber}

\* A token parses to a range of error codes.
ValidToken(token) ==
  /\ token # NotANumber
  /\ token.low <= token.high
  /\ token.low >= 400
  /\ token.high <= 599

Usable(tokens) == tokens # << >> /\ \A i \in DOMAIN tokens : ValidToken(tokens[i])

\* MustFailoverMatcher panics on a default list that cannot be used.
ASSUME DefaultAssumption == Default \in Seq(Ranges) /\ Usable(Default)

\* sort.Slice by low, then high.  Ranges that are level are equal, so that every
\* way of sorting has this result.
Less(a, b) == a.low < b.low \/ (a.low = b.low /\ a.high < b.high)

Inserted(sorted, range) ==
  LET place == CHOOSE p \in 1 .. Len(sorted) + 1 :
                 \A i \in DOMAIN sorted : i < p <=> ~Less(range, sorted[i])
  IN  InsertAt(sorted, place, range)

Sorting(ranges) ==
  LET sorted[i \in 0 .. Len(ranges)] ==
        IF i = 0 THEN << >> ELSE Inserted(sorted[i - 1], ranges[i])
  IN  sorted

Sorted(ranges) == Sorting(ranges)[Len(ranges)]

\* Slip: the last range takes the end of the one merged into it.
AbsorbShrinking(merged, current) ==
  LET l == Len(merged) IN
  IF merged # << >> /\ current.low <= merged[l].high + 1
  THEN [merged EXCEPT ![l].high = current.high]
  ELSE Append(merged, current)

\* Extend the last merged range, or start another one.
Absorb(merged, current) ==
  LET l == Len(merged) IN
  IF merged # << >> /\ current.low <= merged[l].high + 1
  THEN [merged EXCEPT ![l].high = IF current.high > merged[l].high
                                  THEN current.high ELSE merged[l].high]
  ELSE Append(merged, current)

\* The loop over the sorted ranges: what is merged after each of them.
Merging(sorted) ==
  LET merged[i \in 0 .. Len(sorted)] ==
        IF i = 0 THEN << >> ELSE Absorb(merged[i - 1], sorted[i])
  IN  merged

mergeRanges(ranges) == LET sorted == Sorted(ranges) IN Merging(sorted)[Len(sorted)]

\* An empty spec and one with an invalid token both mean the default list.
InForce(tokens) == IF Usable(tokens) THEN tokens ELSE Default

\* NewFailoverMatcher behind buildFailoverMatcher.
buildFailoverMatcher(tokens) == mergeRanges(InForce(tokens))

\* sort.Search over the ends, for the first range that ends at status or later.
FirstEnding(ranges, status) ==
  LET ends == {i \in DOMAIN ranges : ranges[i].high >= status}
  IN  IF ends = {} THEN Len(ranges) + 1
      ELSE CHOOSE i \in ends : \A j \in ends : i <= j

Match(ranges, status) ==
  LET i == FirstEnding(ranges, status)
  IN  /\ status > 0
      /\ i <= Len(ranges)
      /\ ranges[i].low <= status

MatcherInit ==
  /\ spec = << >>
  /\ matcher = buildFailoverMatcher(<< >>)

\* An administrator saves a spec that is one token longer.
Configure(token) ==
  /\ Len(spec) < MaxTokens
  /\ spec' = Append(spec, token)
  /\ matcher' = buildFailoverMatcher(Append(spec, token))

\* An administrator clears it.
Clear ==
  /\ spec' = << >>
  /\ matcher' = buildFailoverMatcher(<< >>)

MatcherNext == Clear \/ \E token \in Tokens : Configure(token)

MatcherSpec == MatcherInit /\ [][MatcherNext]_matcherVars

\* One of the ranges names status.
Names(ranges, status) ==
  \E i \in DOMAIN ranges : ranges[i].low <= status /\ status <= ranges[i].high

\* The spec names status, or cannot be used and the default names it.
Means(status) == Names(InForce(spec), status)

\* Sorting, merging and searching change nothing of what the operator wrote:
\* a code fails over exactly when the list names it.
MatchMeansListed == \A status \in Statuses : Match(matcher, status) <=> Means(status)

\* The binary search is sound: ends and starts ascend together and the ranges
\* keep a gap, so the list is minimal.
Apart(ranges) ==
  \A i, j \in DOMAIN ranges : i < j => ranges[i].high + 1 < ranges[j].low

RangesApart == Apart(matcher)

\* NewFailoverMatcher, Match: the merged ranges are those the operator wrote, and
\* in the shape that the binary search relies on.
MatcherIsExact == MatchMeansListed /\ RangesApart
=============================================================================
