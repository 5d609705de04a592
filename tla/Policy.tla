------------------------------- MODULE Policy -------------------------------
(***************************************************************************)
(* Mutability policies: which rule matches a path, and what it decides.    *)
(* A path or a pattern is the sequence of its segments, what split('/')    *)
(* gives (never empty), and a segment is the sequence of its characters.   *)
(***************************************************************************)
EXTENDS Naturals, Sequences, SequencesExt

Star == "*"
DoubleStar == <<Star, Star>>

\* glob_match_segment: * by itself, in front or at the end; anywhere else it
\* is a character like the others.
glob_match_segment(pattern, segment) ==
    CASE pattern = <<Star>> -> TRUE
      [] pattern # <<Star>> /\ IsPrefix(<<Star>>, pattern) -> IsSuffix(Tail(pattern), segment)
      [] ~IsPrefix(<<Star>>, pattern) /\ IsSuffix(<<Star>>, pattern) -> IsPrefix(Front(pattern), segment)
      [] OTHER -> pattern = segment

Drop(s, n) == SubSeq(s, n + 1, Len(s))

\* Mutant: ** matches at least one segment.
glob_match_parts_plus(pattern, path) ==
    LET matched[k \in 0..Len(pattern)] ==
          IF k = 0 THEN {0}
          ELSE LET first == pattern[Len(pattern) - k + 1] IN
               {m \in 0..Len(path) :
                  IF first = DoubleStar THEN \E n \in 0..(m - 1) : n \in matched[k - 1]
                  ELSE /\ m > 0
                       /\ glob_match_segment(first, path[Len(path) - m + 1])
                       /\ m - 1 \in matched[k - 1]}
    IN Len(path) \in matched[Len(pattern)]

\* The recursion goes through the ends of pattern and path: matched[k] are the
\* lengths of the ends of the path that the last k parts of the pattern match.
glob_match_parts(pattern, path) ==
    LET matched[k \in 0..Len(pattern)] ==
          IF k = 0 THEN {0}
          ELSE LET first == pattern[Len(pattern) - k + 1] IN
               {m \in 0..Len(path) :
                  IF first = DoubleStar THEN \E n \in 0..m : n \in matched[k - 1]
                  ELSE /\ m > 0
                       /\ glob_match_segment(first, path[Len(path) - m + 1])
                       /\ m - 1 \in matched[k - 1]}
    IN Len(path) \in matched[Len(pattern)]

CatchAll == {<<DoubleStar>>, <<DoubleStar, <<Star>>>>}

glob_matches(pattern, path) == pattern \in CatchAll \/ glob_match_parts(pattern, path)

Matching(rules, path) == {k \in DOMAIN rules : glob_matches(rules[k].path_pattern, path)}

\* Mutant: the last rule that matches wins.
match_rule_last(rules, path) == rules[Max(Matching(rules, path))]

\* The first rule that matches.
match_rule(rules, path) == rules[Min(Matching(rules, path))]

NoRule == [error |-> TRUE]

\* PolicyEngine::evaluate, for the rules of the policy with the id asked for.
evaluate(rules, path) == IF Matching(rules, path) = {} THEN NoRule ELSE match_rule(rules, path)

can_write(rules, path) == evaluate(rules, path).mutable
can_delete(rules, path) == evaluate(rules, path).on_delete # "Reject"

-----------------------------------------------------------------------------
(* Reference definition.                                                    *)

\* A segment matches one with at most one star at an end: what the star stands
\* for is cut out of the middle.
SegmentFits(pattern, segment) ==
    \E n \in 0..Len(segment) : \E m \in n..Len(segment) :
        LET glob == SubSeq(segment, 1, n) \o <<Star>> \o Drop(segment, m) IN
        pattern = segment \/ pattern = glob

\* The path can be cut into as many pieces as the pattern has parts, one segment
\* for each that is not **.
Fits(pattern, path) ==
    \E cut \in [0..Len(pattern) -> 0..Len(path)] :
        /\ cut[0] = 0 /\ cut[Len(pattern)] = Len(path)
        /\ \A k \in 1..Len(pattern) :
             IF pattern[k] = DoubleStar
               THEN cut[k - 1] <= cut[k]
               ELSE cut[k] = cut[k - 1] + 1 /\ SegmentFits(pattern[k], path[cut[k]])
=============================================================================
