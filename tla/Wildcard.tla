------------------------------ MODULE Wildcard ------------------------------
(***************************************************************************)
(* InspIRCd::Match (src/wildcard.cpp): the matching of a string with a     *)
(* mask that all X-lines, bans, connect classes and link blocks rest on.   *)
(* MatchInternal is a step for each turn of its loops.  Characters are     *)
(* compared after the case map; a sequence ends where the C string has its *)
(* terminator.                                                             *)
(***************************************************************************)
EXTENDS Naturals, Sequences

CONSTANTS
    Letter,     \* characters other than the wildcards
    CaseMap,    \* [Letter -> Letter]
    MaxText,    \* bound on the length of strings
    MaxMask     \* bound on the length of masks

ASSUME WildcardAssumption == MaxText \in Nat /\ MaxMask \in Nat

VARIABLES text, mask_, si, wi, mp, cp, at, answer

wildcardVars == <<text, mask_, si, wi, mp, cp, at, answer>>

Words(S, n) == UNION {[1 .. k -> S] : k \in 0 .. n}

WildcardInit ==
    /\ text \in Words(Letter, MaxText)
    /\ mask_ \in Words(Letter \cup {"*", "?"}, MaxMask)
    /\ si = 1 /\ wi = 1 /\ mp = 0 /\ cp = 0
    /\ at = "prefix" /\ answer = FALSE

-----------------------------------------------------------------------------

(* The character at position n, or the terminator *)
CharAt(s, n) == IF n \in DOMAIN s THEN s[n] ELSE "end"

Wild == CharAt(mask_, wi)

TextEnds == si > Len(text)

Folded(c) == IF c \in Letter THEN CaseMap[c] ELSE c

SameChar == Folded(Wild) = Folded(CharAt(text, si)) \/ Wild = "?"

MatchReturns(b) == at' = "done" /\ answer' = b /\ UNCHANGED <<text, mask_, si, wi, mp, cp>>

(* The first loop, up to a star *)
MatchPrefix ==
    /\ at = "prefix"
    /\ IF TextEnds \/ Wild = "*"
       THEN at' = "stars" /\ UNCHANGED <<text, mask_, si, wi, mp, cp, answer>>
       ELSE IF ~SameChar THEN MatchReturns(FALSE)
       ELSE si' = si + 1 /\ wi' = wi + 1 /\ UNCHANGED <<text, mask_, mp, cp, at, answer>>

(* string = cp++: the star takes one more character *)
Backtrack == si' = cp /\ cp' = cp + 1 /\ wi' = mp /\ UNCHANGED <<mp, at>>

AfterStarMutant == mp' = wi + 1 /\ cp' = si + 2 /\ wi' = wi + 1 /\ UNCHANGED <<si, at>>

AfterStar == mp' = wi + 1 /\ cp' = si + 1 /\ wi' = wi + 1 /\ UNCHANGED <<si, at>>

(* The second loop *)
MatchStars ==
    /\ at = "stars" /\ ~TextEnds
    /\ IF Wild = "*" /\ wi = Len(mask_) THEN MatchReturns(TRUE)
       ELSE /\ IF Wild = "*" THEN AfterStar
               ELSE IF SameChar THEN si' = si + 1 /\ wi' = wi + 1 /\ UNCHANGED <<mp, cp, at>>
               ELSE Backtrack
            /\ UNCHANGED <<text, mask_, answer>>

(* The third loop and the return *)
MatchRest ==
    /\ at = "stars" /\ TextEnds
    /\ MatchReturns(\A n \in wi .. Len(mask_) : mask_[n] = "*")

WildcardNext ==
    \/ MatchPrefix
    \/ MatchStars
    \/ MatchRest

WildcardFairness == WF_wildcardVars(WildcardNext)

-----------------------------------------------------------------------------

(* What a mask means: a star stands for any string, a question mark for any *)
(* character, another character for itself up to case.                      *)
RECURSIVE Means(_, _)
Means(s, m) ==
    IF m = <<>> THEN s = <<>>
    ELSE IF Head(m) = "*" THEN \E k \in 0 .. Len(s) : Means(SubSeq(s, k + 1, Len(s)), Tail(m))
    ELSE /\ s # <<>>
         /\ Head(m) = "?" \/ Folded(Head(m)) = Folded(Head(s))
         /\ Means(Tail(s), Tail(m))

WildcardTypeOK ==
    /\ at \in {"prefix", "stars", "done"} /\ answer \in BOOLEAN
    /\ wi \in 1 .. MaxMask + 1 /\ mp \in 0 .. MaxMask

(* MatchInternal gives the answer that the mask means, and on the way never  *)
(* reads behind the terminators nor goes back to a star it has not met.      *)
MatchIsRight ==
    /\ WildcardTypeOK
    /\ si \in 1 .. Len(text) + 1 /\ wi \in 1 .. Len(mask_) + 1
    /\ at = "done" => answer = Means(text, mask_)

(* MatchInternal ends on every string and mask *)
MatchEnds == <>(at = "done")

=============================================================================
