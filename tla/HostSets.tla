------------------------------ MODULE HostSets ------------------------------
(***************************************************************************)
(* Sets of host names and "*." wildcards (egress/hostset.go).  A spelling  *)
(* is the sequence of the labels between its dots: an empty label ends a   *)
(* name written with a trailing dot, and "*" begins a wildcard.  Names     *)
(* outside ASCII, zones and the length bounds are left out.                *)
(***************************************************************************)
EXTENDS Naturals, Sequences, FiniteSets

CONSTANTS Folded,     \* each label in lower case
          Numeric     \* the labels of digits only

LastLabel(h) == h[Len(h)]

FoldASCII(h) == [i \in DOMAIN h |-> Folded[h[i]]]

CanonicalName(h) == FoldASCII(h)

CanonicalDeRooted(h) ==
    LET name == CanonicalName(h)
    IN IF Len(name) > 1 /\ LastLabel(name) = "" THEN SubSeq(name, 1, Len(name) - 1) ELSE name

CanonicalLookup(h) == CanonicalDeRooted(h)

HasEmptyLabel(h) == \E i \in DOMAIN h : h[i] = ""

IsWildcard(e) == Len(e) > 1 /\ e[1] = "*"

Unstarred(e) == SubSeq(e, 2, Len(e))

\* The name ends in a dot and the suffix.
EndsBelow(name, suffix) ==
    /\ Len(name) > Len(suffix)
    /\ SubSeq(name, Len(name) - Len(suffix) + 1, Len(name)) = suffix

NewHostSet(entries) ==
    LET kept(names) == {n \in {CanonicalDeRooted(e) : e \in names} : ~ HasEmptyLabel(n)}
    IN [exact |-> kept({e \in entries : ~ IsWildcard(e)}),
        suffixes |-> kept({Unstarred(e) : e \in {f \in entries : IsWildcard(f)}})]

MatchApex(set, host) ==
    LET name == CanonicalLookup(host)
    IN /\ ~ HasEmptyLabel(name)
       /\ \/ name \in set.exact
          \/ \E suffix \in set.suffixes : name = suffix \/ EndsBelow(name, suffix)

\* A wildcard matches the names below it and never the name itself.
Match(set, host) ==
    LET name == CanonicalLookup(host)
    IN /\ ~ HasEmptyLabel(name)
       /\ name \in set.exact \/ \E suffix \in set.suffixes : EndsBelow(name, suffix)

CoversEntry(set, entry) ==
    IF IsWildcard(entry)
    THEN LET rest == CanonicalDeRooted(Unstarred(entry))
         IN /\ ~ HasEmptyLabel(rest)
            /\ \E suffix \in set.suffixes : rest = suffix \/ EndsBelow(rest, suffix)
    ELSE Match(set, entry)

IsIP(h) == Len(h) = 4 /\ \A i \in DOMAIN h : h[i] \in Numeric

ValidHostEntry(e) ==
    LET host == IF IsWildcard(e) THEN Unstarred(e) ELSE e
    IN /\ \A i \in DOMAIN host : host[i] # "*"
       /\ IF IsIP(host) THEN ~ IsWildcard(e)
          ELSE ~ HasEmptyLabel(host) /\ \E i \in DOMAIN host : host[i] \notin Numeric
=============================================================================
