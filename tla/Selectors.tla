----------------------------- MODULE Selectors -----------------------------
(***************************************************************************)
(* Selectors of a rule: a list of addresses or of ports, each one a single *)
(* value or an inclusive range, and the nftables expression it becomes: a  *)
(* comparison, a set of values, or a set of intervals.  Values have a      *)
(* greatest one (2^32 - 1, 2^16 - 1), behind which they wrap to zero.      *)
(***************************************************************************)
EXTENDS Naturals, Sequences, FiniteSets, SequencesExt

CONSTANTS
    AddrTop,  \* the greatest IPv4 address
    PortTop   \* the greatest port

ASSUME SelectorsAssumption == {AddrTop, PortTop} \subseteq Nat \ {0}

\* An entry; a range may hold one value only and is a range still.
Single(v) == [low |-> v, high |-> v, range |-> FALSE]
RangeOf(a, b) == [low |-> a, high |-> b, range |-> TRUE]

\* The lists that the decoders let through: the ends of an entry are in order, and
\* are the same when it is a single value.
Intervals(top) == {e \in [low : 0..top, high : 0..top, range : BOOLEAN] : e.low <= e.high}
Lists(top) == {s \in Seq(Intervals(top)) : \A e \in ToSet(s) : e.range \/ e.low = e.high}

\* slices.SortFunc: the entries of s in an order in which none comes after one that
\* it is less than.
SortFunc(s, Less(_, _)) ==
    CHOOSE t \in {[i \in DOMAIN s |-> s[p[i]]] : p \in Bijection(DOMAIN s, DOMAIN s)} :
        \A i, j \in DOMAIN s : i < j => ~Less(t[j], t[i])

Before(i, j) == i.low < j.low \/ (i.low = j.low /\ i.high < j.high)

\* An interval that overlaps or adjoins the last one extends it.
Extend(merged, i, top) ==
    IF merged = <<>> THEN <<i>>
    ELSE LET last == Last(merged) IN
         IF i.low <= last.high \/ (last.high # top /\ i.low = last.high + 1)
         THEN Append(Front(merged), [last EXCEPT !.high = Max({@, i.high})])
         ELSE Append(merged, i)

\* One interval after the other, in the order of their low ends.
Merge(intervals, top) ==
    LET sorted == SortFunc(intervals, Before)
        merged[k \in 0..Len(sorted)] == IF k = 0 THEN <<>> ELSE Extend(merged[k - 1], sorted[k], top)
    IN  merged[Len(sorted)]

mergeUint32Intervals(intervals) == Merge(intervals, AddrTop)
mergeUint16Intervals(intervals) == Merge(intervals, PortTop)

\* Mutant: the exclusive end wraps around at the greatest value.
IntervalElements_Wraps(merged, top) ==
    UNION {{[key |-> i.low, end |-> FALSE], [key |-> (i.high + 1) % (top + 1), end |-> TRUE]} :
               i \in ToSet(merged)}

\* Each interval is two elements, its low end and what follows its high end; an
\* interval up to the greatest value is left open.
IntervalElements(merged, top) ==
    {[key |-> i.low, end |-> FALSE] : i \in ToSet(merged)} \cup
    {[key |-> (i.high + 1) % (top + 1), end |-> TRUE] : i \in {j \in ToSet(merged) : j.high # top}}

\* The expression: nothing, a comparison, or a lookup in an anonymous set.
Anything == [op |-> "any"]
Exprs(entries, merged, top) ==
    IF entries = <<>> THEN Anything
    ELSE IF Len(entries) = 1 THEN [op |-> "cmp", low |-> entries[1].low, high |-> entries[1].high]
    ELSE IF \E e \in ToSet(entries) : e.range
         THEN [op |-> "interval", elements |-> IntervalElements(merged, top)]
         ELSE [op |-> "set", elements |-> {e.low : e \in ToSet(entries)}]

createIPExprs(entries) == Exprs(entries, mergeUint32Intervals(entries), AddrTop)
createPortExprs(entries) == Exprs(entries, mergeUint16Intervals(entries), PortTop)

-----------------------------------------------------------------------------
(* nftables (external) *)

\* An interval set holds a value when the last element at or before it begins an
\* interval.
InIntervals(elements, v) ==
    LET upTo == {e \in elements : e.key <= v}
    IN  upTo # {} /\ ~(CHOOSE e \in upTo : \A o \in upTo : o.key <= e.key).end

Matches(x, v) ==
    CASE x.op = "any" -> TRUE
      [] x.op = "cmp" -> x.low <= v /\ v <= x.high
      [] x.op = "set" -> v \in x.elements
      [] x.op = "interval" -> InIntervals(x.elements, v)

\* The kernel refuses a set with two elements under one key.
Acceptable(x) ==
    x.op = "interval" => \A e, o \in x.elements : e.key = o.key => e = o

-----------------------------------------------------------------------------
(* What a selector means *)

\* A list selects the values that one of its entries holds; no list selects all.
Selects(entries, v) == entries = <<>> \/ \E e \in ToSet(entries) : e.low <= v /\ v <= e.high

\* The expression is one the kernel takes and matches what the list selects.
Exact(entries, x, top) == Acceptable(x) /\ \A v \in 0..top : Matches(x, v) <=> Selects(entries, v)
=============================================================================
