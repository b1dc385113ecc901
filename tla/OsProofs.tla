------------------------------ MODULE OsProofs ------------------------------
(***************************************************************************)
(* Proofs about OsSnapshot: its types, and what LOW and HIGH say of SAP, for *)
(* any tree of any number of hosts, any cap and any batch that ends early.   *)
(***************************************************************************)
EXTENDS OsSnapshot, FiniteSetTheorems, WellFoundedInduction, TLAPS

\* How long the beginning of n things is that has at most m.
Cut(n, m) == IF n <= m THEN n ELSE m

LEMMA CutType ==
    ASSUME NEW n \in Nat, NEW m \in Nat
    PROVE  /\ Cut(n, m) \in Nat /\ Cut(n, m) <= n /\ Cut(n, m) <= m
           /\ n <= m => Cut(n, m) = n
           /\ n > m => Cut(n, m) = m
  BY DEF Cut

\* A prefix is the beginning of a sequence.
LEMMA PrefixIsBeginning ==
    ASSUME NEW n \in Nat, NEW m \in Nat, NEW s, DOMAIN s = 1..n
    PROVE  /\ Prefix(s, m) = [i \in 1..Cut(n, m) |-> s[i]]
           /\ Len(Prefix(s, m)) = Cut(n, m)
<1>1. Cut(n, m) \in Nat /\ {i \in 1..n : i <= m} = 1..Cut(n, m)
  <2>1. CASE n <= m
    BY <2>1 DEF Cut
  <2>2. CASE ~(n <= m)
    BY <2>2 DEF Cut
  <2> QED BY <2>1, <2>2
<1>2. Prefix(s, m) = [i \in 1..Cut(n, m) |-> s[i]]
  BY <1>1 DEF Prefix
<1> QED BY <1>1, <1>2

\* What is listed is a sequence of elements.
LEMMA ListingType ==
    ASSUME NEW s \in Listings
    PROVE  /\ s \in [1..Len(s) -> Elements] /\ Len(s) \in Nat
           /\ Len(s) = 0 => s = <<>>
<1>1. Cardinality(Elements) \in Nat
  BY SnapshotAssumption, FS_CardinalityType
<1>2. PICK n \in 0..Cardinality(Elements) : s \in [1..n -> Elements]
  BY DEF Listings
<1>3. Len(s) = n /\ n \in Nat
  BY <1>1, <1>2
<1> QED BY <1>2, <1>3

\* Nothing listed is a listing, and what is read of it is nothing.
LEMMA NothingListed ==
    /\ <<>> \in Listings
    /\ Prefix(<<>>, MaxMetrics) = <<>>
<1>1. Cardinality(Elements) \in Nat /\ MaxMetrics \in Nat
  BY SnapshotAssumption, FS_CardinalityType
<1>2. <<>> \in [1..0 -> Elements] /\ 0 \in 0..Cardinality(Elements)
  BY <1>1
<1>3. <<>> \in Listings
  BY <1>2 DEF Listings
<1>4. DOMAIN <<>> = 1..0 /\ Cut(0, MaxMetrics) = 0
  BY <1>1 DEF Cut
<1>5. Prefix(<<>>, MaxMetrics) = [i \in 1..0 |-> <<>>[i]]
  BY <1>1, <1>4, PrefixIsBeginning
<1>6. [i \in 1..0 |-> <<>>[i]] = <<>>
  OBVIOUS
<1> QED BY <1>3, <1>5, <1>6

\* The first n values of those that SAP holds, if it holds so many.
LEMMA FirstValues ==
    ASSUME NEW h, NEW l \in Nat, h \in [1..l -> Values], NEW n \in Nat, n <= l
    PROVE  /\ Prefix(h, n) \in [1..n -> Values]
           /\ Len(Prefix(h, n)) = n
           /\ \A i \in 1..n : Prefix(h, n)[i] = h[i]
<1>1. Cut(l, n) = n
  BY DEF Cut
<1>2. Prefix(h, n) = [i \in 1..n |-> h[i]] /\ Len(Prefix(h, n)) = n
  BY <1>1, PrefixIsBeginning
<1>3. \A i \in 1..n : i \in 1..l
  OBVIOUS
<1> QED BY <1>2, <1>3

\* What is read of a listing is no more than is listed, and no more than the cap.
LEMMA ReadOfListing ==
    ASSUME NEW s \in Listings
    PROVE  /\ Len(Prefix(s, MaxMetrics)) = Cut(Len(s), MaxMetrics)
           /\ Prefix(s, MaxMetrics) \in [1..Cut(Len(s), MaxMetrics) -> Elements]
           /\ \A i \in 1..Cut(Len(s), MaxMetrics) : Prefix(s, MaxMetrics)[i] = s[i]
<1>1. Len(s) \in Nat /\ s \in [1..Len(s) -> Elements] /\ MaxMetrics \in Nat
  BY ListingType, SnapshotAssumption
<1> DEFINE m == Cut(Len(s), MaxMetrics)
<1>2. Prefix(s, MaxMetrics) = [i \in 1..m |-> s[i]] /\ Len(Prefix(s, MaxMetrics)) = m
  BY <1>1, PrefixIsBeginning
<1>3. m \in Nat /\ m <= Len(s)
  BY <1>1, CutType
<1> HIDE DEF m
<1>4. \A i \in 1..m : i \in 1..Len(s)
  BY <1>1, <1>3
<1>5. /\ Prefix(s, MaxMetrics) \in [1..m -> Elements]
      /\ \A i \in 1..m : Prefix(s, MaxMetrics)[i] = s[i]
  BY <1>1, <1>2, <1>4
<1> QED BY <1>2, <1>5 DEF m

\* The risk is one of three.
LEMMA RiskValues == ASSUME NEW flags PROVE RiskOf(flags) \in {"LOW", "MEDIUM", "HIGH"}
BY DEF RiskOf

\* What is read is the beginning of what is listed.  A call that is under way has
\* delivered nothing; one that has delivered was judged by the flags of what came
\* back, the beginning of what SAP held.
Judged ==
    /\ wanted = Prefix(listed, MaxMetrics)
    /\ truncated <=> Len(listed) > MaxMetrics
    /\ pc # "idle" => held = <<>> /\ values = <<>> /\ status = "none"
    /\ status = "ok" =>
        /\ risk = RiskOf(Flagged(wanted, values))
        /\ held \in [DOMAIN listed -> Values]
        /\ values = Prefix(held, Len(values))

Inv == TypeOK /\ Judged

\* An empty sequence is a function on an empty interval.
LEMMA NoneRead ==
    ASSUME NEW S, NEW n \in Nat
    PROVE  \E k \in 0..n : <<>> \in [1..k -> S]
<1>1. <<>> \in [1..0 -> S]
  OBVIOUS
<1>2. 0 \in 0..n
  OBVIOUS
<1> QED BY <1>1, <1>2

LEMMA InvStep == Inv /\ [Next]_vars => Inv'
<1> SUFFICES ASSUME Inv, [Next]_vars PROVE Inv'
  OBVIOUS
<1> USE SnapshotAssumption DEF Inv, TypeOK, Judged
<1>1. CASE Call
  <2>1. /\ \E k \in 0..MaxMetrics : wanted' \in [1..k -> Elements]
        /\ \E k \in 0..Len(wanted') : values' \in [1..k -> Values]
    BY <1>1, NoneRead DEF Call
  <2>2. turn' \in DOMAIN Sets
    BY <1>1 DEF Call
  <2>3. /\ pc' = "tree" /\ status' = "none" /\ risk' = "none" /\ values' = <<>>
        /\ held' = <<>> /\ listed' = <<>> /\ truncated' = FALSE
    BY <1>1 DEF Call
  <2>4. listed' \in Listings /\ wanted' = Prefix(listed', MaxMetrics)
    BY <1>1, NothingListed DEF Call
  <2>5. ~truncated' /\ truncated' \in BOOLEAN /\ ~(Len(listed') > MaxMetrics)
    <3>1. ~(Len(<<>>) > MaxMetrics)
      OBVIOUS
    <3> QED BY <2>3, <3>1
  <2> QED BY <2>1, <2>2, <2>3, <2>4, <2>5
<1>2. CASE TreeFound
  <2>1. PICK s \in Listings :
          /\ listed' = s
          /\ truncated' = (Len(s) > MaxMetrics)
          /\ wanted' = Prefix(s, MaxMetrics)
          /\ IF s = <<>> THEN Unavailable
             ELSE pc' = "values" /\ UNCHANGED <<turn, held, values, status, risk>>
    BY <1>2 DEF TreeFound
  <2> DEFINE m == Cut(Len(s), MaxMetrics)
  <2>2. wanted' \in [1..m -> Elements] /\ Len(wanted') = m /\ m \in 0..MaxMetrics
    <3>1. Len(s) \in Nat /\ s \in [1..Len(s) -> Elements] /\ MaxMetrics \in Nat
      BY ListingType
    <3>2. wanted' \in [1..m -> Elements] /\ Len(wanted') = m
      BY <2>1, ReadOfListing
    <3>3. m \in Nat /\ m <= MaxMetrics
      BY <3>1, CutType
    <3> QED BY <3>1, <3>2, <3>3
  <2>3. values = <<>> /\ status = "none" /\ risk = "none"
    BY <1>2 DEF TreeFound
  <2>4. \E k \in 0..Len(wanted') : <<>> \in [1..k -> Values]
    <3>1. Len(wanted') \in Nat
      BY <2>2
    <3> QED BY <3>1, NoneRead
  <2>5. held' = held /\ held = <<>>
    <3>1. held' = held
      BY <2>1 DEF Unavailable
    <3>2. pc = "tree"
      BY <1>2 DEF TreeFound
    <3>3. held = <<>>
      BY <3>2
    <3> QED BY <3>1, <3>3
  <2>6. /\ listed' \in Listings /\ wanted' = Prefix(listed', MaxMetrics)
        /\ truncated' \in BOOLEAN /\ (truncated' <=> Len(listed') > MaxMetrics)
    <3>1. (Len(s) > MaxMetrics) \in BOOLEAN
      OBVIOUS
    <3> QED BY <2>1, <3>1
  <2>7. /\ \E k \in 0..MaxMetrics : wanted' \in [1..k -> Elements]
        /\ \E k \in 0..Len(wanted') : values \in [1..k -> Values]
    BY <2>2, <2>3, <2>4
  <2>8. CASE s = <<>>
    <3>1. pc' = "idle" /\ status' = "unavailable" /\ UNCHANGED <<turn, values, risk>>
      BY <2>1, <2>8 DEF Unavailable
    <3> QED BY <2>3, <2>5, <2>6, <2>7, <3>1
  <2>9. CASE s # <<>>
    <3>1. pc' = "values" /\ UNCHANGED <<turn, values, status, risk>>
      BY <2>1, <2>9
    <3>2. wanted' # <<>>
      <4>1. m # 0
        BY <2>9, ListingType DEF Cut
      <4> QED BY <2>2, <4>1
    <3> QED BY <2>3, <2>5, <2>6, <2>7, <3>1, <3>2
  <2> QED BY <2>8, <2>9
<1>3. CASE TreeEmpty \/ TreeFails \/ ReadValuesFails
  <2>1. pc # "idle" /\ UNCHANGED <<listed, truncated, wanted, held, values, risk>>
    BY <1>3 DEF TreeEmpty, TreeFails, ReadValuesFails, TryNext, Unavailable, tree
  <2>2. \/ UNCHANGED <<turn, pc, status>>
        \/ turn' = turn + 1 /\ turn < Len(Sets) /\ UNCHANGED <<pc, status>>
        \/ UNCHANGED turn /\ pc' = "idle" /\ status' = "unavailable"
    BY <1>3 DEF TreeEmpty, TreeFails, ReadValuesFails, TryNext, Unavailable
  <2>3. /\ \E k \in 0..MaxMetrics : wanted' \in [1..k -> Elements]
        /\ \E k \in 0..Len(wanted') : values' \in [1..k -> Values]
    BY <2>1
  <2>4. turn' \in DOMAIN Sets
    BY <2>2
  <2>5. status = "none" /\ risk = "none"
    BY <2>1
  <2> QED BY <2>1, <2>2, <2>3, <2>4, <2>5
<1>4. ASSUME NEW n \in 0..Len(wanted), pc = "values", Fold(n) PROVE Inv'
  <2>1. /\ UNCHANGED <<turn, listed, truncated, wanted>>
        /\ pc' = "idle" /\ status' = "ok"
        /\ held' \in [DOMAIN listed -> Values] /\ values' = Prefix(held', n)
        /\ risk' = RiskOf(Flagged(wanted', values'))
    BY <1>4 DEF Fold, tree
  <2>2. Len(listed) \in Nat /\ MaxMetrics \in Nat /\ DOMAIN listed = 1..Len(listed)
    BY ListingType
  <2>3. Len(wanted) \in Nat /\ Len(wanted) <= Len(listed)
    <3>1. Len(wanted) = Cut(Len(listed), MaxMetrics)
      BY ReadOfListing
    <3> HIDE DEF Inv, TypeOK, Judged
    <3> QED BY <2>2, <3>1, CutType
  <2>4. held' \in [1..Len(listed) -> Values]
    BY <2>1, <2>2
  <2>5. n \in Nat /\ n <= Len(listed)
    BY <2>3, <2>2
  <2>6. values' \in [1..n -> Values] /\ Len(values') = n
    <3> HIDE DEF Inv, TypeOK, Judged
    <3> QED BY <2>1, <2>2, <2>4, <2>5, FirstValues
  <2>7. risk' \in {"LOW", "MEDIUM", "HIGH"}
    BY <2>1, RiskValues
  <2>8. /\ \E k \in 0..MaxMetrics : wanted' \in [1..k -> Elements]
        /\ \E k \in 0..Len(wanted') : values' \in [1..k -> Values]
    BY <2>1, <2>6
  <2> QED BY <2>1, <2>6, <2>7, <2>8
<1>5. CASE ReadValues \/ ReadValuesCut
  <2>1. Len(wanted) \in Nat
    OBVIOUS
  <2> QED BY <1>4, <1>5, <2>1 DEF ReadValues, ReadValuesCut
<1>6. CASE UNCHANGED vars
  BY <1>6 DEF vars
<1> QED BY <1>1, <1>2, <1>3, <1>5, <1>6 DEF Next

THEOREM Invariance == Spec => []Inv
<1>1. Init => Inv
  <2> SUFFICES ASSUME Init PROVE Inv
    OBVIOUS
  <2>1. listed \in Listings /\ wanted = Prefix(listed, MaxMetrics)
    BY NothingListed DEF Init
  <2>2. /\ \E k \in 0..MaxMetrics : wanted \in [1..k -> Elements]
        /\ \E k \in 0..Len(wanted) : values \in [1..k -> Values]
    BY SnapshotAssumption, NoneRead DEF Init
  <2>3. ~truncated /\ truncated \in BOOLEAN /\ ~(Len(listed) > MaxMetrics)
    <3>1. ~(Len(<<>>) > MaxMetrics)
      BY SnapshotAssumption
    <3> QED BY <3>1 DEF Init
  <2> QED BY <2>1, <2>2, <2>3, SnapshotAssumption DEF Init, Inv, TypeOK, Judged
<1> QED
  BY <1>1, InvStep, PTL DEF Spec

\* Every reachable state is well typed: a call never reads more than its cap, and
\* never judges more values than it asked for.
THEOREM OsTypes == Spec => []TypeOK
<1>1. Inv => TypeOK
  BY DEF Inv
<1> QED BY Invariance, <1>1, PTL

\* A flag is raised by a value or by the CPU idle of a host.
LEMMA RaisedBy ==
    ASSUME NEW nodes, NEW vals, NEW f
    PROVE  f \in Flagged(nodes, vals) <=>
              \/ \E i \in DOMAIN vals : f \in FlagsOf(i, nodes[i], vals[i])
              \/ f \in IdleFlags(nodes, vals)
<1> DEFINE Groups == {FlagsOf(i, nodes[i], vals[i]) : i \in DOMAIN vals}
<1>1. f \in UNION Groups <=> \E i \in DOMAIN vals : f \in FlagsOf(i, nodes[i], vals[i])
  <2>1. ASSUME NEW G \in Groups, f \in G
        PROVE  \E i \in DOMAIN vals : f \in FlagsOf(i, nodes[i], vals[i])
    BY <2>1
  <2>2. ASSUME NEW i \in DOMAIN vals, f \in FlagsOf(i, nodes[i], vals[i])
        PROVE  f \in UNION Groups
    BY <2>2
  <2> QED BY <2>1, <2>2
<1> QED BY <1>1 DEF Flagged

\* HIGH takes a red alert of CCMS or a host with next to no idle CPU, also when
\* flags are dropped for an earlier one of the same metric.
THEOREM HighNeedsRed == Spec => []HighIsRed
<1>1. Inv => HighIsRed
  <2> SUFFICES ASSUME Inv, risk = "HIGH"
               PROVE  \E i \in DOMAIN values :
                         \/ values[i].colour = "red"
                         \/ values[i].num = "bad" /\ KindOf[wanted[i]] = "idle"
    BY DEF HighIsRed
  <2>1. RiskOf(Flagged(wanted, values)) = "HIGH"
    BY DEF Inv, TypeOK, Judged
  <2>2. PICK f \in Flagged(wanted, values) : f.alert = "red"
    BY <2>1 DEF RiskOf, Unique
  <2>3. CASE \E i \in DOMAIN values : f \in FlagsOf(i, wanted[i], values[i])
    BY <2>2, <2>3 DEF FlagsOf, Flag
  <2>4. CASE f \in IdleFlags(wanted, values)
    BY <2>4 DEF IdleFlags
  <2> QED BY <2>2, <2>3, <2>4, RaisedBy
<1> QED BY Invariance, <1>1, PTL

\* Merging flags of one metric never drops the last of them.
LEMMA FirstIsKept ==
    ASSUME NEW flags, \A f \in flags : f.at \in Nat, flags # {}
    PROVE  Unique(flags) # {}
<1> DEFINE Places == {f.at : f \in flags}
           Less == {ss \in Nat \X Nat : ss[1] < ss[2]}
<1>1. IsWellFoundedOn(Less, Nat)
  BY NatLessThanWellFounded DEF OpToRel
<1>2. Places \subseteq Nat /\ Places # {}
  OBVIOUS
<1> HIDE DEF Places, Less
<1>3. PICK n \in Places : \A k \in Places : ~(<<k, n>> \in Less)
  BY <1>1, <1>2, WFMin
<1>4. PICK f \in flags : n = f.at
  BY DEF Places
<1>5. \A g \in flags : ~(g.at < f.at)
  BY <1>3, <1>4 DEF Places, Less
<1> QED
  BY <1>5 DEF Unique

\* An alarming value that came back raises a flag, or a later value of the same
\* idle CPU stands for it.
LEMMA AlarmsRaiseFlags ==
    ASSUME NEW i \in DOMAIN values, Alarming(wanted[i], values[i]), ~Replaced(i)
    PROVE  Flagged(wanted, values) # {}
<1>1. CASE values[i].colour \in {"yellow", "red"}
  <2>1. FlagsOf(i, wanted[i], values[i]) # {}
    BY <1>1 DEF FlagsOf
  <2> QED BY <2>1, RaisedBy
<1>2. CASE values[i].num = "bad" /\ KindOf[wanted[i]] = "used"
  <2>1. FlagsOf(i, wanted[i], values[i]) # {}
    BY <1>2 DEF FlagsOf
  <2> QED BY <2>1, RaisedBy
<1>3. CASE /\ values[i].num = "bad" /\ KindOf[wanted[i]] = "idle"
           /\ values[i].colour \notin {"yellow", "red"}
  <2>1. \A k \in DOMAIN values :
          KindOf[wanted[k]] = "idle" /\ k > i => MetricOf[wanted[k]] # MetricOf[wanted[i]]
    BY <1>3 DEF Replaced
  <2>2. IdleFlags(wanted, values) # {}
    BY <1>3, <2>1 DEF IdleFlags
  <2> QED BY <2>2, RaisedBy
<1> QED BY <1>1, <1>2, <1>3 DEF Alarming

\* LOW leaves trouble in SAP only behind a cap the report tells of, in a value that
\* did not come back, or under a later value of a host's idle CPU.
THEOREM LowMeansCalm == Spec => []LowIsCalm
<1>1. Inv => LowIsCalm
  <2> SUFFICES ASSUME Inv, risk = "LOW",
                      NEW i \in DOMAIN listed, Alarming(listed[i], held[i]),
                      ~(i > MaxMetrics /\ truncated),
                      i \notin (Len(values) + 1)..Len(wanted)
               PROVE  i \in DOMAIN values /\ Replaced(i)
    BY DEF LowIsCalm
  <2> DEFINE flags == Flagged(wanted, values)
  <2>1. risk = RiskOf(flags) /\ status = "ok"
    BY DEF Inv, TypeOK, Judged
  <2>2. /\ Len(wanted) \in Nat /\ Len(values) \in 0..Len(wanted)
        /\ DOMAIN values = 1..Len(values)
        /\ \A k \in DOMAIN values : k \in Nat
    BY DEF Inv, TypeOK
  <2>3. \A f \in flags : f.at \in Nat
    <3> SUFFICES ASSUME NEW f \in flags PROVE f.at \in Nat
      OBVIOUS
    <3>1. CASE \E k \in DOMAIN values : f \in FlagsOf(k, wanted[k], values[k])
      BY <2>2, <3>1 DEF FlagsOf, Flag
    <3>2. CASE f \in IdleFlags(wanted, values)
      BY <2>2, <3>2 DEF IdleFlags, Flag
    <3> QED BY <3>1, <3>2, RaisedBy
  <2> HIDE DEF flags
  <2>4. Unique(flags) = {}
    BY <2>1 DEF RiskOf
  <2>5. flags = {}
    BY <2>3, <2>4, FirstIsKept
  <2>6. /\ Len(listed) \in Nat /\ listed \in [1..Len(listed) -> Elements]
        /\ MaxMetrics \in Nat
    BY SnapshotAssumption, ListingType DEF Inv, TypeOK
  <2>7. /\ Len(wanted) = Cut(Len(listed), MaxMetrics)
        /\ \A k \in 1..Len(wanted) : wanted[k] = listed[k]
    BY <2>6, ReadOfListing DEF Inv, TypeOK, Judged
  <2>8. i \in 1..Len(listed) /\ i <= Len(wanted)
    <3>1. truncated <=> Len(listed) > MaxMetrics
      BY DEF Inv, Judged
    <3>2. i \in 1..Len(listed)
      BY <2>6
    <3>3. i <= Len(wanted)
      <4>1. CASE Len(listed) <= MaxMetrics
        BY <2>6, <2>7, <3>2, <4>1 DEF Cut
      <4>2. CASE Len(listed) > MaxMetrics
        <5>1. ~(i > MaxMetrics)
          BY <3>1, <4>2, Zenon
        <5>2. Cut(Len(listed), MaxMetrics) = MaxMetrics
          BY <2>6, <4>2, CutType
        <5>3. Len(wanted) = MaxMetrics
          BY <2>7, <5>2
        <5>4. i \in Nat
          BY <3>2, <2>6
        <5> QED BY <2>6, <5>1, <5>3, <5>4
      <4> QED BY <2>6, <4>1, <4>2
    <3> QED BY <3>2, <3>3
  <2>9. i \in 1..Len(values)
    BY <2>2, <2>8
  <2>10. wanted[i] = listed[i] /\ values[i] = held[i]
    <3>1. held \in [1..Len(listed) -> Values] /\ values = Prefix(held, Len(values))
      BY <2>1, <2>6 DEF Inv, Judged
    <3>2. Len(values) \in Nat /\ Len(values) <= Len(listed)
      BY <2>2, <2>6, <2>7, CutType
    <3>3. values[i] = held[i]
      BY <2>6, <2>9, <3>1, <3>2, FirstValues
    <3> QED BY <2>2, <2>7, <2>9, <3>3
  <2> QED BY <2>2, <2>5, <2>9, <2>10, AlarmsRaiseFlags DEF flags
<1> QED BY Invariance, <1>1, PTL
============================================================================
