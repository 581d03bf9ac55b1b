---------------------------- MODULE PaperProofs ----------------------------
(***************************************************************************)
(* Proofs about the paper account: how its positions are replayed from the *)
(* journal (PaperReplay), for any journal and any size of a page, and its  *)
(* capital and funding (PaperFunding), for any positions and settlements.  *)
(*                                                                         *)
(* After is a recursive function.  What it makes of a journal is proved by *)
(* induction over rows, with SetInduction; the rest only uses that history *)
(* starts with no positions, takes one row after the other and can be cut  *)
(* anywhere (HistoryFacts), and that later rows and decisions leave it     *)
(* alone (HistoryKept).                                                    *)
(***************************************************************************)
EXTENDS PaperReplay, PaperFunding, WellFoundedInduction, FiniteSetTheorems, TLAPS

(* Induction over the naturals, in a form without an operator: a set that   *)
(* has 0 and with every number the next one has them all.                   *)
LEMMA SetInduction ==
  ASSUME NEW S, 0 \in S, \A n \in Nat : n \in S => n + 1 \in S
  PROVE  \A n \in Nat : n \in S
<1> DEFINE Less == {ss \in Nat \X Nat : ss[1] < ss[2]}
           Missing == {n \in Nat : n \notin S}
<1>1. SUFFICES ASSUME Missing # {} PROVE FALSE
  OBVIOUS
<1>2. IsWellFoundedOn(Less, Nat)
  BY NatLessThanWellFounded, Zenon DEF OpToRel
<1>3. PICK x \in Missing : \A y \in Missing : ~(<<y, x>> \in Less)
  <2>1. Missing \subseteq Nat
    OBVIOUS
  <2> HIDE DEF Less, Missing
  <2> QED BY <1>1, <1>2, <2>1, WFMin
<1>4. x \in Nat /\ x # 0 /\ x - 1 \in Nat /\ x \notin S
  OBVIOUS
<1>5. <<x - 1, x>> \in Less
  BY <1>4
<1>6. x - 1 \in S
  BY <1>3, <1>4, <1>5
<1> QED BY <1>4, <1>6
-----------------------------------------------------------------------------
(* What the rows of a journal make of positions, row after row; take[r] is  *)
(* what row r makes of any.                                                 *)
Positions == [RowId -> Stage]

IsTrail(g, take, from, first, last) ==
  g = [r \in first - 1 .. last |-> IF r < first THEN from ELSE take[r][g[r - 1]]]

Trail(take, from, first, last) == (CHOOSE g : IsTrail(g, take, from, first, last))[last]

Takes(n) == [1..n -> [Positions -> Positions]]

LEMMA TrailExists ==
  ASSUME NEW take, NEW from, NEW first \in Nat \ {0}, NEW last \in Nat, first - 1 <= last
  PROVE  \E g : IsTrail(g, take, from, first, last)
<1> DEFINE Long == {n \in Nat : \E g : IsTrail(g, take, from, first, first - 1 + n)}
<1>1. 0 \in Long
  <2> DEFINE g == [r \in first - 1 .. first - 1 |-> from]
  <2>1. IsTrail(g, take, from, first, first - 1 + 0)
    BY DEF IsTrail
  <2> QED BY <2>1
<1>2. ASSUME NEW n \in Nat, n \in Long PROVE n + 1 \in Long
  <2>1. PICK g : IsTrail(g, take, from, first, first - 1 + n)
    BY <1>2
  <2> DEFINE h == [r \in first - 1 .. first + n |->
                     IF r = first + n THEN take[r][g[r - 1]] ELSE g[r]]
  <2>2. IsTrail(h, take, from, first, first + n)
    <3> DEFINE on(r) == IF r < first THEN from ELSE take[r][h[r - 1]]
    <3>1. \A r \in first - 1 .. first + n : h[r] = on(r)
      <4> SUFFICES ASSUME NEW r \in first - 1 .. first + n PROVE h[r] = on(r)
        OBVIOUS
      <4>1. CASE r = first + n
        <5>1. r - 1 \in first - 1 .. first + n /\ r - 1 # first + n /\ ~(r < first)
          BY <4>1
        <5>2. h[r - 1] = g[r - 1]
          BY <5>1
        <5> QED BY <4>1, <5>1, <5>2
      <4>2. CASE r # first + n
        <5>1. r \in first - 1 .. first - 1 + n /\ h[r] = g[r]
          BY <4>2
        <5>2. g[r] = IF r < first THEN from ELSE take[r][g[r - 1]]
          BY <2>1, <5>1 DEF IsTrail
        <5>3. ~(r < first) => h[r - 1] = g[r - 1]
          BY <4>2
        <5> QED BY <5>1, <5>2, <5>3
      <4> QED BY <4>1, <4>2
    <3>2. h = [r \in first - 1 .. first + n |-> on(r)]
      BY <3>1
    <3> QED BY <3>2 DEF IsTrail
  <2>3. first - 1 + (n + 1) = first + n
    OBVIOUS
  <2> QED BY <2>2, <2>3
<1>3. \A n \in Nat : n \in Long
  <2> HIDE DEF Long
  <2> QED BY <1>1, <1>2, SetInduction
<1>4. last - (first - 1) \in Nat /\ first - 1 + (last - (first - 1)) = last
  OBVIOUS
<1> QED BY <1>3, <1>4

LEMMA TrailsAgree ==
  ASSUME NEW take, NEW from, NEW first \in Nat \ {0}, NEW last \in Nat, NEW longer \in Nat,
         last <= longer, NEW g, NEW h,
         IsTrail(g, take, from, first, last), IsTrail(h, take, from, first, longer)
  PROVE  \A r \in first - 1 .. last : g[r] = h[r]
<1> DEFINE Same == {n \in Nat : first - 1 + n <= last => g[first - 1 + n] = h[first - 1 + n]}
<1>1. 0 \in Same
  BY DEF IsTrail
<1>2. ASSUME NEW n \in Nat, n \in Same PROVE n + 1 \in Same
  BY <1>2 DEF IsTrail
<1>3. \A n \in Nat : n \in Same
  <2> HIDE DEF Same
  <2> QED BY <1>1, <1>2, SetInduction
<1>4. ASSUME NEW r \in first - 1 .. last PROVE g[r] = h[r]
  <2>1. r - (first - 1) \in Nat /\ first - 1 + (r - (first - 1)) = r /\ r <= last
    OBVIOUS
  <2> QED BY <1>3, <2>1
<1> QED BY <1>4

(* A trail starts where it comes from, and every row adds what it makes of  *)
(* the trail before it.                                                     *)
LEMMA TrailStarts ==
  ASSUME NEW take, NEW from, NEW first \in Nat \ {0}
  PROVE  Trail(take, from, first, first - 1) = from
<1>1. first - 1 \in Nat
  OBVIOUS
<1>2. \E g : IsTrail(g, take, from, first, first - 1)
  <2>1. first - 1 <= first - 1
    BY <1>1
  <2> QED BY <1>1, <2>1, TrailExists
<1> DEFINE chosen == CHOOSE h : IsTrail(h, take, from, first, first - 1)
<1>3. IsTrail(chosen, take, from, first, first - 1)
  BY <1>2
<1>4. chosen[first - 1] = from
  <2> HIDE DEF chosen
  <2> QED BY <1>3 DEF IsTrail
<1> QED BY <1>4 DEF Trail

LEMMA TrailGoesOn ==
  ASSUME NEW take, NEW from, NEW first \in Nat \ {0}, NEW last \in Nat, first <= last
  PROVE  Trail(take, from, first, last) = take[last][Trail(take, from, first, last - 1)]
<1> DEFINE long == CHOOSE g : IsTrail(g, take, from, first, last)
           short == CHOOSE g : IsTrail(g, take, from, first, last - 1)
<1>1. last - 1 \in Nat /\ first - 1 <= last - 1 /\ last - 1 <= last /\ first - 1 <= last
  OBVIOUS
<1>2. IsTrail(long, take, from, first, last)
  <2>1. \E g : IsTrail(g, take, from, first, last)
    BY <1>1, TrailExists
  <2> QED BY <2>1
<1>3. IsTrail(short, take, from, first, last - 1)
  <2>1. \E g : IsTrail(g, take, from, first, last - 1)
    BY <1>1, TrailExists
  <2> QED BY <2>1
<1>4. Trail(take, from, first, last) = long[last]
      /\ Trail(take, from, first, last - 1) = short[last - 1]
  BY DEF Trail
<1> HIDE DEF long, short
<1>5. short[last - 1] = long[last - 1]
  BY <1>1, <1>2, <1>3, TrailsAgree
<1>6. long[last] = take[last][long[last - 1]]
  BY <1>1, <1>2 DEF IsTrail
<1> QED BY <1>4, <1>5, <1>6

LEMMA TrailTyped ==
  ASSUME NEW n \in Nat, NEW take \in Takes(n), NEW from \in Positions,
         NEW first \in Nat \ {0}, NEW last \in first - 1 .. n
  PROVE  Trail(take, from, first, last) \in Positions
<1> DEFINE Good == {k \in Nat : first - 1 + k <= n =>
                                  Trail(take, from, first, first - 1 + k) \in Positions}
<1>1. 0 \in Good
  BY TrailStarts
<1>2. ASSUME NEW k \in Nat, k \in Good PROVE k + 1 \in Good
  <2>1. SUFFICES ASSUME first + k <= n PROVE Trail(take, from, first, first + k) \in Positions
    OBVIOUS
  <2>2. Trail(take, from, first, first + k - 1) \in Positions
    BY <1>2, <2>1
  <2> DEFINE next == first + k
  <2>3. Trail(take, from, first, next) = take[next][Trail(take, from, first, next - 1)]
    <3>1. next \in Nat /\ first <= next
      OBVIOUS
    <3> HIDE DEF next, Good
    <3> QED BY <3>1, TrailGoesOn
  <2>4. take[first + k] \in [Positions -> Positions]
    BY <2>1 DEF Takes
  <2> QED BY <2>2, <2>3, <2>4
<1>3. \A k \in Nat : k \in Good
  <2> HIDE DEF Good
  <2> QED BY <1>1, <1>2, SetInduction
<1>4. last - (first - 1) \in Nat /\ first - 1 + (last - (first - 1)) = last /\ last <= n
  OBVIOUS
<1> QED BY <1>3, <1>4

(* Journals that agree on their first rows lead to the same positions.      *)
LEMMA SameRowsSameTrail ==
  ASSUME NEW take, NEW other, NEW from, NEW last \in Nat,
         \A r \in 1..last : take[r] = other[r]
  PROVE  Trail(take, from, 1, last) = Trail(other, from, 1, last)
<1> DEFINE Same == {k \in Nat : k <= last => Trail(take, from, 1, k) = Trail(other, from, 1, k)}
<1>1. 0 \in Same
  <2>1. Trail(take, from, 1, 1 - 1) = from /\ Trail(other, from, 1, 1 - 1) = from
    BY TrailStarts
  <2> QED BY <2>1
<1>2. ASSUME NEW k \in Nat, k \in Same PROVE k + 1 \in Same
  <2> DEFINE next == k + 1
  <2>1. /\ Trail(take, from, 1, next) = take[next][Trail(take, from, 1, next - 1)]
        /\ Trail(other, from, 1, next) = other[next][Trail(other, from, 1, next - 1)]
    <3>1. next \in Nat /\ 1 <= next /\ 1 \in Nat \ {0}
      OBVIOUS
    <3> HIDE DEF next, Same
    <3> QED BY <3>1, TrailGoesOn
  <2> QED BY <1>2, <2>1
<1>3. \A k \in Nat : k \in Same
  <2> HIDE DEF Same
  <2> QED BY <1>1, <1>2, SetInduction
<1> QED BY <1>3

(* A trail can be cut anywhere.                                             *)
LEMMA TrailIsCut ==
  ASSUME NEW take, NEW from, NEW cut \in Nat, NEW last \in Nat, cut <= last
  PROVE  Trail(take, Trail(take, from, 1, cut), cut + 1, last) = Trail(take, from, 1, last)
<1> DEFINE start == Trail(take, from, 1, cut)
           Same == {k \in Nat :
                      Trail(take, start, cut + 1, cut + k) = Trail(take, from, 1, cut + k)}
<1>1. 0 \in Same
  <2>1. Trail(take, start, cut + 1, cut + 1 - 1) = start
    BY TrailStarts
  <2> QED BY <2>1
<1>2. ASSUME NEW k \in Nat, k \in Same PROVE k + 1 \in Same
  <2> DEFINE next == cut + k + 1
  <2>1. /\ Trail(take, start, cut + 1, next) = take[next][Trail(take, start, cut + 1, next - 1)]
        /\ Trail(take, from, 1, next) = take[next][Trail(take, from, 1, next - 1)]
    <3>1. /\ next \in Nat /\ 1 <= next /\ cut + 1 <= next
          /\ 1 \in Nat \ {0} /\ cut + 1 \in Nat \ {0}
      OBVIOUS
    <3> HIDE DEF start, next
    <3> QED BY <3>1, TrailGoesOn
  <2>2. next - 1 = cut + k /\ next = cut + (k + 1)
    OBVIOUS
  <2> HIDE DEF start, next
  <2> QED BY <1>2, <2>1, <2>2
<1>3. \A k \in Nat : k \in Same
  <2> HIDE DEF Same
  <2> QED BY <1>1, <1>2, SetInduction
<1>4. last - cut \in Nat /\ cut + (last - cut) = last
  OBVIOUS
<1> QED BY <1>3, <1>4
-----------------------------------------------------------------------------
LogTyped == log \in Seq(Kind) /\ Len(log) <= MaxLog

(* What each row of the journal makes of any positions.                     *)
Rows == [r \in 1..Len(log) |-> [p \in Positions |-> Taken(p, r)]]

LEMMA MovedStage ==
  ASSUME NEW stage \in Stage, NEW kind \in Kind
  PROVE  Moved(stage, kind) \in Stage
BY DEF Moved, Stage, Kind, InPlay

LEMMA TakenTyped ==
  ASSUME LogTyped, NEW p \in Positions, NEW r \in 1..Len(log)
  PROVE  AdvanceAll(p, r) \in Positions /\ Taken(p, r) \in Positions
<1>1. log[r] \in Kind
  BY DEF LogTyped
<1>2. AdvanceAll(p, r) \in Positions
  BY <1>1, MovedStage DEF AdvanceAll, Positions
<1>3. SubmitPlan(AdvanceAll(p, r), r) \in Positions
  BY <1>2 DEF SubmitPlan, Positions, Stage, InPlay
<1> QED BY <1>2, <1>3 DEF Taken

LEMMA RowsTyped ==
  ASSUME LogTyped
  PROVE  Rows \in Takes(Len(log)) /\ Len(log) \in Nat
BY TakenTyped DEF Rows, Takes, LogTyped

LEMMA AfterIsTrail ==
  ASSUME LogTyped, NEW p \in Positions, NEW first \in Nat \ {0}, NEW last \in Nat,
         first - 1 <= last, last <= Len(log)
  PROVE  After(p, first, last) = Trail(Rows, p, first, last)
<1> DEFINE on(f) == [r \in first - 1 .. last |-> IF r < first THEN p ELSE Taken(f[r - 1], r)]
           after == CHOOSE f : f = on(f)
<1>1. PICK g : IsTrail(g, Rows, p, first, last)
  BY TrailExists
<1>2. ASSUME NEW k \in first - 1 .. last PROVE g[k] = Trail(Rows, p, first, k) /\ g[k] \in Positions
  <2>1. /\ k \in Nat /\ first - 1 <= k /\ k <= last
        /\ k \in first - 1 .. k /\ k \in first - 1 .. Len(log)
    BY RowsTyped
  <2> DEFINE h == CHOOSE h : IsTrail(h, Rows, p, first, k)
  <2>2. IsTrail(h, Rows, p, first, k)
    <3>1. \E f : IsTrail(f, Rows, p, first, k)
      BY <2>1, TrailExists
    <3> QED BY <3>1
  <2>3. Trail(Rows, p, first, k) = h[k]
    BY DEF Trail
  <2> HIDE DEF h
  <2>4. h[k] = g[k]
    BY <1>1, <2>1, <2>2, TrailsAgree
  <2>5. Trail(Rows, p, first, k) \in Positions
    BY <2>1, RowsTyped, TrailTyped
  <2> QED BY <2>3, <2>4, <2>5
<1>3. g = on(g)
  <2>1. ASSUME NEW r \in first - 1 .. last, ~(r < first)
        PROVE  Rows[r][g[r - 1]] = Taken(g[r - 1], r)
    <3>1. r - 1 \in first - 1 .. last /\ r \in 1..Len(log)
      BY <2>1, RowsTyped
    <3>2. g[r - 1] \in Positions
      BY <1>2, <3>1
    <3> QED BY <3>1, <3>2 DEF Rows
  <2> QED BY <1>1, <2>1 DEF IsTrail
<1>4. after = on(after)
  BY <1>3
<1>5. \A r \in first - 1 .. last : after[r] = g[r]
  <2> DEFINE Same == {n \in Nat : first - 1 + n <= last => after[first - 1 + n] = g[first - 1 + n]}
  <2> HIDE DEF after
  <2>1. 0 \in Same
    BY <1>3, <1>4
  <2>2. ASSUME NEW n \in Nat, n \in Same PROVE n + 1 \in Same
    BY <1>3, <1>4, <2>2
  <2>3. \A n \in Nat : n \in Same
    <3> HIDE DEF Same
    <3> QED BY <2>1, <2>2, SetInduction
  <2>4. ASSUME NEW r \in first - 1 .. last PROVE after[r] = g[r]
    <3>1. r - (first - 1) \in Nat /\ first - 1 + (r - (first - 1)) = r /\ r <= last
      OBVIOUS
    <3> QED BY <2>3, <3>1
  <2> QED BY <2>4
<1>6. After(p, first, last) = after[last]
  BY DEF After
<1> HIDE DEF after, on
<1>7. last \in first - 1 .. last
  OBVIOUS
<1> QED BY <1>2, <1>5, <1>6, <1>7

LEMMA NoneTyped == NoPositions \in Positions
BY DEF NoPositions, Positions, Stage

(* The history of a journal's first rows, as a trail.                       *)
LEMMA HistoryIsTrail ==
  LogTyped => \A r \in 0..Len(log) : History(r) = Trail(Rows, NoPositions, 1, r)
<1> SUFFICES ASSUME LogTyped, NEW r \in 0..Len(log)
             PROVE  History(r) = Trail(Rows, NoPositions, 1, r)
  OBVIOUS
<1>1. r \in Nat /\ 1 \in Nat \ {0} /\ 1 - 1 <= r /\ r <= Len(log)
  BY RowsTyped
<1> QED BY <1>1, NoneTyped, AfterIsTrail DEF History

LEMMA HistoryIsTrailNext ==
  LogTyped' => (\A r \in 0..Len(log) : History(r) = Trail(Rows, NoPositions, 1, r))'
BY HistoryIsTrail, PTL
-----------------------------------------------------------------------------
LEMMA HistoryFacts ==
  ASSUME LogTyped
  PROVE  /\ History(0) = NoPositions
         /\ \A r \in 0..Len(log) : History(r) \in Positions
         /\ \A r \in 1..Len(log) : History(r) = Taken(History(r - 1), r)
         /\ \A k, l \in 0..Len(log) : k <= l => After(History(k), k + 1, l) = History(l)
<1>1. Len(log) \in Nat /\ 1 \in Nat \ {0}
  BY RowsTyped
<1>2. \A r \in 0..Len(log) : History(r) = Trail(Rows, NoPositions, 1, r)
  BY HistoryIsTrail
<1>3. History(0) = NoPositions
  <2>1. Trail(Rows, NoPositions, 1, 1 - 1) = NoPositions
    BY TrailStarts
  <2> QED BY <1>1, <1>2, <2>1
<1>4. ASSUME NEW r \in 0..Len(log) PROVE History(r) \in Positions
  <2>1. r \in 1 - 1 .. Len(log)
    OBVIOUS
  <2>2. Trail(Rows, NoPositions, 1, r) \in Positions
    BY <1>1, <2>1, NoneTyped, RowsTyped, TrailTyped
  <2> QED BY <1>2, <2>2
<1>5. ASSUME NEW r \in 1..Len(log) PROVE History(r) = Taken(History(r - 1), r)
  <2>1. r \in Nat /\ 1 <= r /\ r \in 0..Len(log) /\ r - 1 \in 0..Len(log)
    BY <1>1
  <2>2. Trail(Rows, NoPositions, 1, r) = Rows[r][Trail(Rows, NoPositions, 1, r - 1)]
    BY <1>1, <2>1, TrailGoesOn
  <2>3. Rows[r][History(r - 1)] = Taken(History(r - 1), r)
    BY <1>4, <2>1 DEF Rows
  <2> QED BY <1>2, <2>1, <2>2, <2>3
<1>6. ASSUME NEW k \in 0..Len(log), NEW l \in 0..Len(log), k <= l
      PROVE  After(History(k), k + 1, l) = History(l)
  <2>1. k \in Nat /\ l \in Nat /\ k + 1 \in Nat \ {0} /\ k + 1 - 1 <= l /\ l <= Len(log)
    BY <1>1, <1>6
  <2>2. After(History(k), k + 1, l) = Trail(Rows, History(k), k + 1, l)
    BY <1>4, <2>1, AfterIsTrail
  <2>3. Trail(Rows, Trail(Rows, NoPositions, 1, k), k + 1, l) = Trail(Rows, NoPositions, 1, l)
    BY <1>6, <2>1, TrailIsCut
  <2> QED BY <1>2, <2>2, <2>3
<1> QED BY <1>3, <1>4, <1>5, <1>6

(* Rows that are added, and decisions on later rows, leave history alone.   *)
LEMMA HistoryKept ==
  ASSUME LogTyped, LogTyped', NEW n \in Nat, n <= Len(log), n <= Len(log'),
         \A r \in 1..n : log'[r] = log[r] /\ (r \in decided' <=> r \in decided)
  PROVE  \A r \in 0..n : History(r)' = History(r)
<1> SUFFICES ASSUME NEW r \in 0..n PROVE History(r)' = History(r)
  OBVIOUS
<1>1. Len(log) \in Nat /\ Len(log') \in Nat
  BY RowsTyped DEF LogTyped
<1>2. History(r) = Trail(Rows, NoPositions, 1, r)
  BY <1>1, HistoryIsTrail
<1>3. History(r)' = Trail(Rows', NoPositions, 1, r)
  BY <1>1, HistoryIsTrailNext
<1>4. ASSUME NEW q \in 1..r PROVE Rows[q] = Rows'[q]
  <2>1. q \in 1..n /\ q \in 1..Len(log) /\ q \in 1..Len(log')
    BY <1>1
  <2>2. \A p \in Positions : AdvanceAll(p, q)' = AdvanceAll(p, q)
    BY <2>1 DEF AdvanceAll
  <2>3. \A p \in Positions : Taken(p, q)' = Taken(p, q)
    BY <2>1, <2>2 DEF Taken, SubmitPlan
  <2> QED BY <2>1, <2>3 DEF Rows
<1>5. Trail(Rows, NoPositions, 1, r) = Trail(Rows', NoPositions, 1, r)
  BY <1>4, SameRowsSameTrail
<1> QED BY <1>2, <1>3, <1>5

(* What may become of a position by later rows.                             *)
Later(old, new) ==
  \/ old \in {"none", new}
  \/ old \in InPlay /\ new = "over"
  \/ old = "entering" /\ new \in InPlay
  \/ old = "open" /\ new = "exiting"

LEMMA TakenLater ==
  ASSUME LogTyped, NEW p \in Positions, NEW r \in 1..Len(log), NEW d \in RowId,
         NEW old, Later(old, p[d])
  PROVE  Later(old, Taken(p, r)[d])
<1>1. log[r] \in Kind /\ p[d] \in Stage
  BY DEF LogTyped, Positions
<1>2. AdvanceAll(p, r)[d] = Moved(p[d], log[r])
  BY DEF AdvanceAll
<1>3. Later(old, Moved(p[d], log[r]))
  BY <1>1 DEF Later, Moved, Stage, Kind, InPlay
<1>4. AdvanceAll(p, r) \in Positions
  BY TakenTyped
<1>5. Later(old, SubmitPlan(AdvanceAll(p, r), r)[d])
  BY <1>2, <1>3, <1>4 DEF SubmitPlan, Positions, Later, InPlay
<1> QED BY <1>2, <1>3, <1>5 DEF Taken

LEMMA HistoryGoesOn ==
  ASSUME LogTyped, NEW q \in 0..Len(log), NEW b \in 0..Len(log), q <= b
  PROVE  \A d \in RowId : Later(History(q)[d], History(b)[d])
<1> DEFINE Reached == {n \in Nat : q + n <= Len(log) =>
                         \A d \in RowId : Later(History(q)[d], History(q + n)[d])}
<1>1. 0 \in Reached
  BY DEF Later
<1>2. ASSUME NEW n \in Nat, n \in Reached PROVE n + 1 \in Reached
  <2> SUFFICES ASSUME q + n + 1 <= Len(log), NEW d \in RowId
               PROVE  Later(History(q)[d], History(q + n + 1)[d])
    OBVIOUS
  <2>1. q + n + 1 \in 1..Len(log) /\ q + n \in 0..Len(log) /\ q + n + 1 - 1 = q + n
    BY RowsTyped
  <2>2. History(q + n + 1) = Taken(History(q + n), q + n + 1) /\ History(q + n) \in Positions
    BY <2>1, HistoryFacts
  <2>3. Later(History(q)[d], History(q + n)[d])
    BY <1>2, <2>1
  <2> QED BY <2>1, <2>2, <2>3, TakenLater
<1>3. \A n \in Nat : n \in Reached
  <2> HIDE DEF Reached
  <2> QED BY <1>1, <1>2, SetInduction
<1>4. b - q \in Nat /\ q + (b - q) = b /\ b <= Len(log)
  BY RowsTyped
<1> QED BY <1>3, <1>4
-----------------------------------------------------------------------------
(* PaperReplay.  What the reader of the journal works with.                 *)
PassRecord ==
  [by: {"none", "worker", "barrier"}, at: {"row", "decision", "page", "over"},
   row: Nat, last: Nat, tip: Nat, dirty: SUBSET RowId]

ReaderTyped ==
  /\ log \in Seq(Kind) /\ pass \in PassRecord
  /\ processed \in Nat /\ announced \in 0..Len(log)

(* The worker holds the lock only where it works, and nobody does before    *)
(* the restore has ended.                                                   *)
TasksSound ==
  /\ pass.by = "none" => pass.at = "row"
  /\ pass.by = "worker" => worker = "working"
  /\ phase \in {"down", "restoring"} => pass = NoPass /\ worker = "off" /\ barrier = "idle"

(* The end of the page is behind what was processed and not behind the tip. *)
PageInPass ==
  pass.by # "none" /\ pass.at # "over" => processed <= pass.last /\ pass.last <= pass.tip

(* Without a wake-up pending, the worker's catch-up goes to what was        *)
(* announced, and a worker that waits is there.                             *)
WorkIsKnown ==
  ~wake =>
    /\ pass.by = "worker" => announced <= (IF pass.at = "over" THEN processed ELSE pass.tip)
    /\ worker = "idle" => announced <= processed

ReplayInv == ReaderTyped /\ TasksSound /\ PageInPass /\ WorkIsKnown
-----------------------------------------------------------------------------
(* A page starts behind what was taken and ends at the tip or before it;    *)
(* with nothing to take the catch-up is over.                               *)
LEMMA PageSound ==
  ASSUME NEW by \in {"worker", "barrier"}, NEW from \in Nat, NEW tip \in Nat
  PROVE  /\ Page(by, from, tip) \in PassRecord /\ Page(by, from, tip).by = by
         /\ from < tip => /\ Page(by, from, tip).at = "row" /\ Page(by, from, tip).tip = tip
                          /\ Page(by, from, tip).row = from + 1
                          /\ Page(by, from, tip).dirty = {}
                          /\ from < Page(by, from, tip).last
                          /\ Page(by, from, tip).last <= tip
         /\ ~(from < tip) => Page(by, from, tip).at = "over" /\ Page(by, from, tip).tip = 0
<1> DEFINE last == Min({from + PageSize, tip})
<1>1. PageSize \in Nat \ {0}
  BY ReplayAssumption
<1>2. CASE from < tip
  <2>1. \E x \in {from + PageSize, tip} : \A y \in {from + PageSize, tip} : x =< y
    BY <1>1
  <2>2. last \in {from + PageSize, tip} /\ \A y \in {from + PageSize, tip} : last =< y
    BY <2>1 DEF Min
  <2>3. last \in Nat /\ from < last /\ last <= tip
    BY <1>1, <1>2, <2>2
  <2> HIDE DEF last
  <2>4. Page(by, from, tip) =
          [by |-> by, at |-> "row", row |-> from + 1, last |-> last, tip |-> tip, dirty |-> {}]
    BY <1>2 DEF Page, last
  <2> QED BY <1>2, <2>3, <2>4 DEF PassRecord
<1>3. CASE ~(from < tip)
  BY <1>3 DEF Page, NoPass, PassRecord
<1> QED BY <1>2, <1>3

(* What a catch-up of whoever may have the lock starts with. *)
LEMMA CatchUpSound ==
  ASSUME ReplayInv, NEW by \in {"worker", "barrier"}, CatchUp(by)
  PROVE  /\ pass' \in PassRecord /\ pass'.by = by
         /\ pass'.at # "over" => processed <= pass'.last /\ pass'.last <= pass'.tip
         /\ announced <= (IF pass'.at = "over" THEN processed ELSE pass'.tip)
<1>1. processed \in Nat /\ Len(log) \in Nat /\ announced \in Nat /\ announced <= Len(log)
  BY DEF ReplayInv, ReaderTyped
<1>2. pass' = Page(by, processed, Len(log))
  BY DEF CatchUp
<1>3. pass' \in PassRecord
  BY <1>1, <1>2, PageSound
<1>4. pass'.last \in Nat
  BY <1>3 DEF PassRecord
<1> QED BY <1>1, <1>2, <1>3, <1>4, PageSound

LEMMA ReplayStarts == ReplayInit => ReplayInv
<1> SUFFICES ASSUME ReplayInit PROVE ReplayInv
  OBVIOUS
<1>1. NoPass \in PassRecord
  BY DEF NoPass, PassRecord
<1> QED BY <1>1 DEF ReplayInit, ReplayInv, ReaderTyped, TasksSound, PageInPass, WorkIsKnown, NoPass

(* What the end of the process leaves. *)
LEMMA EndsKeeps ==
  ASSUME ReplayInv, Ends, log' = log
  PROVE  ReplayInv'
<1>1. NoPass \in PassRecord
  BY DEF NoPass, PassRecord
<1> QED BY <1>1 DEF Ends, ReplayInv, ReaderTyped, TasksSound, PageInPass, WorkIsKnown, NoPass

(* Whatever the reader does not take part in. *)
LEMMA Untouched ==
  ASSUME ReplayInv, log' = log, phase' = phase, UNCHANGED <<processed, tasks>>
  PROVE  ReplayInv'
BY DEF ReplayInv, ReaderTyped, TasksSound, PageInPass, WorkIsKnown, tasks

(* A row, or the decision of one, inside a pass. *)
LEMMA InPass ==
  ASSUME ReplayInv, pass.by # "none", pass.at # "over", log' = log, phase' = phase,
         UNCHANGED <<processed, announced, wake, worker, barrier>>,
         pass' \in PassRecord, pass'.by = pass.by, pass'.at # "over",
         pass'.last = pass.last, pass'.tip = pass.tip
  PROVE  ReplayInv'
<1>1. phase \notin {"down", "restoring"}
  BY DEF ReplayInv, TasksSound, NoPass
<1> QED BY <1>1 DEF ReplayInv, ReaderTyped, TasksSound, PageInPass, WorkIsKnown

LEMMA TakeRowTyped ==
  ASSUME ReplayInv, NEW b \in BOOLEAN, TakeRow(b)
  PROVE  /\ pass' \in PassRecord /\ pass'.by = pass.by /\ pass'.at # "over"
         /\ pass'.last = pass.last /\ pass'.tip = pass.tip
<1>1. PICK taken : pass' = [pass EXCEPT !.dirty = @ \cup Changed(broker, taken),
                                       !.row = pass.row + 1,
                                       !.at = IF pass.row = pass.last THEN "page" ELSE "row"]
  BY Zenon DEF TakeRow
<1> DEFINE dirty == pass.dirty \cup Changed(broker, taken)
           at == IF pass.row = pass.last THEN "page" ELSE "row"
<1>2. pass \in PassRecord
  BY DEF ReplayInv, ReaderTyped
<1>3. dirty \in SUBSET RowId /\ at \in {"row", "page"} /\ pass.row + 1 \in Nat
  BY <1>2 DEF Changed, PassRecord
<1>4. pass' = [pass EXCEPT !.dirty = dirty, !.row = pass.row + 1, !.at = at]
  BY <1>1
<1> HIDE DEF dirty, at
<1> QED BY <1>2, <1>3, <1>4 DEF PassRecord

LEMMA FailsKeeps ==
  ASSUME ReplayInv, Fails, log' = log, phase' = phase, pass.by # "none",
         UNCHANGED <<processed, announced, wake>>
  PROVE  ReplayInv'
<1>1. NoPass \in PassRecord
  BY DEF NoPass, PassRecord
<1>2. phase \notin {"down", "restoring"}
  BY DEF ReplayInv, TasksSound, NoPass
<1>3. pass' = NoPass /\ (worker' = "idle" => worker = "idle")
  BY DEF Fails
<1>4. NoPass.by = "none" /\ NoPass.at = "row"
  BY DEF NoPass
<1> QED BY <1>1, <1>2, <1>3, <1>4
        DEF ReplayInv, ReaderTyped, TasksSound, PageInPass, WorkIsKnown
-----------------------------------------------------------------------------
(* The journal grows, the router announces, the restore. *)
LEMMA JournalSteps ==
  ASSUME ReplayInv,
         \/ \E kind \in Kind : Journaled(kind)
         \/ Announce \/ RestoreBegins \/ RestoreEnds
         \/ \E e \in Outcomes : RestorePage(e)
  PROVE  ReplayInv'
<1>1. ASSUME NEW kind \in Kind, Journaled(kind) PROVE ReplayInv'
  <2>1. log' = Append(log, kind) /\ UNCHANGED <<phase, processed, tasks>>
    BY <1>1 DEF Journaled, memoryState
  <2>2. log' \in Seq(Kind) /\ Len(log') = Len(log) + 1 /\ Len(log) \in Nat
    BY <2>1 DEF ReplayInv, ReaderTyped
  <2> QED BY <2>1, <2>2 DEF ReplayInv, ReaderTyped, TasksSound, PageInPass, WorkIsKnown, tasks
<1>2. CASE Announce
  <2>1. /\ announced' \in announced + 1 .. Len(log) /\ wake'
        /\ UNCHANGED <<log, phase, processed, pass, worker, barrier>>
    BY <1>2 DEF Announce, durableState, memoryState
  <2> QED BY <2>1 DEF ReplayInv, ReaderTyped, TasksSound, PageInPass, WorkIsKnown
<1>3. CASE RestoreBegins
  BY <1>3 DEF RestoreBegins, durableState, tasks, ReplayInv, ReaderTyped, TasksSound, PageInPass,
              WorkIsKnown
<1>4. CASE RestoreEnds
  <2>1. /\ phase = "restoring" /\ phase' = "running" /\ worker' = "idle"
        /\ processed' = Len(log) /\ announced' = Len(log) /\ UNCHANGED <<log, pass, wake, barrier>>
    BY <1>4 DEF RestoreEnds, durableState
  <2>2. pass = NoPass /\ Len(log) \in Nat
    BY <2>1 DEF ReplayInv, TasksSound, ReaderTyped
  <2> QED BY <2>1, <2>2
          DEF ReplayInv, ReaderTyped, TasksSound, PageInPass, WorkIsKnown, NoPass
<1>5. ASSUME NEW e \in Outcomes, RestorePage(e) PROVE ReplayInv'
  <2>1. log' = log /\ phase' = phase /\ UNCHANGED <<processed, tasks>>
    BY <1>5 DEF RestorePage
  <2> QED BY <2>1, Untouched
<1> QED BY <1>1, <1>2, <1>3, <1>4, <1>5

(* The rows of a catch-up, their decisions and their pages. *)
LEMMA PassSteps ==
  ASSUME ReplayInv,
         \/ PassRow \/ Decide \/ RowFails
         \/ \E e \in Outcomes : SaveDecision(e) \/ SavePage(e)
  PROVE  ReplayInv'
<1>1. pass \in PassRecord /\ processed \in Nat
  BY DEF ReplayInv, ReaderTyped
<1>2. CASE PassRow
  <2>1. TakeRow(FALSE) /\ pass.by # "none" /\ pass.at # "over"
        /\ UNCHANGED <<log, phase, processed, announced, wake, worker, barrier>>
    BY <1>2 DEF PassRow, durableState
  <2> QED BY <2>1, TakeRowTyped, InPass
<1>3. CASE Decide
  <2>1. /\ pass.by # "none" /\ pass.at # "over" /\ pass' = [pass EXCEPT !.at = "decision"]
        /\ UNCHANGED <<log, phase, processed, announced, wake, worker, barrier>>
    BY <1>3 DEF Decide, durableState
  <2>2. /\ pass' \in PassRecord /\ pass'.by = pass.by /\ pass'.at # "over"
        /\ pass'.last = pass.last /\ pass'.tip = pass.tip
    BY <1>1, <2>1 DEF PassRecord
  <2> QED BY <2>1, <2>2, InPass
<1>4. CASE RowFails
  <2>1. Fails /\ pass.by # "none" /\ UNCHANGED <<log, phase, processed, announced, wake>>
    BY <1>4 DEF RowFails, durableState
  <2> QED BY <2>1, FailsKeeps
<1>5. ASSUME NEW e \in Outcomes, SaveDecision(e) PROVE ReplayInv'
  <2>1. /\ pass.by # "none" /\ pass.at = "decision"
        /\ UNCHANGED <<log, phase, processed, announced, wake>>
    BY <1>5 DEF SaveDecision, ReplayInv, TasksSound
  <2>2. CASE e.returns
    <3>1. TakeRow(TRUE) /\ UNCHANGED <<worker, barrier>>
      BY <1>5, <2>2 DEF SaveDecision
    <3> QED BY <2>1, <3>1, TakeRowTyped, InPass
  <2>3. CASE ~e.returns
    <3>1. Fails
      BY <1>5, <2>3 DEF SaveDecision
    <3> QED BY <2>1, <3>1, FailsKeeps
  <2> QED BY <2>2, <2>3
<1>6. ASSUME NEW e \in Outcomes, SavePage(e) PROVE ReplayInv'
  <2>1. pass.by # "none" /\ pass.at = "page" /\ UNCHANGED <<log, phase, announced, wake>>
    BY <1>6 DEF SavePage, ReplayInv, TasksSound
  <2>2. CASE ~e.returns
    <3>1. Fails /\ processed' = processed
      BY <1>6, <2>2 DEF SavePage
    <3> QED BY <2>1, <3>1, FailsKeeps
  <2>3. CASE e.returns
    <3>1. /\ processed' = pass.last /\ pass' = Page(pass.by, pass.last, pass.tip)
          /\ UNCHANGED <<worker, barrier>>
      BY <1>6, <2>3 DEF SavePage
    <3>2. /\ pass.by \in {"worker", "barrier"} /\ pass.last \in Nat /\ pass.tip \in Nat
          /\ processed <= pass.last /\ pass.last <= pass.tip
      BY <1>1, <2>1 DEF PassRecord, ReplayInv, PageInPass
    <3>3. pass' \in PassRecord /\ pass'.by = pass.by /\ pass'.last \in Nat
      <4>1. pass' \in PassRecord /\ pass'.by = pass.by
        BY <3>1, <3>2, PageSound
      <4> QED BY <4>1 DEF PassRecord
    <3>6. /\ pass'.at # "over" =>
               pass'.tip = pass.tip /\ processed' <= pass'.last /\ pass'.last <= pass'.tip
          /\ pass'.at = "over" => processed' = pass.tip
      <4>1. CASE pass.last < pass.tip
        <5>1. /\ pass'.at = "row" /\ pass'.tip = pass.tip /\ pass.last < pass'.last
              /\ pass'.last <= pass.tip
          BY <3>1, <3>2, <4>1, PageSound
        <5> QED BY <5>1, <3>1, <3>2, <3>3
      <4>2. CASE ~(pass.last < pass.tip)
        <5>1. pass'.at = "over"
          BY <3>1, <3>2, <4>2, PageSound
        <5> QED BY <5>1, <3>1, <3>2, <4>2
      <4> QED BY <4>1, <4>2
    <3>4. phase \notin {"down", "restoring"}
      BY <2>1 DEF ReplayInv, TasksSound, NoPass
    <3>5. announced \in Nat
      BY DEF ReplayInv, ReaderTyped
    <3> QED BY <1>1, <2>1, <3>1, <3>2, <3>3, <3>4, <3>5, <3>6
            DEF ReplayInv, ReaderTyped, TasksSound, PageInPass, WorkIsKnown
  <2> QED BY <2>2, <2>3
<1> QED BY <1>2, <1>3, <1>4, <1>5, <1>6
-----------------------------------------------------------------------------
(* The worker and the barrier.                                              *)
LEMMA TaskSteps ==
  ASSUME ReplayInv,
         \/ WorkerWakes \/ WorkerStarts \/ WorkerEnds
         \/ BarrierCalls \/ BarrierStarts \/ BarrierEnds
  PROVE  ReplayInv'
<1>1. NoPass \in PassRecord
  BY DEF NoPass, PassRecord
<1>2. CASE WorkerWakes
  <2>1. /\ worker = "idle" /\ worker' = "locking"
        /\ UNCHANGED <<log, phase, processed, announced, pass, barrier>>
    BY <1>2 DEF WorkerWakes, durableState, memoryState
  <2> QED BY <2>1 DEF ReplayInv, ReaderTyped, TasksSound, PageInPass, WorkIsKnown
<1>3. CASE WorkerStarts
  <2>1. /\ worker = "locking" /\ pass.by = "none"
        /\ UNCHANGED <<log, phase, processed, announced, wake, barrier>>
    BY <1>3 DEF WorkerStarts, durableState, memoryState
  <2>2. CASE failed
    <3>1. worker' = "done" /\ pass' = pass
      BY <1>3, <2>2 DEF WorkerStarts
    <3> QED BY <2>1, <3>1 DEF ReplayInv, ReaderTyped, TasksSound, PageInPass, WorkIsKnown
  <2>3. CASE ~failed
    <3>1. worker' = "working" /\ CatchUp("worker")
      BY <1>3, <2>3 DEF WorkerStarts
    <3>2. /\ pass' \in PassRecord /\ pass'.by = "worker"
          /\ pass'.at # "over" => processed <= pass'.last /\ pass'.last <= pass'.tip
          /\ announced <= (IF pass'.at = "over" THEN processed ELSE pass'.tip)
      BY <3>1, CatchUpSound
    <3> QED BY <2>1, <3>1, <3>2
            DEF ReplayInv, ReaderTyped, TasksSound, PageInPass, WorkIsKnown
  <2> QED BY <2>2, <2>3
<1>4. CASE WorkerEnds
  <2>1. /\ pass.by = "worker" /\ pass.at = "over" /\ pass' = NoPass
        /\ worker' \in {"done", "idle"}
        /\ UNCHANGED <<log, phase, processed, announced, wake, barrier>>
    BY <1>4 DEF WorkerEnds, durableState, memoryState
  <2>2. phase \notin {"down", "restoring"}
    BY <2>1 DEF ReplayInv, TasksSound, NoPass
  <2> QED BY <1>1, <2>1, <2>2
          DEF ReplayInv, ReaderTyped, TasksSound, PageInPass, WorkIsKnown, NoPass
<1>5. CASE BarrierCalls
  <2>1. /\ phase \in {"running", "stopping"}
        /\ UNCHANGED <<log, phase, processed, announced, wake, pass, worker>>
    BY <1>5 DEF BarrierCalls, durableState, memoryState
  <2> QED BY <2>1 DEF ReplayInv, ReaderTyped, TasksSound, PageInPass, WorkIsKnown
<1>6. CASE BarrierStarts
  <2>1. /\ barrier = "locking" /\ CatchUp("barrier")
        /\ UNCHANGED <<log, phase, processed, announced, wake, worker>>
    BY <1>6 DEF BarrierStarts, durableState, memoryState
  <2>2. /\ pass' \in PassRecord /\ pass'.by = "barrier"
        /\ pass'.at # "over" => processed <= pass'.last /\ pass'.last <= pass'.tip
    BY <2>1, CatchUpSound
  <2> QED BY <2>1, <2>2 DEF ReplayInv, ReaderTyped, TasksSound, PageInPass, WorkIsKnown
<1>7. CASE BarrierEnds
  <2>1. log' = log /\ pass.by = "barrier"
    BY <1>7 DEF BarrierEnds, durableState
  <2>2. CASE phase = "final"
    <3>1. Ends
      BY <1>7, <2>2 DEF BarrierEnds
    <3> QED BY <2>1, <3>1, EndsKeeps
  <2>3. CASE phase # "final"
    <3>1. pass' = NoPass /\ UNCHANGED <<phase, processed, announced, wake, worker>>
      BY <1>7, <2>3 DEF BarrierEnds, memoryState
    <3>2. phase \notin {"down", "restoring"}
      BY <2>1 DEF ReplayInv, TasksSound, NoPass
    <3> QED BY <1>1, <2>1, <3>1, <3>2
            DEF ReplayInv, ReaderTyped, TasksSound, PageInPass, WorkIsKnown, NoPass
  <2> QED BY <2>2, <2>3
<1> QED BY <1>2, <1>3, <1>4, <1>5, <1>6, <1>7

(* The shutdown, and the end of the process anywhere. *)
LEMMA ShutdownSteps ==
  ASSUME ReplayInv,
         \/ ShutdownBegins \/ RunnerEnds \/ (\E c \in BOOLEAN : RunnerCancelled(c))
         \/ Drained \/ ProcessDies
  PROVE  ReplayInv'
<1>1. NoPass \in PassRecord
  BY DEF NoPass, PassRecord
<1>2. CASE ShutdownBegins
  <2>1. /\ phase' = "stopping" /\ log' = log /\ UNCHANGED <<processed, tasks>>
    BY <1>2 DEF ShutdownBegins, durableState, memoryState
  <2> QED BY <2>1 DEF ReplayInv, ReaderTyped, TasksSound, PageInPass, WorkIsKnown, tasks
<1>3. CASE RunnerEnds
  <2>1. /\ phase' = "draining" /\ wake' = TRUE
        /\ UNCHANGED <<log, processed, announced, pass, worker, barrier>>
    BY <1>3 DEF RunnerEnds, StopRequested, durableState, memoryState
  <2> QED BY <2>1 DEF ReplayInv, ReaderTyped, TasksSound, PageInPass, WorkIsKnown
<1>4. ASSUME NEW c \in BOOLEAN, RunnerCancelled(c) PROVE ReplayInv'
  <2>1. /\ phase' = "draining" /\ wake' = TRUE /\ (pass' = NoPass \/ pass' = pass)
        /\ UNCHANGED <<log, processed, announced, worker>>
    BY <1>4 DEF RunnerCancelled, StopRequested, memoryState
  <2>2. NoPass.by = "none" /\ NoPass.at = "row"
    BY DEF NoPass
  <2> QED BY <1>1, <2>1, <2>2 DEF ReplayInv, ReaderTyped, TasksSound, PageInPass, WorkIsKnown
<1>5. CASE Drained
  <2>1. log' = log
    BY <1>5 DEF Drained, durableState
  <2>2. CASE failed
    <3>1. Ends
      BY <1>5, <2>2 DEF Drained
    <3> QED BY <2>1, <3>1, EndsKeeps
  <2>3. CASE ~failed
    <3>1. phase' = "final" /\ UNCHANGED <<processed, announced, pass, wake, worker>>
      BY <1>5, <2>3 DEF Drained, memoryState
    <3> QED BY <2>1, <3>1 DEF ReplayInv, ReaderTyped, TasksSound, PageInPass, WorkIsKnown
  <2> QED BY <2>2, <2>3
<1>6. CASE ProcessDies
  BY <1>6, EndsKeeps DEF ProcessDies, durableState
<1> QED BY <1>2, <1>3, <1>4, <1>5, <1>6
-----------------------------------------------------------------------------
LEMMA ReplayStays ==
  ASSUME ReplayInv, [ReplayNext]_replay
  PROVE  ReplayInv'
<1>1. CASE UNCHANGED replay
  BY <1>1, Untouched DEF replay, durableState, memoryState, tasks
<1> QED BY <1>1, JournalSteps, PassSteps, TaskSteps, ShutdownSteps DEF ReplayNext

(* NoRowIsMissed: the event loop may interleave publish, _run_worker and    *)
(* flush in any way, for any journal and any size of a page: a worker that  *)
(* waits without a wake-up pending has processed all it was told of.        *)
THEOREM NobodySleepsOnWork == ReplaySpec => []NoRowIsMissed
<1>1. ReplayInv /\ [ReplayNext]_replay => ReplayInv'
  BY ReplayStays
<1>2. ReplayInv => NoRowIsMissed
  BY DEF ReplayInv, WorkIsKnown, NoRowIsMissed
<1> QED BY ReplayStarts, <1>1, <1>2, PTL DEF ReplaySpec
-----------------------------------------------------------------------------
(* The phases in which rows are taken.                                      *)
Up == {"running", "stopping", "draining", "final"}

(* What is durable is what the rows up to the checkpoint make of nothing.   *)
DurableIsHistory ==
  /\ LogTyped /\ decided \subseteq 1..Len(log)
  /\ savedRow \in 0..Len(log) /\ saved = History(savedRow)

(* The broker is a few rows further, the engine perhaps more, and no row    *)
(* it has not seen has a decision.                                          *)
MemoryIsHistory ==
  phase # "down" =>
    /\ booked \in savedRow..Len(log) /\ known \in booked..Len(log)
    /\ broker = History(booked) /\ decided \subseteq 1..known

RestoreSound ==
  phase = "restoring" => known = Len(log) /\ (~failed => booked = savedRow)

(* A catch-up began at the checkpoint; what differs from the saved          *)
(* positions is on its list of what to write.                               *)
PassIsFresh ==
  pass.by # "none" =>
    /\ pass.tip <= Len(log)
    /\ pass.at # "over" =>
         /\ savedRow = processed
         /\ \A d \in RowId : d \notin pass.dirty => broker[d] = saved[d]
         /\ pass.at = "page" => booked = pass.last /\ known = booked
         /\ pass.at # "page" =>
              /\ pass.row = booked + 1 /\ pass.row <= pass.last
              /\ known = IF pass.at = "row" THEN booked ELSE pass.row

(* Protection was shown the positions as they were behind an earlier row.   *)
ShownIsPast ==
  \E q \in 0..Len(log) : shown = History(q) /\ (phase \in Up => q <= booked)

HistorySound ==
  /\ DurableIsHistory /\ MemoryIsHistory /\ RestoreSound /\ PassIsFresh /\ ShownIsPast
  /\ phase \in {"down", "restoring"} \cup Up
  /\ phase \in Up => processed \in 0..savedRow

HistoryInv == overtaken \/ HistorySound
-----------------------------------------------------------------------------
(* With PTL, a fact about every state is one about the next state.          *)
LEMMA HistoryStep ==
  LogTyped => \A r \in 1..Len(log) : History(r) = Taken(History(r - 1), r)
BY HistoryFacts

LEMMA HistoryStepNext ==
  LogTyped' => (\A r \in 1..Len(log) : History(r) = Taken(History(r - 1), r))'
BY HistoryStep, PTL

LEMMA HistorySame ==
  ASSUME LogTyped, UNCHANGED <<log, decided>>
  PROVE  LogTyped' /\ \A r \in 0..Len(log) : History(r)' = History(r)
<1>1. LogTyped' /\ Len(log) \in Nat
  BY RowsTyped DEF LogTyped
<1> QED BY <1>1, HistoryKept

LEMMA HistoryStarts == ReplayInit => HistoryInv
<1> SUFFICES ASSUME ReplayInit PROVE HistorySound
  BY DEF HistoryInv
<1>1. LogTyped /\ Len(log) = 0
  BY ReplayAssumption DEF ReplayInit, LogTyped
<1>2. History(0) = NoPositions
  BY <1>1, HistoryFacts
<1> QED BY <1>1, <1>2
        DEF ReplayInit, HistorySound, DurableIsHistory, MemoryIsHistory, RestoreSound,
            PassIsFresh, ShownIsPast, NoPass, Up

(* Steps that move neither rows nor positions.                              *)
LEMMA Quiet ==
  ASSUME HistorySound, UNCHANGED <<durableState, memoryState, shown>>,
         phase' \in {"down", "restoring"} \cup Up,
         phase' \in Up => phase \in Up, phase' # "down" => phase # "down",
         phase' = "restoring" => phase = "restoring" /\ failed' = failed,
         PassIsFresh'
  PROVE  HistorySound'
<1>1. LogTyped' /\ \A r \in 0..Len(log) : History(r)' = History(r)
  BY HistorySame DEF HistorySound, DurableIsHistory, durableState
<1>2. DurableIsHistory' /\ MemoryIsHistory' /\ RestoreSound'
  BY <1>1 DEF HistorySound, DurableIsHistory, MemoryIsHistory, RestoreSound, durableState,
              memoryState, Up
<1>3. ShownIsPast'
  BY <1>1 DEF HistorySound, ShownIsPast, durableState, memoryState
<1> QED BY <1>2, <1>3 DEF HistorySound, durableState, memoryState

LEMMA SamePass ==
  ASSUME HistorySound, UNCHANGED <<durableState, memoryState>>, pass' = pass \/ pass'.by = "none"
  PROVE  PassIsFresh'
BY DEF HistorySound, PassIsFresh, durableState, memoryState

LEMMA NoPassIsFresh ==
  ASSUME pass' = NoPass
  PROVE  PassIsFresh'
BY DEF PassIsFresh, NoPass

LEMMA EndIsHistory ==
  ASSUME HistorySound, Ends, UNCHANGED <<durableState, shown>>
  PROVE  HistorySound'
<1>1. LogTyped' /\ \A r \in 0..Len(log) : History(r)' = History(r)
  BY HistorySame DEF HistorySound, DurableIsHistory, durableState
<1>2. phase' = "down" /\ pass' = NoPass
  BY DEF Ends
<1>3. DurableIsHistory' /\ MemoryIsHistory' /\ RestoreSound' /\ PassIsFresh'
  BY <1>1, <1>2, NoPassIsFresh
     DEF HistorySound, DurableIsHistory, MemoryIsHistory, RestoreSound, durableState
<1>4. ShownIsPast'
  BY <1>1, <1>2 DEF HistorySound, ShownIsPast, durableState, Up
<1> QED BY <1>2, <1>3, <1>4 DEF HistorySound, Up
-----------------------------------------------------------------------------
(* The journal and the restore.                                             *)
LEMMA JournaledIsHistory ==
  ASSUME HistorySound, ReplayInv, NEW kind \in Kind, Journaled(kind)
  PROVE  HistorySound'
<1>1. /\ phase \in {"running", "stopping", "draining"} /\ Len(log) < MaxLog
      /\ log' = Append(log, kind)
      /\ UNCHANGED <<decided, saved, savedRow, phase, failed, memoryState, tasks, shown>>
  BY DEF Journaled, Producing
<1>2. log \in Seq(Kind) /\ Len(log) \in Nat /\ MaxLog \in Nat /\ decided \subseteq 1..Len(log)
  BY ReplayAssumption, RowsTyped DEF HistorySound, DurableIsHistory, LogTyped
<1>3. /\ LogTyped' /\ Len(log') = Len(log) + 1
      /\ \A r \in 1..Len(log) : log'[r] = log[r]
  BY <1>1, <1>2 DEF LogTyped
<1>4. \A r \in 0..Len(log) : History(r)' = History(r)
  BY <1>1, <1>2, <1>3, HistoryKept DEF HistorySound, DurableIsHistory
<1>5. DurableIsHistory' /\ MemoryIsHistory'
  BY <1>1, <1>2, <1>3, <1>4
     DEF HistorySound, DurableIsHistory, MemoryIsHistory, memoryState
<1>6. PassIsFresh' /\ RestoreSound'
  <2>1. ASSUME pass.by # "none" PROVE pass.tip <= Len(log')
    <3>1. pass.tip <= Len(log) /\ pass.tip \in Nat
      BY <2>1 DEF HistorySound, PassIsFresh, ReplayInv, ReaderTyped, PassRecord
    <3> QED BY <1>2, <1>3, <3>1
  <2> QED BY <1>1, <2>1 DEF HistorySound, PassIsFresh, RestoreSound, tasks, memoryState
<1>7. ShownIsPast'
  BY <1>1, <1>2, <1>3, <1>4 DEF HistorySound, ShownIsPast, memoryState
<1> QED BY <1>1, <1>5, <1>6, <1>7 DEF HistorySound, memoryState

LEMMA RestoreBeginsAtHistory ==
  ASSUME HistorySound, ReplayInv, RestoreBegins
  PROVE  HistorySound'
<1>1. /\ phase = "down" /\ phase' = "restoring"
      /\ broker' = saved /\ booked' = savedRow /\ known' = Len(log)
      /\ UNCHANGED <<log, decided, saved, savedRow, failed, processed, pass, shown>>
  BY DEF RestoreBegins, durableState, tasks
<1>2. LogTyped' /\ (\A r \in 0..Len(log) : History(r)' = History(r)) /\ Len(log) \in Nat
  BY <1>1, HistorySame, RowsTyped DEF HistorySound, DurableIsHistory
<1>3. pass = NoPass
  BY <1>1 DEF ReplayInv, TasksSound
<1>4. DurableIsHistory' /\ MemoryIsHistory' /\ RestoreSound' /\ PassIsFresh'
  BY <1>1, <1>2, <1>3, NoPassIsFresh
     DEF HistorySound, DurableIsHistory, MemoryIsHistory, RestoreSound
<1>5. ShownIsPast'
  BY <1>1, <1>2 DEF HistorySound, ShownIsPast, Up
<1> QED BY <1>1, <1>4, <1>5 DEF HistorySound, Up

LEMMA RestorePageIsHistory ==
  ASSUME HistorySound, ReplayInv, NEW e \in Outcomes, RestorePage(e)
  PROVE  HistorySound'
<1> DEFINE last == Min({booked + PageSize, Len(log)})
<1>1. /\ phase = "restoring" /\ ~failed /\ booked < Len(log)
      /\ broker' = After(broker, booked + 1, last) /\ booked' = last
      /\ IF e.commits
         THEN saved' = Merged(broker', Changed(broker, broker')) /\ savedRow' = last
         ELSE UNCHANGED <<saved, savedRow>>
      /\ failed' = ~e.returns
      /\ UNCHANGED <<log, decided, phase, known, processed, pass, shown>>
  BY DEF RestorePage, tasks
<1>2. /\ LogTyped' /\ (\A r \in 0..Len(log) : History(r)' = History(r)) /\ Len(log) \in Nat
      /\ LogTyped
  BY <1>1, HistorySame, RowsTyped DEF HistorySound, DurableIsHistory
<1>3. booked \in 0..Len(log) /\ booked = savedRow /\ broker = History(booked) /\ saved = broker
  BY <1>1, <1>2 DEF HistorySound, DurableIsHistory, MemoryIsHistory, RestoreSound
<1>4. last \in booked..Len(log)
  <2>1. PageSize \in Nat \ {0}
    BY ReplayAssumption
  <2>2. \E x \in {booked + PageSize, Len(log)} : \A y \in {booked + PageSize, Len(log)} : x =< y
    BY <1>2, <1>3, <2>1
  <2>3. last \in {booked + PageSize, Len(log)} /\ \A y \in {booked + PageSize, Len(log)} : last =< y
    BY <2>2 DEF Min
  <2> QED BY <1>1, <1>2, <1>3, <2>1, <2>3
<1> HIDE DEF last
<1>5. broker' = History(last) /\ last \in 0..Len(log)
  BY <1>1, <1>2, <1>3, <1>4, HistoryFacts
<1>6. History(last) \in Positions /\ History(booked) \in Positions
  BY <1>2, <1>3, <1>5, HistoryFacts
<1>7. e.commits => saved' = History(last)
  <2>1. broker \in Positions /\ broker' \in Positions
    BY <1>3, <1>5, <1>6
  <2>2. Merged(broker', Changed(broker, broker')) = broker'
    BY <1>3, <2>1 DEF Merged, Changed, Positions
  <2> QED BY <1>1, <1>5, <2>2
<1>8. e.returns => e.commits
  BY DEF Outcomes
<1>9. pass = NoPass
  BY <1>1 DEF ReplayInv, TasksSound
<1>10. DurableIsHistory' /\ MemoryIsHistory' /\ RestoreSound' /\ PassIsFresh'
  <2>1. DurableIsHistory'
    BY <1>1, <1>2, <1>5, <1>7 DEF HistorySound, DurableIsHistory
  <2>2. MemoryIsHistory'
    BY <1>1, <1>2, <1>3, <1>4, <1>5
       DEF HistorySound, DurableIsHistory, MemoryIsHistory, RestoreSound
  <2>3. RestoreSound'
    BY <1>1, <1>8 DEF HistorySound, RestoreSound
  <2> QED BY <1>1, <1>9, <2>1, <2>2, <2>3, NoPassIsFresh
<1>11. ShownIsPast'
  BY <1>1, <1>2 DEF HistorySound, ShownIsPast, Up
<1> QED BY <1>1, <1>10, <1>11 DEF HistorySound, Up

LEMMA RestoreEndsAtHistory ==
  ASSUME HistorySound, RestoreEnds
  PROVE  HistorySound'
<1>1. /\ phase = "restoring" /\ ~failed /\ booked = Len(log) /\ phase' = "running"
      /\ processed' = Len(log)
      /\ UNCHANGED <<log, decided, saved, savedRow, failed, broker, known, booked, pass, shown>>
  BY DEF RestoreEnds, durableState
<1>2. /\ LogTyped' /\ (\A r \in 0..Len(log) : History(r)' = History(r)) /\ Len(log) \in Nat
  BY <1>1, HistorySame, RowsTyped DEF HistorySound, DurableIsHistory
<1>3. DurableIsHistory' /\ MemoryIsHistory' /\ RestoreSound'
  BY <1>1, <1>2 DEF HistorySound, DurableIsHistory, MemoryIsHistory, RestoreSound
<1>4. savedRow = Len(log)
  BY <1>1 DEF HistorySound, RestoreSound
<1>5. PassIsFresh'
  BY <1>1, <1>2, <1>4 DEF HistorySound, PassIsFresh
<1>6. ShownIsPast'
  BY <1>1, <1>2 DEF HistorySound, ShownIsPast
<1> QED BY <1>1, <1>2, <1>3, <1>4, <1>5, <1>6 DEF HistorySound, Up
-----------------------------------------------------------------------------
(* A catch-up of rows.  What is known of the row it is at.                  *)
LEMMA RowInPass ==
  ASSUME HistorySound, ReplayInv, pass.by # "none"
  PROVE  /\ phase \in Up /\ LogTyped /\ Len(log) \in Nat
         /\ booked \in savedRow..Len(log) /\ known \in booked..Len(log) /\ savedRow \in Nat
         /\ processed \in 0..savedRow
         /\ pass.at \in {"row", "decision"} =>
              /\ pass.row = booked + 1 /\ pass.row \in 1..Len(log)
              /\ pass.row <= pass.last /\ pass.last \in Nat
              /\ known = IF pass.at = "row" THEN booked ELSE pass.row
<1>1. phase \in Up
  BY DEF HistorySound, ReplayInv, TasksSound, NoPass
<1>2. LogTyped /\ Len(log) \in Nat
  BY RowsTyped DEF HistorySound, DurableIsHistory
<1>3. /\ booked \in savedRow..Len(log) /\ known \in booked..Len(log) /\ savedRow \in Nat
      /\ processed \in 0..savedRow
  BY <1>1, <1>2 DEF HistorySound, MemoryIsHistory, DurableIsHistory, Up
<1>4. ASSUME pass.at \in {"row", "decision"}
      PROVE  /\ pass.row = booked + 1 /\ pass.row \in 1..Len(log)
             /\ pass.row <= pass.last /\ pass.last \in Nat
             /\ known = IF pass.at = "row" THEN booked ELSE pass.row
  <2>1. pass.last \in Nat /\ pass.tip \in Nat /\ pass.last <= pass.tip
    BY <1>4 DEF ReplayInv, ReaderTyped, PassRecord, PageInPass
  <2>2. pass.tip <= Len(log) /\ pass.row = booked + 1 /\ pass.row <= pass.last
        /\ known = IF pass.at = "row" THEN booked ELSE pass.row
    BY <1>4 DEF HistorySound, PassIsFresh
  <2> QED BY <1>2, <1>3, <2>1, <2>2
<1> QED BY <1>1, <1>2, <1>3, <1>4

(* A catch-up that finds the engine where it was left begins at the         *)
(* checkpoint.                                                              *)
LEMMA PageIsFresh ==
  ASSUME HistorySound, NEW by \in {"worker", "barrier"}, NEW from \in Nat, NEW tip \in Nat,
         tip <= Len(log), pass' = Page(by, from, tip), log' = log,
         processed' = from, savedRow' = from, booked' = from, known' = from, broker' = saved'
  PROVE  PassIsFresh'
<1>1. Len(log) \in Nat
  BY RowsTyped DEF HistorySound, DurableIsHistory
<1>2. CASE from < tip
  <2>1. /\ pass'.at = "row" /\ pass'.tip = tip /\ pass'.row = from + 1 /\ pass'.dirty = {}
        /\ from < pass'.last /\ pass' \in PassRecord
    BY <1>2, PageSound
  <2>2. pass'.last \in Nat
    BY <2>1 DEF PassRecord
  <2>3. from + 1 <= pass'.last
    BY <2>1, <2>2
  <2> QED BY <2>1, <2>3 DEF PassIsFresh
<1>3. CASE ~(from < tip)
  <2>1. pass'.at = "over" /\ pass'.tip = 0
    BY <1>3, PageSound
  <2> QED BY <1>1, <2>1 DEF PassIsFresh
<1> QED BY <1>2, <1>3

LEMMA CatchUpIsFresh ==
  ASSUME HistorySound, ReplayInv, NEW by \in {"worker", "barrier"}, CatchUp(by), ~overtaken',
         phase \in Up, UNCHANGED <<durableState, phase, failed, memoryState, shown>>
  PROVE  HistorySound'
<1>1. pass' = Page(by, processed, Len(log)) /\ ~(known > processed)
  BY DEF CatchUp
<1>2. LogTyped /\ Len(log) \in Nat /\ log' = log
  BY RowsTyped DEF HistorySound, DurableIsHistory, durableState
<1>3. processed \in 0..savedRow /\ booked \in savedRow..Len(log) /\ known \in booked..Len(log)
      /\ savedRow \in Nat
  BY <1>2 DEF HistorySound, MemoryIsHistory, DurableIsHistory, Up
<1>4. savedRow = processed /\ booked = processed /\ known = processed /\ processed \in Nat
  BY <1>1, <1>2, <1>3
<1>5. broker = saved
  BY <1>4 DEF HistorySound, MemoryIsHistory, DurableIsHistory, Up
<1>6. PassIsFresh'
  BY <1>1, <1>2, <1>4, <1>5, PageIsFresh DEF durableState, memoryState
<1> QED BY <1>6, Quiet DEF Up

(* Inside a pass, a step that leaves the rows and positions where they are  *)
(* and lets the engine know one more row.                                   *)
LEMMA KnownGrows ==
  ASSUME HistorySound, phase \in Up, known' \in known..Len(log), PassIsFresh',
         UNCHANGED <<durableState, broker, booked, processed, phase, shown>>
  PROVE  HistorySound'
<1>1. /\ LogTyped' /\ (\A r \in 0..Len(log) : History(r)' = History(r)) /\ Len(log) \in Nat
      /\ log' = log
  BY HistorySame, RowsTyped DEF HistorySound, DurableIsHistory, durableState
<1>2. DurableIsHistory' /\ RestoreSound'
  BY <1>1 DEF HistorySound, DurableIsHistory, RestoreSound, durableState, Up
<1>3. MemoryIsHistory'
  <2>1. /\ booked \in savedRow..Len(log) /\ known \in booked..Len(log)
        /\ broker = History(booked) /\ decided \subseteq 1..known /\ savedRow \in 0..Len(log)
    BY DEF HistorySound, MemoryIsHistory, DurableIsHistory, Up
  <2>2. known' \in booked..Len(log) /\ 1..known \subseteq 1..known' /\ booked \in 0..Len(log)
    BY <1>1, <2>1
  <2> QED BY <1>1, <2>1, <2>2 DEF MemoryIsHistory, durableState
<1>4. ShownIsPast'
  BY <1>1 DEF HistorySound, ShownIsPast, durableState
<1> QED BY <1>2, <1>3, <1>4 DEF HistorySound, durableState

LEMMA DecideIsHistory ==
  ASSUME HistorySound, ReplayInv, Decide
  PROVE  HistorySound'
<1>1. /\ pass.by # "none" /\ pass.at = "row" /\ known' = pass.row
      /\ pass' = [pass EXCEPT !.at = "decision"] /\ pass \in PassRecord
      /\ UNCHANGED <<log, decided, saved, savedRow, phase, broker, booked, processed, shown>>
  BY DEF Decide, durableState, ReplayInv, ReaderTyped
<1>2. /\ phase \in Up /\ Len(log) \in Nat /\ savedRow \in Nat /\ booked \in savedRow..Len(log)
      /\ pass.row = booked + 1 /\ pass.row \in 1..Len(log) /\ pass.row <= pass.last
      /\ known = booked
  BY <1>1, RowInPass
<1>3. known' \in known..Len(log)
  BY <1>1, <1>2
<1>4. /\ pass'.at = "decision" /\ pass'.by = pass.by /\ pass'.row = pass.row
      /\ pass'.last = pass.last /\ pass'.tip = pass.tip /\ pass'.dirty = pass.dirty
  BY <1>1 DEF PassRecord
<1>5. PassIsFresh'
  BY <1>1, <1>2, <1>4 DEF HistorySound, PassIsFresh
<1> QED BY <1>1, <1>2, <1>3, <1>5, KnownGrows DEF durableState

LEMMA RowFailsInHistory ==
  ASSUME HistorySound, ReplayInv, RowFails
  PROVE  HistorySound'
<1>1. /\ pass.by # "none" /\ pass.at = "row" /\ known' \in {known, Max({known, pass.row})}
      /\ pass' = NoPass
      /\ UNCHANGED <<log, decided, saved, savedRow, phase, broker, booked, processed, shown>>
  BY DEF RowFails, Fails, durableState
<1>2. /\ phase \in Up /\ Len(log) \in Nat /\ savedRow \in Nat /\ booked \in savedRow..Len(log)
      /\ pass.row = booked + 1 /\ pass.row \in 1..Len(log) /\ known = booked
  BY <1>1, RowInPass
<1>3. Max({known, pass.row}) = pass.row
  <2>1. \E x \in {known, pass.row} : \A y \in {known, pass.row} : x >= y
    BY <1>2
  <2>2. Max({known, pass.row}) \in {known, pass.row}
        /\ \A y \in {known, pass.row} : Max({known, pass.row}) >= y
    BY <2>1 DEF Max
  <2> QED BY <1>2, <2>2
<1>4. known' \in known..Len(log)
  BY <1>1, <1>2, <1>3
<1> QED BY <1>1, <1>2, <1>4, NoPassIsFresh, KnownGrows DEF durableState
-----------------------------------------------------------------------------
(* A row that is taken, with a decision or none, makes of the broker's      *)
(* positions what history makes of them.                                    *)
LEMMA TakenIsHistory ==
  ASSUME HistorySound, ReplayInv, NEW b \in BOOLEAN, TakeRow(b), pass.by # "none",
         pass.at = IF b THEN "decision" ELSE "row",
         decided' = IF b THEN decided \cup {pass.row} ELSE decided,
         known' = pass.row, UNCHANGED <<log, saved, savedRow, phase, processed>>
  PROVE  HistorySound'
<1> PICK r : r = pass.row
  OBVIOUS
<1>1. /\ phase \in Up /\ LogTyped /\ Len(log) \in Nat /\ savedRow \in Nat
      /\ booked \in savedRow..Len(log) /\ r = booked + 1 /\ r \in 1..Len(log)
      /\ r <= pass.last /\ pass.last \in Nat
      /\ known = IF pass.at = "row" THEN booked ELSE r
  BY RowInPass
<1>2. pass \in PassRecord
  BY DEF ReplayInv, ReaderTyped
<1>3. broker = History(booked) /\ decided \subseteq 1..known
  BY <1>1 DEF HistorySound, MemoryIsHistory, Up
<1>4. decided \subseteq 1..r /\ (b \/ r \notin decided)
  BY <1>1, <1>3
<1>5. LogTyped'
  BY <1>1 DEF LogTyped
<1>6. \A q \in 0..booked : History(q)' = History(q)
  <2>1. \A q \in 1..booked : log'[q] = log[q] /\ (q \in decided' <=> q \in decided)
    BY <1>1
  <2> QED BY <1>1, <1>5, <2>1, HistoryKept
<1> DEFINE taken == IF b THEN SubmitPlan(AdvanceAll(broker, r), r) ELSE AdvanceAll(broker, r)
           dirty == pass.dirty \cup Changed(broker, taken)
           at == IF r = pass.last THEN "page" ELSE "row"
<1>7. /\ broker' = taken /\ booked' = r
      /\ shown' = IF taken # broker THEN taken ELSE shown
      /\ pass' = [pass EXCEPT !.dirty = dirty, !.row = r + 1, !.at = at]
  <2>1. r > booked
    BY <1>1
  <2>2. Max({booked, r}) = r
    <3>1. \E x \in {booked, r} : \A y \in {booked, r} : x >= y
      BY <1>1
    <3>2. Max({booked, r}) \in {booked, r} /\ \A y \in {booked, r} : Max({booked, r}) >= y
      BY <3>1 DEF Max
    <3> QED BY <1>1, <3>2
  <2> QED BY <2>1, <2>2 DEF TakeRow
<1>8. taken = History(r)'
  <2>1. History(r)' = (Taken(History(r - 1), r))'
    BY <1>1, <1>5, HistoryStepNext
  <2>2. History(r - 1)' = broker
    BY <1>1, <1>3, <1>6
  <2>3. AdvanceAll(History(r - 1), r)' = AdvanceAll(broker, r)
    BY <2>2 DEF AdvanceAll
  <2>4. SubmitPlan(AdvanceAll(History(r - 1), r), r)' = SubmitPlan(AdvanceAll(broker, r), r)
    BY <2>3 DEF SubmitPlan
  <2>5. r \in decided' <=> b
    BY <1>4
  <2> HIDE DEF dirty, at
  <2> QED BY <2>1, <2>3, <2>4, <2>5 DEF Taken
<1> HIDE DEF taken, at
<1>9. /\ pass'.dirty = dirty /\ pass'.row = r + 1 /\ pass'.at = at /\ pass'.by = pass.by
      /\ pass'.last = pass.last /\ pass'.tip = pass.tip
  BY <1>2, <1>7 DEF PassRecord
<1>10. DurableIsHistory'
  <2>1. decided' \subseteq 1..Len(log)
    BY <1>1, <1>4
  <2>2. saved = History(savedRow) /\ savedRow \in 0..booked
    BY <1>1 DEF HistorySound, DurableIsHistory
  <2> QED BY <1>1, <1>5, <1>6, <2>1, <2>2 DEF DurableIsHistory
<1>11. MemoryIsHistory'
  <2>1. decided' \subseteq 1..r
    BY <1>1, <1>4
  <2> QED BY <1>1, <1>7, <1>8, <2>1 DEF MemoryIsHistory
<1>12. PassIsFresh'
  <2>1. /\ pass.tip <= Len(log) /\ savedRow = processed
        /\ \A d \in RowId : d \notin pass.dirty => broker[d] = saved[d]
    BY DEF HistorySound, PassIsFresh
  <2>2. \A d \in RowId : d \notin dirty => broker'[d] = saved[d]
    BY <1>7, <2>1 DEF Changed
  <2>3. at = "page" => r = pass.last
    BY DEF at
  <2>4. at # "page" => at = "row" /\ r + 1 <= pass.last
    BY <1>1 DEF at
  <2> QED BY <1>7, <1>9, <2>1, <2>2, <2>3, <2>4 DEF PassIsFresh
<1>13. ShownIsPast'
  <2>1. CASE taken # broker
    BY <1>1, <1>7, <1>8, <2>1 DEF ShownIsPast
  <2>2. CASE taken = broker
    <3>1. PICK q \in 0..Len(log) : shown = History(q) /\ q <= booked
      BY <1>1 DEF HistorySound, ShownIsPast
    <3>2. q \in 0..booked /\ q <= r /\ shown' = shown
      BY <1>1, <1>7, <2>2, <3>1
    <3>3. shown' = History(q)'
      BY <1>6, <3>1, <3>2
    <3> QED BY <1>7, <3>2, <3>3 DEF ShownIsPast
  <2> QED BY <2>1, <2>2
<1>14. processed' \in 0..savedRow' /\ RestoreSound' /\ phase' \in Up
  BY <1>1 DEF HistorySound, RestoreSound, Up
<1> QED BY <1>10, <1>11, <1>12, <1>13, <1>14 DEF HistorySound

LEMMA PassRowIsHistory ==
  ASSUME HistorySound, ReplayInv, PassRow
  PROVE  HistorySound'
<1>1. /\ pass.by # "none" /\ pass.at = "row" /\ TakeRow(FALSE) /\ known' = Max({known, pass.row})
      /\ UNCHANGED <<log, decided, saved, savedRow, phase, processed>>
  BY DEF PassRow, durableState
<1>2. /\ booked \in savedRow..Len(log) /\ Len(log) \in Nat /\ savedRow \in Nat
      /\ pass.row = booked + 1 /\ known = booked
  BY <1>1, RowInPass
<1>3. Max({known, pass.row}) = pass.row
  <2>1. \E x \in {known, pass.row} : \A y \in {known, pass.row} : x >= y
    BY <1>2
  <2>2. Max({known, pass.row}) \in {known, pass.row}
        /\ \A y \in {known, pass.row} : Max({known, pass.row}) >= y
    BY <2>1 DEF Max
  <2> QED BY <1>2, <2>2
<1>4. decided' = IF FALSE THEN decided \cup {pass.row} ELSE decided
  BY <1>1
<1>5. pass.at = IF FALSE THEN "decision" ELSE "row"
  BY <1>1
<1> QED BY <1>1, <1>3, <1>4, <1>5, TakenIsHistory

(* A decision that is committed, and no more is made of it.                 *)
LEMMA DecisionCommitted ==
  ASSUME HistorySound, ReplayInv, pass.by # "none", pass.at = "decision",
         decided' = decided \cup {pass.row}, pass' = NoPass, phase' \in Up,
         UNCHANGED <<log, saved, savedRow, memoryState, shown>>
  PROVE  HistorySound'
<1>1. /\ phase \in Up /\ LogTyped /\ Len(log) \in Nat /\ savedRow \in Nat
      /\ booked \in savedRow..Len(log) /\ pass.row = booked + 1 /\ pass.row \in 1..Len(log)
      /\ known = pass.row /\ processed \in 0..savedRow
  BY RowInPass
<1>2. LogTyped'
  BY <1>1 DEF LogTyped
<1>3. \A q \in 0..booked : History(q)' = History(q)
  <2>1. \A q \in 1..booked : log'[q] = log[q] /\ (q \in decided' <=> q \in decided)
    BY <1>1
  <2> QED BY <1>1, <1>2, <2>1, HistoryKept
<1>4. decided' \subseteq 1..known /\ decided' \subseteq 1..Len(log)
  BY <1>1 DEF HistorySound, MemoryIsHistory, Up
<1>5. DurableIsHistory'
  <2>1. saved = History(savedRow) /\ savedRow \in 0..booked /\ savedRow \in 0..Len(log)
    BY <1>1 DEF HistorySound, DurableIsHistory
  <2> QED BY <1>2, <1>3, <1>4, <2>1 DEF DurableIsHistory
<1>6. MemoryIsHistory'
  <2>1. broker = History(booked) /\ booked \in 0..booked /\ known \in booked..Len(log)
    BY <1>1 DEF HistorySound, MemoryIsHistory, Up
  <2> QED BY <1>1, <1>3, <1>4, <2>1 DEF MemoryIsHistory, memoryState
<1>7. ShownIsPast'
  <2>1. PICK q \in 0..Len(log) : shown = History(q) /\ q <= booked
    BY <1>1 DEF HistorySound, ShownIsPast
  <2>2. q \in 0..booked /\ shown' = History(q)'
    BY <1>1, <1>3, <2>1
  <2> QED BY <2>1, <2>2 DEF ShownIsPast, memoryState
<1> QED BY <1>1, <1>5, <1>6, <1>7, NoPassIsFresh
        DEF HistorySound, RestoreSound, memoryState, Up

LEMMA SaveDecisionIsHistory ==
  ASSUME HistorySound, ReplayInv, NEW e \in Outcomes, SaveDecision(e)
  PROVE  HistorySound'
<1>1. /\ pass.at = "decision" /\ UNCHANGED <<log, saved, savedRow, phase, known, processed>>
      /\ decided' = IF e.commits THEN decided \cup {pass.row} ELSE decided
      /\ e.commits \in BOOLEAN /\ e.returns \in BOOLEAN
  BY DEF SaveDecision, Outcomes
<1>2. pass.by # "none"
  BY <1>1 DEF ReplayInv, TasksSound
<1>3. phase \in Up /\ known = pass.row
  BY <1>1, <1>2, RowInPass
<1>4. CASE e.returns
  <2>1. TakeRow(TRUE) /\ e.commits
    BY <1>4 DEF SaveDecision, Outcomes
  <2>2. decided' = IF TRUE THEN decided \cup {pass.row} ELSE decided
    BY <1>1, <2>1
  <2>3. pass.at = IF TRUE THEN "decision" ELSE "row"
    BY <1>1
  <2> QED BY <1>1, <1>2, <1>3, <2>1, <2>2, <2>3, TakenIsHistory
<1>5. CASE ~e.returns
  <2>1. pass' = NoPass /\ UNCHANGED <<broker, booked, shown>>
    BY <1>5 DEF SaveDecision, Fails
  <2>2. CASE e.commits
    BY <1>1, <1>2, <1>3, <2>1, <2>2, DecisionCommitted DEF memoryState
  <2>3. CASE ~e.commits
    BY <1>1, <1>3, <2>1, <2>3, NoPassIsFresh, Quiet DEF memoryState, durableState, Up
  <2> QED BY <2>2, <2>3
<1> QED BY <1>1, <1>4, <1>5
-----------------------------------------------------------------------------
(* A page that is committed: the positions that are written make the saved  *)
(* ones those of the broker.                                                *)
LEMMA PageCommitted ==
  ASSUME HistorySound, ReplayInv, pass.by # "none", pass.at = "page",
         saved' = Merged(broker, pass.dirty), savedRow' = pass.last,
         UNCHANGED <<log, decided, broker, known, booked, shown>>, phase' \in Up
  PROVE  /\ saved' = broker /\ booked = pass.last /\ known = booked /\ savedRow = processed
         /\ processed' \in 0..savedRow' /\ PassIsFresh' => HistorySound'
<1>1. /\ phase \in Up /\ LogTyped /\ Len(log) \in Nat /\ savedRow \in Nat
      /\ booked \in savedRow..Len(log)
  BY RowInPass
<1>2. /\ booked = pass.last /\ known = booked /\ savedRow = processed
      /\ \A d \in RowId : d \notin pass.dirty => broker[d] = saved[d]
  BY DEF HistorySound, PassIsFresh
<1>3. broker = History(booked) /\ broker \in Positions
  BY <1>1, HistoryFacts DEF HistorySound, MemoryIsHistory, Up
<1>4. saved' = broker
  BY <1>2, <1>3 DEF Merged, Positions
<1>5. LogTyped' /\ \A r \in 0..Len(log) : History(r)' = History(r)
  BY <1>1, HistorySame
<1>6. ASSUME processed' \in 0..savedRow', PassIsFresh' PROVE HistorySound'
  <2>1. DurableIsHistory' /\ MemoryIsHistory' /\ RestoreSound'
    BY <1>1, <1>2, <1>3, <1>4, <1>5
       DEF HistorySound, DurableIsHistory, MemoryIsHistory, RestoreSound, Up
  <2>2. ShownIsPast'
    BY <1>1, <1>5 DEF HistorySound, ShownIsPast
  <2> QED BY <1>6, <2>1, <2>2 DEF HistorySound
<1> QED BY <1>2, <1>4, <1>6

LEMMA SavePageIsHistory ==
  ASSUME HistorySound, ReplayInv, NEW e \in Outcomes, SavePage(e)
  PROVE  HistorySound'
<1>1. /\ pass.at = "page" /\ UNCHANGED <<log, decided, phase, broker, known, booked, shown>>
      /\ e.commits \in BOOLEAN /\ e.returns \in BOOLEAN
  BY DEF SavePage, Outcomes
<1>2. pass.by # "none" /\ pass \in PassRecord
  BY <1>1 DEF ReplayInv, TasksSound, ReaderTyped
<1>3. /\ phase \in Up /\ Len(log) \in Nat /\ savedRow \in Nat /\ booked \in savedRow..Len(log)
      /\ processed \in 0..savedRow
  BY <1>2, RowInPass
<1>4. CASE e.commits
  <2>1. saved' = Merged(broker, pass.dirty) /\ savedRow' = pass.last
    BY <1>4 DEF SavePage
  <2>2. /\ saved' = broker /\ booked = pass.last /\ known = booked
        /\ processed' \in 0..savedRow' /\ PassIsFresh' => HistorySound'
    BY <1>1, <1>2, <1>3, <2>1, PageCommitted
  <2>3. CASE e.returns
    <3>1. processed' = pass.last /\ pass' = Page(pass.by, pass.last, pass.tip)
      BY <2>3 DEF SavePage
    <3>2. pass.by \in {"worker", "barrier"} /\ pass.last \in Nat /\ pass.tip \in Nat
          /\ pass.tip <= Len(log)
      BY <1>2 DEF PassRecord, HistorySound, PassIsFresh
    <3>3. PassIsFresh'
      BY <1>1, <2>1, <2>2, <3>1, <3>2, PageIsFresh
    <3> QED BY <2>1, <2>2, <3>1, <3>2, <3>3
  <2>4. CASE ~e.returns
    <3>1. pass' = NoPass /\ processed' = processed
      BY <2>4 DEF SavePage, Fails
    <3> QED BY <1>3, <2>1, <2>2, <3>1, NoPassIsFresh
  <2> QED BY <1>1, <2>3, <2>4
<1>5. CASE ~e.commits
  <2>1. pass' = NoPass /\ UNCHANGED <<saved, savedRow, processed>>
    BY <1>5 DEF SavePage, Outcomes, Fails
  <2> QED BY <1>1, <1>3, <2>1, NoPassIsFresh, Quiet DEF memoryState, durableState, Up
<1> QED BY <1>1, <1>4, <1>5
-----------------------------------------------------------------------------
LEMMA CancelledInHistory ==
  ASSUME HistorySound, ReplayInv, NEW c \in BOOLEAN, RunnerCancelled(c)
  PROVE  HistorySound'
<1>1. /\ phase = "stopping" /\ phase' = "draining"
      /\ pass' = IF pass.by = "barrier" THEN NoPass ELSE pass
      /\ decided' = IF c /\ pass.by = "barrier" /\ pass.at = "decision"
                    THEN decided \cup {pass.row} ELSE decided
      /\ IF c /\ pass.by = "barrier" /\ pass.at = "page"
         THEN saved' = Merged(broker, pass.dirty) /\ savedRow' = pass.last
         ELSE UNCHANGED <<saved, savedRow>>
      /\ UNCHANGED <<log, failed, memoryState, shown>>
  BY DEF RunnerCancelled, StopRequested
<1>2. CASE c /\ pass.by = "barrier" /\ pass.at = "decision"
  BY <1>1, <1>2, DecisionCommitted DEF Up
<1>3. CASE c /\ pass.by = "barrier" /\ pass.at = "page"
  <2>1. /\ saved' = Merged(broker, pass.dirty) /\ savedRow' = pass.last /\ decided' = decided
        /\ pass' = NoPass /\ processed' = processed
        /\ UNCHANGED <<log, decided, broker, known, booked, shown>> /\ phase' \in Up
    BY <1>1, <1>3 DEF memoryState, Up
  <2>2. /\ booked = pass.last
        /\ processed' \in 0..savedRow' /\ PassIsFresh' => HistorySound'
    BY <1>3, <2>1, PageCommitted
  <2>3. /\ booked \in savedRow..Len(log) /\ savedRow \in Nat /\ processed \in 0..savedRow
        /\ Len(log) \in Nat
    BY <1>3, RowInPass
  <2> QED BY <2>1, <2>2, <2>3, NoPassIsFresh
<1>4. CASE ~(c /\ pass.by = "barrier" /\ pass.at \in {"decision", "page"})
  <2>1. UNCHANGED <<durableState, memoryState, shown>>
    BY <1>1, <1>4 DEF durableState
  <2>2. PassIsFresh'
    BY <1>1, <2>1, NoPassIsFresh, SamePass
  <2> QED BY <1>1, <2>1, <2>2, Quiet DEF Up
<1> QED BY <1>2, <1>3, <1>4

(* The steps of the worker and the barrier, and those of a shutdown.        *)
LEMMA TasksKeepHistory ==
  ASSUME HistorySound, ReplayInv, ~overtaken',
         \/ WorkerWakes \/ WorkerStarts \/ WorkerEnds
         \/ BarrierCalls \/ BarrierStarts \/ BarrierEnds
  PROVE  HistorySound'
<1>1. CASE WorkerWakes \/ WorkerEnds \/ BarrierCalls
  <2>1. /\ UNCHANGED <<durableState, phase, failed, memoryState, shown>>
        /\ pass' = pass \/ pass' = NoPass
    BY <1>1 DEF WorkerWakes, WorkerEnds, BarrierCalls
  <2> QED BY <2>1, NoPassIsFresh, SamePass, Quiet DEF HistorySound
<1>2. CASE WorkerStarts
  <2>1. worker = "locking" /\ UNCHANGED <<durableState, phase, failed, memoryState, shown>>
    BY <1>2 DEF WorkerStarts
  <2>2. CASE failed
    <3>1. pass' = pass
      BY <1>2, <2>2 DEF WorkerStarts
    <3> QED BY <2>1, <3>1, SamePass, Quiet DEF HistorySound
  <2>3. CASE ~failed
    <3>1. CatchUp("worker") /\ phase \in Up
      BY <1>2, <2>1, <2>3 DEF WorkerStarts, HistorySound, ReplayInv, TasksSound
    <3> QED BY <2>1, <3>1, CatchUpIsFresh
  <2> QED BY <2>2, <2>3
<1>3. CASE BarrierStarts
  <2>1. /\ barrier = "locking" /\ CatchUp("barrier")
        /\ UNCHANGED <<durableState, phase, failed, memoryState, shown>>
    BY <1>3 DEF BarrierStarts
  <2>2. phase \in Up
    BY <2>1 DEF HistorySound, ReplayInv, TasksSound
  <2> QED BY <2>1, <2>2, CatchUpIsFresh
<1>4. CASE BarrierEnds
  <2>1. UNCHANGED <<durableState, shown>>
    BY <1>4 DEF BarrierEnds
  <2>2. CASE phase = "final"
    <3>1. Ends
      BY <1>4, <2>2 DEF BarrierEnds
    <3> QED BY <2>1, <3>1, EndIsHistory
  <2>3. CASE phase # "final"
    <3>1. pass' = NoPass /\ UNCHANGED <<phase, failed, memoryState>>
      BY <1>4, <2>3 DEF BarrierEnds
    <3> QED BY <2>1, <3>1, NoPassIsFresh, Quiet DEF HistorySound
  <2> QED BY <2>2, <2>3
<1> QED BY <1>1, <1>2, <1>3, <1>4

LEMMA ShutdownKeepsHistory ==
  ASSUME HistorySound, ReplayInv,
         \/ ShutdownBegins \/ RunnerEnds \/ (\E c \in BOOLEAN : RunnerCancelled(c))
         \/ Drained \/ ProcessDies
  PROVE  HistorySound'
<1>1. CASE ShutdownBegins \/ RunnerEnds
  <2>1. /\ UNCHANGED <<durableState, failed, memoryState, shown, pass>>
        /\ phase \in {"running", "stopping"} /\ phase' \in {"stopping", "draining"}
    BY <1>1 DEF ShutdownBegins, RunnerEnds, StopRequested, tasks
  <2> QED BY <2>1, SamePass, Quiet DEF Up
<1>2. CASE Drained
  <2>1. UNCHANGED <<durableState, shown>> /\ phase = "draining"
    BY <1>2 DEF Drained
  <2>2. CASE failed
    BY <1>2, <2>1, <2>2, EndIsHistory DEF Drained
  <2>3. CASE ~failed
    <3>1. phase' = "final" /\ UNCHANGED <<failed, memoryState, pass>>
      BY <1>2, <2>3 DEF Drained
    <3> QED BY <2>1, <3>1, SamePass, Quiet DEF Up
  <2> QED BY <2>2, <2>3
<1>3. CASE ProcessDies
  BY <1>3, EndIsHistory DEF ProcessDies
<1> QED BY <1>1, <1>2, <1>3, CancelledInHistory

LEMMA HistoryStays ==
  ASSUME HistoryInv, ReplayInv, [ReplayNext]_replay
  PROVE  HistoryInv'
<1>1. CASE UNCHANGED replay
  <2>1. ASSUME HistorySound PROVE HistorySound'
    <3>1. UNCHANGED <<durableState, memoryState, shown, phase, failed, pass>>
      BY <1>1 DEF replay, tasks
    <3> QED BY <2>1, <3>1, SamePass, Quiet DEF HistorySound
  <2> QED BY <1>1, <2>1 DEF HistoryInv, replay
<1>2. CASE ReplayNext
  <2>1. overtaken => overtaken'
    BY <1>2 DEF ReplayNext, Journaled, Announce, RestoreBegins, RestorePage, RestoreEnds, PassRow,
                Decide, RowFails, SaveDecision, SavePage, WorkerWakes, WorkerStarts, WorkerEnds,
                BarrierCalls, BarrierStarts, BarrierEnds, ShutdownBegins, RunnerEnds,
                RunnerCancelled, Drained, ProcessDies, CatchUp
  <2>2. ASSUME HistorySound, ~overtaken' PROVE HistorySound'
    <3>1. CASE Announce
      <4>1. UNCHANGED <<durableState, phase, failed, memoryState, pass, shown>>
        BY <3>1 DEF Announce
      <4> QED BY <2>2, <4>1, SamePass, Quiet DEF HistorySound
    <3>2. CASE \E kind \in Kind : Journaled(kind)
      BY <2>2, <3>2, JournaledIsHistory
    <3>3. CASE RestoreBegins \/ (\E e \in Outcomes : RestorePage(e)) \/ RestoreEnds
      BY <2>2, <3>3, RestoreBeginsAtHistory, RestorePageIsHistory, RestoreEndsAtHistory
    <3>4. CASE PassRow \/ Decide \/ RowFails \/ \E e \in Outcomes : SaveDecision(e) \/ SavePage(e)
      BY <2>2, <3>4, PassRowIsHistory, DecideIsHistory, RowFailsInHistory, SaveDecisionIsHistory,
         SavePageIsHistory
    <3> QED BY <1>2, <2>2, <3>1, <3>2, <3>3, <3>4, TasksKeepHistory, ShutdownKeepsHistory
            DEF ReplayNext
  <2> QED BY <2>1, <2>2 DEF HistoryInv
<1> QED BY <1>1, <1>2

LEMMA HistoryHolds == ReplaySpec => [](ReplayInv /\ HistoryInv)
<1>1. ReplayInv /\ [ReplayNext]_replay => ReplayInv'
  BY ReplayStays
<1>2. ReplayInv /\ HistoryInv /\ [ReplayNext]_replay => HistoryInv'
  BY HistoryStays
<1> QED BY ReplayStarts, HistoryStarts, <1>1, <1>2, PTL DEF ReplaySpec

(* What protection was shown is what some earlier row made of nothing, and  *)
(* rows take a position only forward.                                       *)
LEMMA HistoryUndoesNothing == HistoryInv => NothingUndone
<1> SUFFICES ASSUME HistorySound, phase \in Up PROVE \A d \in RowId : Later(shown[d], broker[d])
  BY DEF HistoryInv, NothingUndone, Up, Later
<1>1. PICK q \in 0..Len(log) : shown = History(q) /\ q <= booked
  BY DEF HistorySound, ShownIsPast
<1>2. booked \in 0..Len(log) /\ broker = History(booked) /\ LogTyped
  BY RowsTyped DEF HistorySound, DurableIsHistory, MemoryIsHistory, Up
<1> QED BY <1>1, <1>2, HistoryGoesOn

(* NothingUndone: no restart takes back a stage that protection was shown.  *)
THEOREM StagesAreNotTakenBack == ReplaySpec => []NothingUndone
BY HistoryHolds, HistoryUndoesNothing, PTL

(* PositionsAreHistory: for any journal and any size of a page, and however *)
(* crashes, errors on either side of a commit, restarts and the catch-ups   *)
(* of two tasks follow each other, no decision is lost or acted upon twice  *)
(* and nothing shown is taken back, unless a catch-up went on where another *)
(* had been cut off.                                                        *)
THEOREM PositionsAreReplayed == ReplaySpec => []PositionsAreHistory
<1>1. HistoryInv => PositionsAreHistory
  BY HistoryUndoesNothing
     DEF HistoryInv, HistorySound, DurableIsHistory, MemoryIsHistory, PositionsAreHistory,
         CheckpointIsAtomic
<1> QED BY <1>1, HistoryHolds, PTL
-----------------------------------------------------------------------------
(* ReplayTypeOK.  Whatever was overtaken, every mark is inside the journal, *)
(* and so is the row of a pass.                                             *)
MarksTyped ==
  /\ LogTyped /\ decided \subseteq 1..Len(log)
  /\ savedRow \in 0..Len(log) /\ known \in 0..Len(log)
  /\ booked \in 0..Len(log) /\ processed \in 0..Len(log)

PassInLog ==
  /\ pass.tip <= Len(log) /\ pass.last <= pass.tip /\ pass.row <= pass.last + 1
  /\ pass.by # "none" /\ pass.at \in {"row", "decision"} => 1 <= pass.row /\ pass.row <= pass.last

StagesTyped == saved \in Positions /\ broker \in Positions /\ shown \in Positions

TasksTyped ==
  /\ phase \in {"down", "restoring", "running", "stopping", "draining", "final"}
  /\ failed \in BOOLEAN /\ wake \in BOOLEAN /\ overtaken \in BOOLEAN
  /\ worker \in {"off", "idle", "locking", "working", "done"}
  /\ barrier \in {"idle", "locking", "working"}

TypedInv == MarksTyped /\ PassInLog /\ StagesTyped /\ TasksTyped
-----------------------------------------------------------------------------
LEMMA TypedStarts == ReplayInit => TypedInv
<1> SUFFICES ASSUME ReplayInit PROVE TypedInv
  OBVIOUS
<1>1. MarksTyped
  BY ReplayAssumption DEF ReplayInit, MarksTyped, LogTyped
<1>2. PassInLog
  BY DEF ReplayInit, PassInLog, NoPass
<1>3. StagesTyped /\ TasksTyped
  BY NoneTyped DEF ReplayInit, StagesTyped, TasksTyped
<1> QED BY <1>1, <1>2, <1>3 DEF TypedInv

(* A page of a catch-up is inside the journal. *)
LEMMA PageInLog ==
  ASSUME ReplayInv, NEW by \in {"worker", "barrier"}, NEW from \in Nat, NEW tip \in 0..Len(log),
         log' = log, pass' = Page(by, from, tip)
  PROVE  PassInLog'
<1>1. Len(log) \in Nat
  BY DEF ReplayInv, ReaderTyped
<1>2. CASE from < tip
  <2>1. /\ pass'.tip = tip /\ pass'.row = from + 1 /\ from < pass'.last /\ pass'.last <= tip
        /\ pass' \in PassRecord
    BY <1>1, <1>2, PageSound
  <2>2. pass'.last \in Nat
    BY <2>1 DEF PassRecord
  <2> QED BY <1>1, <2>1, <2>2 DEF PassInLog
<1>3. CASE ~(from < tip)
  <2>1. pass' = [NoPass EXCEPT !.by = by, !.at = "over"]
    BY <1>3 DEF Page
  <2>2. pass'.tip = 0 /\ pass'.last = 0 /\ pass'.row = 0 /\ pass'.at = "over"
    BY <2>1 DEF NoPass
  <2> QED BY <1>1, <2>2 DEF PassInLog
<1> QED BY <1>2, <1>3

LEMMA CatchUpInLog ==
  ASSUME ReplayInv, TypedInv, NEW by \in {"worker", "barrier"}, CatchUp(by), log' = log
  PROVE  PassInLog' /\ overtaken' \in BOOLEAN
<1>1. /\ pass' = Page(by, processed, Len(log)) /\ processed \in Nat /\ Len(log) \in 0..Len(log)
  BY DEF CatchUp, ReplayInv, ReaderTyped
<1>2. PassInLog'
  BY <1>1, PageInLog
<1>3. overtaken' \in BOOLEAN
  BY DEF CatchUp, TypedInv, TasksTyped
<1> QED BY <1>2, <1>3

(* What the end of the process leaves. *)
LEMMA EndsTyped ==
  ASSUME ReplayInv, TypedInv, Ends, UNCHANGED <<durableState, shown, overtaken>>
  PROVE  TypedInv'
<1>1. Len(log) \in Nat /\ UNCHANGED <<log, decided, saved, savedRow>>
  BY DEF ReplayInv, ReaderTyped, durableState
<1>2. MarksTyped' /\ PassInLog'
  BY <1>1 DEF Ends, TypedInv, MarksTyped, LogTyped, PassInLog, NoPass
<1>3. StagesTyped' /\ TasksTyped'
  BY <1>1, NoneTyped DEF Ends, TypedInv, StagesTyped, TasksTyped
<1> QED BY <1>2, <1>3 DEF TypedInv

(* What a row that is taken leaves. *)
LEMMA TakenInLog ==
  ASSUME ReplayInv, TypedInv, NEW b \in BOOLEAN, TakeRow(b), pass.by # "none",
         pass.at \in {"row", "decision"}, log' = log
  PROVE  /\ PassInLog' /\ broker' \in Positions /\ shown' \in Positions
         /\ booked' \in 0..Len(log)
<1> DEFINE r == pass.row
           moved == IF r > booked THEN AdvanceAll(broker, r) ELSE broker
           taken == IF b THEN SubmitPlan(moved, r) ELSE moved
<1>1. /\ pass \in PassRecord /\ Len(log) \in Nat /\ LogTyped
      /\ broker \in Positions /\ shown \in Positions /\ booked \in 0..Len(log)
  BY DEF ReplayInv, ReaderTyped, TypedInv, MarksTyped, StagesTyped
<1>2. pass.row \in Nat /\ pass.last \in Nat /\ pass.tip \in Nat
  BY <1>1 DEF PassRecord
<1>3. r \in 1..Len(log) /\ r <= pass.last /\ pass.last <= pass.tip /\ pass.tip <= Len(log)
  BY <1>1, <1>2 DEF TypedInv, PassInLog
<1>4. /\ broker' = taken /\ booked' = Max({booked, r})
      /\ shown' = (IF taken # broker THEN taken ELSE shown)
      /\ pass' = [pass EXCEPT !.dirty = @ \cup Changed(broker, taken), !.row = r + 1,
                             !.at = IF r = pass.last THEN "page" ELSE "row"]
  BY DEF TakeRow
<1>5. moved \in Positions
  BY <1>1, <1>3, TakenTyped
<1>6. taken \in Positions
  <2> HIDE DEF moved, r
  <2> QED BY <1>5 DEF SubmitPlan, Positions, Stage, InPlay
<1> HIDE DEF taken
<1>7. booked' \in 0..Len(log)
  <2>1. \E x \in {booked, r} : \A y \in {booked, r} : x >= y
    BY <1>1, <1>2
  <2>2. Max({booked, r}) \in {booked, r}
    BY <2>1 DEF Max
  <2> QED BY <1>1, <1>3, <1>4, <2>2
<1>8. /\ pass'.row = pass.row + 1 /\ pass'.last = pass.last /\ pass'.tip = pass.tip
      /\ pass'.at = (IF r = pass.last THEN "page" ELSE "row")
  BY <1>1, <1>4 DEF PassRecord
<1>9. PassInLog'
  BY <1>2, <1>3, <1>8 DEF PassInLog
<1> QED BY <1>1, <1>4, <1>6, <1>7, <1>9

(* An exception in a pass. *)
LEMMA FailsTyped ==
  ASSUME ReplayInv, TypedInv, Fails,
         UNCHANGED <<log, saved, broker, shown, booked, processed, phase, wake, overtaken>>,
         decided' \subseteq 1..Len(log), savedRow' \in 0..Len(log), known' \in 0..Len(log)
  PROVE  TypedInv'
<1>1. MarksTyped' /\ StagesTyped'
  BY DEF TypedInv, MarksTyped, LogTyped, StagesTyped
<1>2. PassInLog'
  BY DEF Fails, PassInLog, NoPass, TypedInv, MarksTyped, LogTyped
<1>3. TasksTyped'
  BY DEF Fails, TypedInv, TasksTyped
<1> QED BY <1>1, <1>2, <1>3 DEF TypedInv
-----------------------------------------------------------------------------
LEMMA RestoreTyped ==
  ASSUME ReplayInv, TypedInv,
         \/ \E kind \in Kind : Journaled(kind)
         \/ Announce \/ RestoreBegins \/ RestoreEnds
         \/ \E e \in Outcomes : RestorePage(e)
  PROVE  TypedInv'
<1>1. Len(log) \in Nat /\ LogTyped
  BY DEF ReplayInv, ReaderTyped, TypedInv, MarksTyped
<1>2. ASSUME NEW kind \in Kind, Journaled(kind) PROVE TypedInv'
  <2>1. /\ log' = Append(log, kind) /\ Len(log) < MaxLog
        /\ UNCHANGED <<decided, saved, savedRow, phase, failed, broker, known, booked, processed,
                       pass, wake, worker, barrier, shown, overtaken>>
    BY <1>2 DEF Journaled, memoryState, tasks
  <2>2. log' \in Seq(Kind) /\ Len(log') = Len(log) + 1 /\ Len(log') <= MaxLog
    BY <1>1, <2>1, ReplayAssumption DEF LogTyped
  <2>3. MarksTyped'
    BY <1>1, <2>1, <2>2 DEF TypedInv, MarksTyped, LogTyped
  <2>4. PassInLog'
    <3>1. pass \in PassRecord
      BY DEF ReplayInv, ReaderTyped
    <3>2. pass.tip \in Nat
      BY <3>1 DEF PassRecord
    <3> QED BY <1>1, <2>1, <2>2, <3>2 DEF TypedInv, PassInLog
  <2> QED BY <2>1, <2>3, <2>4 DEF TypedInv, StagesTyped, TasksTyped
<1>3. CASE Announce
  <2>1. /\ wake' = TRUE
        /\ UNCHANGED <<log, decided, saved, savedRow, phase, failed, broker, known, booked,
                       processed, pass, worker, barrier, shown, overtaken>>
    BY <1>3 DEF Announce, durableState, memoryState
  <2> QED BY <2>1 DEF TypedInv, MarksTyped, LogTyped, PassInLog, StagesTyped, TasksTyped
<1>4. CASE RestoreBegins
  <2>1. /\ phase' = "restoring" /\ broker' = saved /\ booked' = savedRow /\ known' = Len(log)
        /\ UNCHANGED <<log, decided, saved, savedRow, failed, processed, pass, wake, worker,
                       barrier, shown, overtaken>>
    BY <1>4 DEF RestoreBegins, durableState, tasks
  <2>2. MarksTyped' /\ PassInLog'
    BY <1>1, <2>1 DEF TypedInv, MarksTyped, LogTyped, PassInLog
  <2> QED BY <2>1, <2>2 DEF TypedInv, StagesTyped, TasksTyped
<1>5. CASE RestoreEnds
  <2>1. /\ phase' = "running" /\ worker' = "idle" /\ processed' = Len(log)
        /\ UNCHANGED <<log, decided, saved, savedRow, failed, broker, known, booked, pass, wake,
                       barrier, shown, overtaken>>
    BY <1>5 DEF RestoreEnds, durableState
  <2>2. MarksTyped' /\ PassInLog'
    BY <1>1, <2>1 DEF TypedInv, MarksTyped, LogTyped, PassInLog
  <2> QED BY <2>1, <2>2 DEF TypedInv, StagesTyped, TasksTyped
<1>6. ASSUME NEW e \in Outcomes, RestorePage(e) PROVE TypedInv'
  <2> DEFINE last == Min({booked + PageSize, Len(log)})
  <2>1. /\ booked < Len(log) /\ broker' = After(broker, booked + 1, last) /\ booked' = last
        /\ \/ saved' = Merged(broker', Changed(broker, broker')) /\ savedRow' = last
           \/ UNCHANGED <<saved, savedRow>>
        /\ failed' = ~e.returns
        /\ UNCHANGED <<log, decided, phase, known, processed, pass, wake, worker, barrier, shown,
                       overtaken>>
    BY <1>6 DEF RestorePage, tasks
  <2>2. booked \in Nat /\ PageSize \in Nat \ {0} /\ saved \in Positions /\ broker \in Positions
    BY ReplayAssumption DEF TypedInv, MarksTyped, StagesTyped
  <2>3. last \in {booked + PageSize, Len(log)} /\ \A y \in {booked + PageSize, Len(log)} : last =< y
    <3>1. \E x \in {booked + PageSize, Len(log)} : \A y \in {booked + PageSize, Len(log)} : x =< y
      BY <1>1, <2>2
    <3> QED BY <3>1 DEF Min
  <2>4. last \in 0..Len(log) /\ booked < last
    BY <1>1, <2>1, <2>2, <2>3
  <2> HIDE DEF last
  <2>5. broker' \in Positions
    <3>1. /\ booked + 1 \in Nat \ {0} /\ last \in Nat /\ booked + 1 - 1 <= last /\ last <= Len(log)
          /\ last \in booked + 1 - 1 .. Len(log)
      BY <1>1, <2>2, <2>4
    <3>2. After(broker, booked + 1, last) = Trail(Rows, broker, booked + 1, last)
      BY <1>1, <2>2, <3>1, AfterIsTrail
    <3>3. Trail(Rows, broker, booked + 1, last) \in Positions
      BY <1>1, <2>2, <3>1, RowsTyped, TrailTyped
    <3> QED BY <2>1, <3>2, <3>3
  <2>6. saved' \in Positions
    BY <2>1, <2>2, <2>5 DEF Merged, Positions
  <2>7. MarksTyped'
    BY <1>1, <2>1, <2>4 DEF TypedInv, MarksTyped, LogTyped
  <2>8. PassInLog' /\ StagesTyped'
    BY <2>1, <2>5, <2>6 DEF TypedInv, PassInLog, StagesTyped
  <2>9. TasksTyped'
    <3>1. e.returns \in BOOLEAN
      BY DEF Outcomes
    <3> QED BY <2>1, <3>1 DEF TypedInv, TasksTyped
  <2> QED BY <2>7, <2>8, <2>9 DEF TypedInv
<1> QED BY <1>2, <1>3, <1>4, <1>5, <1>6

LEMMA PassTyped ==
  ASSUME ReplayInv, TypedInv,
         \/ PassRow \/ Decide \/ RowFails
         \/ \E e \in Outcomes : SaveDecision(e) \/ SavePage(e)
  PROVE  TypedInv'
<1>1. /\ Len(log) \in Nat /\ LogTyped /\ pass \in PassRecord
      /\ known \in 0..Len(log) /\ booked \in 0..Len(log) /\ savedRow \in 0..Len(log)
      /\ saved \in Positions /\ broker \in Positions
  BY DEF ReplayInv, ReaderTyped, TypedInv, MarksTyped, StagesTyped
<1>2. pass.row \in Nat /\ pass.last \in Nat /\ pass.tip \in Nat
  BY <1>1 DEF PassRecord
<1>3. pass.last \in 0..Len(log) /\ pass.tip \in 0..Len(log)
  BY <1>1, <1>2 DEF TypedInv, PassInLog
<1>4. ASSUME pass.by # "none", pass.at \in {"row", "decision"} PROVE pass.row \in 1..Len(log)
  BY <1>1, <1>2, <1>3, <1>4 DEF TypedInv, PassInLog
<1>5. ASSUME pass.by # "none", pass.at = "row" PROVE Max({known, pass.row}) \in 0..Len(log)
  <2>1. \E x \in {known, pass.row} : \A y \in {known, pass.row} : x >= y
    BY <1>1, <1>2
  <2>2. Max({known, pass.row}) \in {known, pass.row}
    BY <2>1 DEF Max
  <2> QED BY <1>1, <1>4, <1>5, <2>2
<1>6. CASE PassRow
  <2>1. /\ pass.by # "none" /\ pass.at = "row" /\ TakeRow(FALSE)
        /\ known' = Max({known, pass.row})
        /\ UNCHANGED <<log, decided, saved, savedRow, phase, failed, processed, wake, worker,
                       barrier, overtaken>>
    BY <1>6 DEF PassRow, durableState
  <2>2. PassInLog' /\ broker' \in Positions /\ shown' \in Positions /\ booked' \in 0..Len(log)
    BY <2>1, TakenInLog
  <2>3. MarksTyped'
    BY <1>5, <2>1, <2>2 DEF TypedInv, MarksTyped, LogTyped
  <2> QED BY <2>1, <2>2, <2>3 DEF TypedInv, StagesTyped, TasksTyped
<1>7. CASE Decide
  <2>1. /\ pass.by # "none" /\ pass.at = "row" /\ known' = pass.row
        /\ pass' = [pass EXCEPT !.at = "decision"]
        /\ UNCHANGED <<log, decided, saved, savedRow, phase, failed, broker, booked, processed,
                       wake, worker, barrier, shown, overtaken>>
    BY <1>7 DEF Decide, durableState
  <2>2. known' \in 0..Len(log)
    BY <1>4, <2>1
  <2>3. /\ pass'.row = pass.row /\ pass'.last = pass.last /\ pass'.tip = pass.tip
        /\ pass'.at = "decision" /\ pass'.by = pass.by
    BY <1>1, <2>1 DEF PassRecord
  <2>4. PassInLog'
    BY <2>1, <2>3 DEF TypedInv, PassInLog
  <2>5. MarksTyped'
    BY <2>1, <2>2 DEF TypedInv, MarksTyped, LogTyped
  <2> QED BY <2>1, <2>4, <2>5 DEF TypedInv, StagesTyped, TasksTyped
<1>8. CASE RowFails
  <2>1. /\ pass.by # "none" /\ pass.at = "row" /\ Fails
        /\ known' \in {known, Max({known, pass.row})}
        /\ UNCHANGED <<log, decided, saved, savedRow, phase, broker, booked, processed, wake,
                       shown, overtaken>>
    BY <1>8 DEF RowFails, durableState
  <2>2. known' \in 0..Len(log) /\ decided' \subseteq 1..Len(log) /\ savedRow' \in 0..Len(log)
    BY <1>1, <1>5, <2>1 DEF TypedInv, MarksTyped
  <2> QED BY <2>1, <2>2, FailsTyped
<1>9. ASSUME NEW e \in Outcomes, SaveDecision(e) PROVE TypedInv'
  <2>1. /\ pass.by # "none" /\ pass.at = "decision"
        /\ decided' = IF e.commits THEN decided \cup {pass.row} ELSE decided
        /\ UNCHANGED <<log, saved, savedRow, phase, known, processed, wake, overtaken>>
    BY <1>9 DEF SaveDecision, ReplayInv, TasksSound
  <2>2. decided' \subseteq 1..Len(log)
    BY <1>4, <2>1 DEF TypedInv, MarksTyped
  <2>3. CASE e.returns
    <3>1. TakeRow(TRUE) /\ UNCHANGED <<failed, worker, barrier>>
      BY <1>9, <2>3 DEF SaveDecision
    <3>2. PassInLog' /\ broker' \in Positions /\ shown' \in Positions /\ booked' \in 0..Len(log)
      BY <2>1, <3>1, TakenInLog
    <3>3. MarksTyped'
      BY <2>1, <2>2, <3>2 DEF TypedInv, MarksTyped, LogTyped
    <3> QED BY <2>1, <3>1, <3>2, <3>3 DEF TypedInv, StagesTyped, TasksTyped
  <2>4. CASE ~e.returns
    <3>1. Fails /\ UNCHANGED <<broker, booked, shown>>
      BY <1>9, <2>4 DEF SaveDecision
    <3> QED BY <1>1, <2>1, <2>2, <3>1, FailsTyped
  <2> QED BY <2>3, <2>4
<1>10. ASSUME NEW e \in Outcomes, SavePage(e) PROVE TypedInv'
  <2>1. /\ pass.by # "none" /\ pass.at = "page"
        /\ \/ saved' = Merged(broker, pass.dirty) /\ savedRow' = pass.last
           \/ UNCHANGED <<saved, savedRow>>
        /\ UNCHANGED <<log, decided, phase, broker, known, booked, wake, shown, overtaken>>
    BY <1>10 DEF SavePage, ReplayInv, TasksSound
  <2>2. saved' \in Positions /\ savedRow' \in 0..Len(log)
    BY <1>1, <1>3, <2>1 DEF Merged, Positions
  <2>3. StagesTyped'
    BY <2>1, <2>2 DEF TypedInv, StagesTyped
  <2>4. CASE e.returns
    <3>1. /\ processed' = pass.last /\ pass' = Page(pass.by, pass.last, pass.tip)
          /\ UNCHANGED <<failed, worker, barrier>>
      BY <1>10, <2>4 DEF SavePage
    <3>2. pass.by \in {"worker", "barrier"}
      BY <1>1, <2>1 DEF PassRecord
    <3>3. PassInLog'
      BY <1>2, <1>3, <2>1, <3>1, <3>2, PageInLog
    <3>4. MarksTyped'
      BY <1>3, <2>1, <2>2, <3>1 DEF TypedInv, MarksTyped, LogTyped
    <3> QED BY <2>1, <2>3, <3>1, <3>3, <3>4 DEF TypedInv, TasksTyped
  <2>5. CASE ~e.returns
    <3>1. Fails /\ processed' = processed
      BY <1>10, <2>5 DEF SavePage
    <3>2. MarksTyped'
      BY <2>1, <2>2, <3>1 DEF TypedInv, MarksTyped, LogTyped
    <3>3. PassInLog'
      BY <1>1, <2>1, <3>1 DEF Fails, PassInLog, NoPass
    <3>4. TasksTyped'
      BY <2>1, <3>1 DEF Fails, TypedInv, TasksTyped
    <3> QED BY <2>3, <3>2, <3>3, <3>4 DEF TypedInv
  <2> QED BY <2>4, <2>5
<1> QED BY <1>6, <1>7, <1>8, <1>9, <1>10

LEMMA TasksStayTyped ==
  ASSUME ReplayInv, TypedInv,
         \/ WorkerWakes \/ WorkerStarts \/ WorkerEnds
         \/ BarrierCalls \/ BarrierStarts \/ BarrierEnds
         \/ ShutdownBegins \/ RunnerEnds \/ Drained \/ ProcessDies
         \/ \E c \in BOOLEAN : RunnerCancelled(c)
  PROVE  TypedInv'
<1>1. Len(log) \in Nat /\ LogTyped
  BY DEF ReplayInv, ReaderTyped, TypedInv, MarksTyped
<1>2. ASSUME UNCHANGED <<durableState, memoryState, shown>>, PassInLog', TasksTyped'
      PROVE  TypedInv'
  BY <1>2 DEF TypedInv, MarksTyped, LogTyped, StagesTyped, durableState, memoryState
<1>3. ASSUME pass' = pass \/ pass' = NoPass, log' = log PROVE PassInLog'
  BY <1>1, <1>3 DEF TypedInv, PassInLog, NoPass
<1>4. CASE WorkerWakes \/ WorkerEnds \/ BarrierCalls
  <2>1. /\ UNCHANGED <<durableState, memoryState, shown, phase, failed, overtaken>>
        /\ log' = log /\ (pass' = pass \/ pass' = NoPass)
        /\ wake' \in {FALSE, wake} /\ worker' \in {worker, "locking", "done", "idle"}
        /\ barrier' \in {barrier, "locking"}
    BY <1>4 DEF WorkerWakes, WorkerEnds, BarrierCalls, durableState
  <2>2. TasksTyped'
    BY <2>1 DEF TypedInv, TasksTyped
  <2> QED BY <1>2, <1>3, <2>1, <2>2
<1>5. CASE WorkerStarts
  <2>1. /\ UNCHANGED <<durableState, memoryState, shown, phase, failed, wake, barrier>>
        /\ log' = log
    BY <1>5 DEF WorkerStarts, durableState
  <2>2. CASE failed
    <3>1. worker' = "done" /\ UNCHANGED <<pass, overtaken>>
      BY <1>5, <2>2 DEF WorkerStarts
    <3>2. TasksTyped'
      BY <2>1, <3>1 DEF TypedInv, TasksTyped
    <3> QED BY <1>2, <1>3, <2>1, <3>1, <3>2
  <2>3. CASE ~failed
    <3>1. worker' = "working" /\ CatchUp("worker")
      BY <1>5, <2>3 DEF WorkerStarts
    <3>2. PassInLog' /\ overtaken' \in BOOLEAN
      BY <2>1, <3>1, CatchUpInLog
    <3>3. TasksTyped'
      BY <2>1, <3>1, <3>2 DEF TypedInv, TasksTyped
    <3> QED BY <1>2, <2>1, <3>2, <3>3
  <2> QED BY <2>2, <2>3
<1>6. CASE BarrierStarts
  <2>1. /\ UNCHANGED <<durableState, memoryState, shown, phase, failed, wake, worker>>
        /\ log' = log /\ barrier' = "working" /\ CatchUp("barrier")
    BY <1>6 DEF BarrierStarts, durableState
  <2>2. PassInLog' /\ overtaken' \in BOOLEAN
    BY <2>1, CatchUpInLog
  <2>3. TasksTyped'
    BY <2>1, <2>2 DEF TypedInv, TasksTyped
  <2> QED BY <1>2, <2>1, <2>2, <2>3
<1>7. CASE BarrierEnds
  <2>1. UNCHANGED <<durableState, shown, overtaken>> /\ log' = log
    BY <1>7 DEF BarrierEnds, durableState
  <2>2. CASE phase = "final"
    <3>1. Ends
      BY <1>7, <2>2 DEF BarrierEnds
    <3> QED BY <2>1, <3>1, EndsTyped
  <2>3. CASE phase # "final"
    <3>1. /\ pass' = NoPass /\ barrier' = "idle"
          /\ UNCHANGED <<phase, failed, memoryState, wake, worker>>
      BY <1>7, <2>3 DEF BarrierEnds
    <3>2. TasksTyped'
      BY <2>1, <3>1 DEF TypedInv, TasksTyped
    <3> QED BY <1>2, <1>3, <2>1, <3>1, <3>2
  <2> QED BY <2>2, <2>3
<1>8. CASE ShutdownBegins \/ RunnerEnds
  <2>1. /\ UNCHANGED <<durableState, memoryState, shown, failed, overtaken, pass, worker, barrier>>
        /\ log' = log /\ phase' \in {"stopping", "draining"} /\ wake' \in {TRUE, wake}
    BY <1>8 DEF ShutdownBegins, RunnerEnds, StopRequested, durableState, tasks
  <2>2. TasksTyped'
    BY <2>1 DEF TypedInv, TasksTyped
  <2> QED BY <1>2, <1>3, <2>1, <2>2
<1>9. CASE Drained
  <2>1. UNCHANGED <<durableState, shown, overtaken>> /\ log' = log
    BY <1>9 DEF Drained, durableState
  <2>2. CASE failed
    <3>1. Ends
      BY <1>9, <2>2 DEF Drained
    <3> QED BY <2>1, <3>1, EndsTyped
  <2>3. CASE ~failed
    <3>1. /\ phase' = "final" /\ barrier' = "locking"
          /\ UNCHANGED <<failed, memoryState, pass, wake, worker>>
      BY <1>9, <2>3 DEF Drained
    <3>2. TasksTyped'
      BY <2>1, <3>1 DEF TypedInv, TasksTyped
    <3> QED BY <1>2, <1>3, <2>1, <3>1, <3>2
  <2> QED BY <2>2, <2>3
<1>10. CASE ProcessDies
  BY <1>10, EndsTyped DEF ProcessDies
<1>11. ASSUME NEW c \in BOOLEAN, RunnerCancelled(c) PROVE TypedInv'
  <2>1. /\ phase' = "draining" /\ wake' = TRUE /\ barrier' = "idle"
        /\ pass' = pass \/ pass' = NoPass
        /\ \/ decided' = decided
           \/ pass.by = "barrier" /\ pass.at = "decision" /\ decided' = decided \cup {pass.row}
        /\ \/ saved' = Merged(broker, pass.dirty) /\ savedRow' = pass.last
           \/ UNCHANGED <<saved, savedRow>>
        /\ UNCHANGED <<log, failed, broker, known, booked, processed, worker, shown, overtaken>>
    BY <1>11 DEF RunnerCancelled, StopRequested, memoryState
  <2>2. /\ pass \in PassRecord /\ savedRow \in 0..Len(log) /\ decided \subseteq 1..Len(log)
        /\ saved \in Positions /\ broker \in Positions
    BY DEF ReplayInv, ReaderTyped, TypedInv, MarksTyped, StagesTyped
  <2>3. pass.row \in Nat /\ pass.last \in Nat /\ pass.tip \in Nat
    BY <2>2 DEF PassRecord
  <2>4. pass.last \in 0..Len(log)
    BY <1>1, <2>3 DEF TypedInv, PassInLog
  <2>5. pass.by = "barrier" /\ pass.at = "decision" => pass.row \in 1..Len(log)
    BY <1>1, <2>3 DEF TypedInv, PassInLog
  <2>6. decided' \subseteq 1..Len(log)
    BY <2>1, <2>2, <2>5
  <2>7. saved' \in Positions /\ savedRow' \in 0..Len(log)
    BY <2>1, <2>2, <2>4 DEF Merged, Positions
  <2>8. MarksTyped' /\ StagesTyped'
    BY <2>1, <2>6, <2>7 DEF TypedInv, MarksTyped, LogTyped, StagesTyped
  <2>9. PassInLog' /\ TasksTyped'
    BY <1>3, <2>1 DEF TypedInv, TasksTyped
  <2> QED BY <2>8, <2>9 DEF TypedInv
<1> QED BY <1>4, <1>5, <1>6, <1>7, <1>8, <1>9, <1>10, <1>11

(* ReplayTypeOK: for any journal and any size of a page, whoever overtook   *)
(* whom, no mark is beyond the journal and no pass beyond its tip.          *)
THEOREM ReplayIsTyped == ReplaySpec => []ReplayTypeOK
<1>1. ASSUME ReplayInv, TypedInv, [ReplayNext]_replay PROVE TypedInv'
  <2>1. CASE UNCHANGED replay
    BY <1>1, <2>1 DEF replay, durableState, memoryState, tasks, TypedInv, MarksTyped, LogTyped,
                      PassInLog, StagesTyped, TasksTyped
  <2> QED BY <1>1, <2>1, RestoreTyped, PassTyped, TasksStayTyped DEF ReplayNext
<1>2. ASSUME ReplayInv, [ReplayNext]_replay PROVE ReplayInv'
  BY <1>2, ReplayStays
<1>3. ReplayInv /\ TypedInv => ReplayTypeOK
  <2> SUFFICES ASSUME ReplayInv, TypedInv PROVE ReplayTypeOK
    OBVIOUS
  <2>1. /\ Len(log) \in Nat /\ Len(log) <= MaxLog /\ MaxLog \in Nat /\ pass \in PassRecord
        /\ announced \in 0..Len(log)
    BY ReplayAssumption DEF ReplayInv, ReaderTyped, TypedInv, MarksTyped, LogTyped
  <2>2. pass \in [by: {"none", "worker", "barrier"}, at: {"row", "decision", "page", "over"},
                  row: 0..MaxLog + 1, last: 0..MaxLog, tip: 0..MaxLog, dirty: SUBSET RowId]
    <3>1. pass.row \in Nat /\ pass.last \in Nat /\ pass.tip \in Nat
      BY <2>1 DEF PassRecord
    <3>2. pass.tip <= Len(log) /\ pass.last <= pass.tip /\ pass.row <= pass.last + 1
      BY DEF TypedInv, PassInLog
    <3>3. pass.tip \in 0..MaxLog /\ pass.last \in 0..MaxLog /\ pass.row \in 0..MaxLog + 1
      <4>1. ASSUME NEW n \in Nat, NEW t \in Nat, NEW l \in Nat, NEW r \in Nat,
                   t <= n, n <= MaxLog, l <= t, r <= l + 1
            PROVE  t \in 0..MaxLog /\ l \in 0..MaxLog /\ r \in 0..MaxLog + 1
        BY <2>1, <4>1
      <4> QED BY <2>1, <3>1, <3>2, <4>1
    <3> QED BY <2>1, <3>3 DEF PassRecord
  <2> QED BY <2>1, <2>2
          DEF TypedInv, MarksTyped, LogTyped, StagesTyped, TasksTyped, Positions, ReplayTypeOK
<1> QED BY ReplayStarts, TypedStarts, <1>1, <1>2, <1>3, PTL DEF ReplaySpec

-----------------------------------------------------------------------------
(* PaperFunding.  The records a position may be.                            *)
Holds ==
  {NoHolding}
    \cup [is: {"open"}, opened: Nat, credited: [Settlement -> Nat], settled: SUBSET Settlement]
    \cup [is: {"closed"}, opened: Nat, closed: Nat, credited: [Settlement -> Nat],
          settled: SUBSET Settlement, poll: Nat, polls: Nat,
          outcome: {"none", "completed", "failed"}]

Places ==
  {Resting, Down}
    \cup [at: {"asked"}]
    \cup [at: {"reading"}, end: Nat]
    \cup [at: {"paying"}, history: SUBSET Settlement, read: SUBSET Perp, end: Nat,
          captured: Nat, left: SUBSET Holding]
    \cup [at: {"saving"}, left: SUBSET Holding]

AccountTyped ==
  /\ clock \in Nat /\ clock <= Horizon
  /\ published \in [Settlement -> Nat]
  /\ held \in [Holding -> Holds] /\ row \in [Holding -> Holds]
  /\ cash \in Nat /\ balance \in {NoBalance} \cup Nat
  /\ cycle \in Places
  /\ fresh \subseteq Holding

(* What a position was credited is what it has marked, and every mark has   *)
(* its payment.                                                             *)
Marked(h) ==
  /\ held[h].is # "none" =>
       /\ held[h].settled \subseteq PaidTo(h)
       /\ \A s \in Settlement : held[h].credited[s] = (IF s \in held[h].settled THEN 1 ELSE 0)
  /\ row[h].is # "none" => row[h].settled \subseteq PaidTo(h)

(* A reconciliation is complete only behind its deadline, and complete.     *)
Complete(h, position) ==
  position.is = "closed" /\ position.outcome = "completed" =>
    /\ Until(position) <= clock
    /\ \A s \in Settlement :
         /\ position.opened < FallsAt[s] /\ FallsAt[s] <= position.closed
         /\ published[s] < Until(position)
         => <<h, s>> \in paid

GivenUp(position) == position.is = "closed" /\ position.outcome = "failed"

(* One that is given up is said before anything else is saved.              *)
Said(h) ==
  /\ GivenUp(held[h]) => h \in unsaid \cup incident
  /\ GivenUp(row[h]) => h \in incident

PositionSound(h) ==
  /\ Marked(h) /\ Complete(h, held[h]) /\ Complete(h, row[h]) /\ Said(h)
  /\ h \in fresh => held[h].is = "none" /\ row[h].is = "none"

(* A history that was read has what was listed before the end of its range. *)
CycleSound ==
  /\ cycle.at \in {"reading", "paying", "saving"} => unsaid = {}
  /\ cycle.at \in {"reading", "paying"} => cycle.end <= clock
  /\ cycle.at = "paying" =>
       \A s \in Settlement :
         PerpOf[s] \in cycle.read /\ published[s] < cycle.end => s \in cycle.history

RowOpen == {h \in Holding : row[h].is = "open"}

(* Capital is free or in a position, in memory; and in the tables, where    *)
(* nothing is between the positions and the balance.                        *)
CapitalSound ==
  /\ cycle.at # "down" =>
       /\ cash + Cardinality(Open) = Capital
       /\ \A h \in Holding : held[h].is = "none" => row[h].is = "none"
  /\ cycle.at = "down" => ~saving
  /\ cycle.at = "saving" => \A h \in Holding \ cycle.left : held[h].is # "none" => row[h] = held[h]
  /\ ~saving => IF balance = NoBalance THEN \A h \in Holding : row[h].is = "none"
                ELSE balance + Cardinality(RowOpen) = Capital

AccountInv ==
  AccountTyped /\ CycleSound /\ (\A h \in Holding : PositionSound(h)) /\ (~torn => CapitalSound)
-----------------------------------------------------------------------------
LEMMA PaperConstants ==
  /\ IsFiniteSet(Holding)
  /\ FallsAt \in [Settlement -> Nat] /\ PerpOf \in [Settlement -> Perp]
  /\ Capital \in Nat /\ Window \in Nat /\ PollEvery \in Nat /\ MaxPolls \in Nat
  /\ Horizon \in Nat
BY PaperAssumption

LEMMA AccountStarts == PaperInit => AccountInv
<1> SUFFICES ASSUME PaperInit PROVE AccountInv
  OBVIOUS
<1>1. /\ held = [h \in Holding |-> NoHolding] /\ row = [h \in Holding |-> NoHolding]
      /\ NoHolding.is = "none" /\ NoHolding \in Holds /\ cycle = Resting /\ Resting \in Places
      /\ Resting.at = "idle" /\ Never \in Nat
  BY PaperConstants DEF PaperInit, NoHolding, Holds, Resting, Places, Never
<1>2. AccountTyped /\ CycleSound
  BY <1>1, PaperConstants DEF PaperInit, AccountTyped, CycleSound
<1>3. \A h \in Holding : PositionSound(h)
  BY <1>1 DEF PositionSound, Marked, Complete, Said, GivenUp
<1>4. CapitalSound
  <2>1. Open = {}
    BY <1>1 DEF Open
  <2> QED BY <1>1, <2>1, FS_EmptySet, PaperConstants DEF PaperInit, CapitalSound
<1> QED BY <1>2, <1>3, <1>4 DEF AccountInv

(* What may happen around a position and its row.                           *)
LEMMA PositionKept ==
  ASSUME NEW h \in Holding, AccountTyped, PositionSound(h), held'[h] = held[h], row'[h] = row[h],
         paid \subseteq paid', clock \in Nat, clock' \in Nat, clock <= clock',
         \A s \in Settlement : published'[s] = published[s] \/ published'[s] = clock,
         unsaid \cup incident \subseteq unsaid' \cup incident', incident \subseteq incident',
         fresh' \subseteq fresh
  PROVE  PositionSound(h)'
<1>1. PaidTo(h) \subseteq PaidTo(h)'
  BY DEF PaidTo
<1>2. Marked(h)' /\ Said(h)'
  BY <1>1 DEF PositionSound, Marked, Said, GivenUp
<1>3. ASSUME NEW p, p \in Holds, Complete(h, p) PROVE Complete(h, p)'
  <2> SUFFICES ASSUME p.is = "closed", p.outcome = "completed"
               PROVE  /\ Until(p) <= clock'
                      /\ \A s \in Settlement :
                           /\ p.opened < FallsAt[s] /\ FallsAt[s] <= p.closed
                           /\ published'[s] < Until(p)
                           => <<h, s>> \in paid'
    BY DEF Complete, Until
  <2>1. p.closed \in Nat /\ Until(p) \in Nat
    BY <1>3, PaperConstants DEF Holds, NoHolding, Until
  <2>2. Until(p) <= clock
    BY <1>3 DEF Complete
  <2> QED BY <1>3, <2>1, <2>2 DEF Complete
<1>4. Complete(h, held[h])' /\ Complete(h, row[h])'
  <2>1. held[h] \in Holds /\ row[h] \in Holds
    BY DEF AccountTyped
  <2>2. Complete(h, held[h]) /\ Complete(h, row[h])
    BY DEF PositionSound
  <2> QED BY <1>3, <2>1, <2>2 DEF Complete, Until
<1> QED BY <1>2, <1>4 DEF PositionSound

(* Nothing but the cycle and time move.                                     *)
LEMMA AccountKept ==
  ASSUME AccountInv, UNCHANGED <<held, cash, tables, fresh, saving, torn>>, unsaid' = unsaid,
         published' \in [Settlement -> Nat], clock' \in Nat, clock' <= Horizon, clock <= clock',
         \A s \in Settlement : published'[s] = published[s] \/ published'[s] = clock,
         cycle' \in Places, CycleSound', cycle'.at = "down" <=> cycle.at = "down",
         cycle'.at = "saving" => cycle' = cycle
  PROVE  AccountInv'
<1>1. AccountTyped'
  BY DEF AccountInv, AccountTyped, tables
<1>2. \A h \in Holding : PositionSound(h)'
  BY PositionKept DEF AccountInv, AccountTyped, tables
<1>3. ~torn' => CapitalSound'
  BY DEF AccountInv, CapitalSound, tables, Open, RowOpen
<1> QED BY <1>1, <1>2, <1>3 DEF AccountInv

LEMMA QuietSteps ==
  ASSUME AccountInv,
         \/ Read \/ Capture \/ CycleFails \/ HourPasses \/ (\E s \in Settlement : Publish(s))
  PROVE  AccountInv'
<1>1. /\ clock \in Nat /\ clock <= Horizon /\ published \in [Settlement -> Nat]
      /\ cycle \in Places /\ Horizon \in Nat
  BY PaperConstants DEF AccountInv, AccountTyped
<1>2. CASE Read
  <2> DEFINE next == [at |-> "reading", end |-> clock]
  <2>1. /\ cycle.at = "asked" /\ unsaid = {} /\ cycle' = next
        /\ UNCHANGED <<clock, published, held, cash, unsaid, tables, fresh, saving, torn>>
    BY <1>2 DEF Read, memory
  <2>2. next \in Places /\ next.at = "reading" /\ next.end = clock
    BY <1>1 DEF Places
  <2> HIDE DEF next
  <2>3. CycleSound'
    BY <1>1, <2>1, <2>2 DEF CycleSound
  <2> QED BY <1>1, <2>1, <2>2, <2>3, AccountKept
<1>3. CASE Capture
  <2>1. PICK asked \in SUBSET Perp, history \in SUBSET Listed :
          /\ \A s \in Settlement :
               PerpOf[s] \in asked => (published[s] < cycle.end => s \in history)
          /\ cycle' = [at |-> "paying", history |-> history, read |-> asked,
                       end |-> cycle.end, captured |-> clock, left |-> Present]
    BY <1>3 DEF Capture
  <2>2. /\ cycle.at = "reading"
        /\ UNCHANGED <<clock, published, held, cash, unsaid, tables, fresh, saving, torn>>
    BY <1>3 DEF Capture, memory
  <2> DEFINE next == [at |-> "paying", history |-> history, read |-> asked,
                      end |-> cycle.end, captured |-> clock, left |-> Present]
  <2>3. cycle.end \in Nat
    BY <1>1, <2>2 DEF Places, Resting, Down
  <2>4. /\ next \in Places /\ next.at = "paying" /\ next.end = cycle.end /\ next.read = asked
        /\ next.history = history
    BY <1>1, <2>3 DEF Places, Listed, Present
  <2> HIDE DEF next
  <2>5. cycle' = next
    BY <2>1 DEF next
  <2>6. CycleSound'
    BY <2>1, <2>2, <2>4, <2>5 DEF AccountInv, CycleSound
  <2> QED BY <1>1, <2>2, <2>4, <2>5, <2>6, AccountKept
<1>4. CASE CycleFails
  <2>1. /\ cycle' = Resting /\ cycle.at # "down"
        /\ UNCHANGED <<clock, published, held, cash, unsaid, tables, fresh, saving, torn>>
    BY <1>4 DEF CycleFails, memory
  <2>2. Resting \in Places /\ Resting.at = "idle"
    BY DEF Places, Resting
  <2>3. CycleSound'
    BY <2>1, <2>2 DEF CycleSound
  <2> QED BY <1>1, <2>1, <2>2, <2>3, AccountKept
<1>5. CASE HourPasses
  <2>1. /\ clock' = clock + 1 /\ clock < Horizon
        /\ UNCHANGED <<published, held, cash, unsaid, cycle, tables, fresh, saving, torn>>
    BY <1>5 DEF HourPasses, memory
  <2>2. CycleSound'
    <3>1. cycle.at \in {"reading", "paying"} => cycle.end \in Nat
      BY <1>1 DEF Places, Resting, Down
    <3>2. cycle.at \in {"reading", "paying"} => cycle.end <= clock'
      BY <1>1, <2>1, <3>1 DEF AccountInv, CycleSound
    <3> QED BY <2>1, <3>2 DEF AccountInv, CycleSound
  <2>3. clock' \in Nat /\ clock <= clock' /\ clock' <= Horizon
    BY <1>1, <2>1
  <2> QED BY <1>1, <2>1, <2>2, <2>3, AccountKept
<1>6. ASSUME NEW s \in Settlement, Publish(s) PROVE AccountInv'
  <2>1. /\ published' = [published EXCEPT ![s] = clock]
        /\ UNCHANGED <<clock, held, cash, unsaid, cycle, tables, fresh, saving, torn>>
    BY <1>6 DEF Publish, memory
  <2>2. /\ published' \in [Settlement -> Nat]
        /\ \A t \in Settlement : published'[t] = published[t] \/ published'[t] = clock
    BY <1>1, <2>1
  <2>3. CycleSound'
    <3>1. cycle.at \in {"reading", "paying"} => cycle.end \in Nat
      BY <1>1 DEF Places, Resting, Down
    <3>2. ASSUME cycle.at = "paying", NEW t \in Settlement, published'[t] < cycle.end
          PROVE  published[t] < cycle.end
      <4>1. cycle.end <= clock /\ cycle.end \in Nat
        BY <3>1, <3>2 DEF AccountInv, CycleSound
      <4> QED BY <1>1, <2>2, <3>2, <4>1
    <3> QED BY <2>1, <3>2 DEF AccountInv, CycleSound
  <2> QED BY <1>1, <2>1, <2>2, <2>3, AccountKept
<1> QED BY <1>2, <1>3, <1>4, <1>5, <1>6
-----------------------------------------------------------------------------
OpenHold ==
  [is: {"open"}, opened: Nat, credited: [Settlement -> Nat], settled: SUBSET Settlement]

ClosedHold ==
  [is: {"closed"}, opened: Nat, closed: Nat, credited: [Settlement -> Nat],
   settled: SUBSET Settlement, poll: Nat, polls: Nat, outcome: {"none", "completed", "failed"}]

LEMMA HoldKinds ==
  /\ NoHolding.is = "none" /\ NoHolding \in Holds
  /\ \A p \in OpenHold : p \in Holds /\ p.is = "open"
  /\ \A p \in ClosedHold : p \in Holds /\ p.is = "closed"
  /\ \A p \in Holds : p = NoHolding \/ p \in OpenHold \/ p \in ClosedHold
BY DEF Holds, OpenHold, ClosedHold, NoHolding

LEMMA EarlierTyped ==
  ASSUME NEW i \in Nat, NEW j \in Nat
  PROVE  Earlier(i, j) \in Nat /\ Earlier(i, j) <= i /\ Earlier(i, j) <= j
BY DEF Earlier

(* The polls of a position change nothing that was paid to it.              *)
LEMMA ScheduledTyped ==
  ASSUME AccountTyped, NEW p \in ClosedHold
  PROVE  /\ Scheduled(p) \in ClosedHold /\ Scheduled(p).outcome = p.outcome
         /\ Scheduled(p).settled = p.settled /\ Scheduled(p).credited = p.credited
         /\ [p EXCEPT !.outcome = "failed"] \in ClosedHold
         /\ [p EXCEPT !.outcome = "failed"].outcome = "failed"
         /\ [p EXCEPT !.outcome = "failed"].settled = p.settled
         /\ [p EXCEPT !.outcome = "failed"].credited = p.credited
<1>1. clock \in Nat /\ clock + PollEvery \in Nat /\ Until(p) \in Nat
  BY PaperConstants DEF AccountTyped, ClosedHold, Until
<1>2. Earlier(clock + PollEvery, Until(p)) \in Nat
  BY <1>1, EarlierTyped
<1>3. p.polls + 1 \in Nat
  BY DEF ClosedHold
<1> QED BY <1>1, <1>2, <1>3 DEF Scheduled, ClosedHold

LEMMA AskKeeps ==
  ASSUME AccountInv, Ask
  PROVE  AccountInv'
<1>1. /\ cycle = Resting /\ cycle' = [at |-> "asked"] /\ unsaid' = unsaid \cup Spent
      /\ held' = [h \in Holding |->
                   IF h \in Spent THEN [held[h] EXCEPT !.outcome = "failed"]
                   ELSE IF h \in Due THEN Scheduled(held[h]) ELSE held[h]]
      /\ UNCHANGED <<clock, published, cash, paid, row, balance, incident, fresh, saving, torn>>
  BY DEF Ask, tables
<1>2. AccountTyped
  BY DEF AccountInv
<1>3. ASSUME NEW h \in Holding
      PROVE  \/ held'[h] = held[h]
             \/ /\ held[h] \in ClosedHold /\ held'[h] \in ClosedHold
                /\ held[h].outcome = "none" /\ held'[h].settled = held[h].settled
                /\ held'[h].credited = held[h].credited
                /\ \/ held'[h].outcome = "none"
                   \/ held'[h].outcome = "failed" /\ h \in unsaid'
  <2>1. CASE h \in Due
    <3>1. held[h] \in ClosedHold /\ held[h].outcome = "none"
      <4>1. held[h] \in Holds /\ held[h].is = "closed" /\ held[h].outcome = "none"
        BY <1>2, <2>1 DEF Due, Active, AccountTyped
      <4> QED BY <4>1, HoldKinds
    <3>2. CASE h \in Spent
      <4>1. held'[h] = [held[h] EXCEPT !.outcome = "failed"] /\ h \in unsaid'
        BY <1>1, <3>2
      <4> QED BY <1>2, <3>1, <4>1, ScheduledTyped
    <3>3. CASE h \notin Spent
      <4>1. held'[h] = Scheduled(held[h])
        BY <1>1, <2>1, <3>3
      <4> QED BY <1>2, <3>1, <4>1, ScheduledTyped
    <3> QED BY <3>2, <3>3
  <2>2. CASE h \notin Due
    BY <1>1, <2>2 DEF Spent
  <2> QED BY <2>1, <2>2
<1>4. cycle.at = "idle" /\ cycle'.at = "asked" /\ cycle' \in Places
  BY <1>1 DEF Resting, Places
<1>5. ASSUME NEW h \in Holding
      PROVE  held'[h].is = held[h].is /\ held'[h] \in Holds
  <2>1. held[h] \in Holds
    BY <1>2 DEF AccountTyped
  <2> QED BY <1>3, <2>1, HoldKinds
<1>6. AccountTyped'
  <2>1. held' = [h \in Holding |-> held'[h]]
    BY <1>1
  <2>2. held' \in [Holding -> Holds]
    BY <1>5, <2>1
  <2> QED BY <1>1, <1>2, <1>4, <2>2 DEF AccountTyped
<1>7. CycleSound'
  BY <1>4 DEF CycleSound
<1>8. ASSUME NEW h \in Holding PROVE PositionSound(h)'
  <2>1. PositionSound(h)
    BY DEF AccountInv
  <2>2. CASE held'[h] = held[h]
    BY <1>1, <1>2, <2>1, <2>2, PositionKept DEF AccountTyped
  <2>3. CASE /\ held[h] \in ClosedHold /\ held'[h] \in ClosedHold
             /\ held[h].outcome = "none" /\ held'[h].settled = held[h].settled
             /\ held'[h].credited = held[h].credited
             /\ \/ held'[h].outcome = "none"
                \/ held'[h].outcome = "failed" /\ h \in unsaid'
    <3>1. held[h].is = "closed" /\ held'[h].is = "closed"
      BY <2>3, HoldKinds
    <3>2. Marked(h)'
      BY <1>1, <2>1, <2>3, <3>1 DEF PositionSound, Marked, PaidTo
    <3>3. Complete(h, held[h])' /\ Complete(h, row[h])'
      BY <1>1, <2>1, <2>3 DEF PositionSound, Complete, Until
    <3>4. Said(h)'
      BY <1>1, <2>1, <2>3 DEF PositionSound, Said, GivenUp
    <3> QED BY <1>1, <2>1, <3>1, <3>2, <3>3, <3>4 DEF PositionSound
  <2> QED BY <1>3, <2>2, <2>3
<1>9. ~torn' => CapitalSound'
  <2>1. Open' = Open /\ RowOpen' = RowOpen
    BY <1>1, <1>5 DEF Open, RowOpen
  <2> QED BY <1>1, <1>4, <1>5, <2>1 DEF AccountInv, CapitalSound
<1> QED BY <1>6, <1>7, <1>8, <1>9 DEF AccountInv

(* A position as it is held becomes its row, when nothing is left to be     *)
(* said of it.                                                              *)
LEMMA RowSaved ==
  ASSUME AccountTyped, NEW h \in Holding, PositionSound(h),
         row' = [row EXCEPT ![h] = held[h]], UNCHANGED <<clock, published, held, paid, fresh>>,
         incident \subseteq incident', h \in incident' \/ h \notin unsaid,
         unsaid' \cup incident' = unsaid \cup incident'
  PROVE  PositionSound(h)'
<1>1. row'[h] = held[h] /\ held'[h] = held[h]
  BY DEF AccountTyped
<1>2. Marked(h)'
  BY <1>1 DEF PositionSound, Marked, PaidTo
<1>3. Complete(h, held[h])' /\ Complete(h, row[h])'
  BY <1>1 DEF PositionSound, Complete, Until
<1>4. Said(h)'
  BY <1>1 DEF PositionSound, Said, GivenUp
<1> QED BY <1>1, <1>2, <1>3, <1>4 DEF PositionSound

LEMMA SaveSteps ==
  ASSUME AccountInv, NEW h \in Holding, Tell(h) \/ Save(h)
  PROVE  AccountInv'
<1>1. /\ row' = [row EXCEPT ![h] = held[h]] /\ saving' = TRUE
      /\ UNCHANGED <<clock, published, held, cash, paid, balance, fresh, torn>>
  BY DEF Tell, Save, memory
<1>2. AccountTyped
  BY DEF AccountInv
<1>3. /\ cycle' \in Places /\ incident \subseteq incident'
      /\ (h \in incident' \/ h \notin unsaid)
      /\ unsaid' \cup incident' = unsaid \cup incident' /\ cycle.at # "down" /\ cycle'.at # "down"
      /\ CycleSound'
      /\ cycle'.at = "saving" => /\ cycle.at = "saving" /\ cycle'.left = cycle.left \ {h}
  <2>1. CASE Tell(h)
    <3>1. /\ cycle.at = "asked" /\ incident' = incident \cup {h}
          /\ \/ unsaid' = unsaid \ {h} /\ cycle' = cycle
             \/ unsaid' = unsaid /\ cycle' = Resting
      BY <2>1 DEF Tell
    <3>2. Resting \in Places /\ Resting.at = "idle"
      BY DEF Places, Resting
    <3> QED BY <1>2, <3>1, <3>2 DEF AccountTyped, CycleSound
  <2>2. CASE Save(h)
    <3>1. /\ cycle.at = "saving" /\ cycle' = [cycle EXCEPT !.left = @ \ {h}]
          /\ unsaid' = unsaid /\ incident' = incident
      BY <2>2 DEF Save, memory
    <3>2. cycle \in [at: {"saving"}, left: SUBSET Holding]
      BY <1>2, <3>1 DEF AccountTyped, Places, Resting, Down
    <3>3. cycle' \in [at: {"saving"}, left: SUBSET Holding] /\ cycle'.left = cycle.left \ {h}
      BY <3>1, <3>2
    <3>4. unsaid = {}
      BY <3>1 DEF AccountInv, CycleSound
    <3> QED BY <3>1, <3>3, <3>4 DEF CycleSound, Places
  <2> QED BY <2>1, <2>2
<1>4. AccountTyped'
  BY <1>1, <1>2, <1>3 DEF AccountTyped
<1>5. ASSUME NEW g \in Holding PROVE PositionSound(g)'
  <2>1. CASE g = h
    BY <1>1, <1>2, <1>3, <2>1, RowSaved DEF AccountInv
  <2>2. CASE g # h
    <3>1. row'[g] = row[g] /\ held'[g] = held[g]
      BY <1>1, <1>2, <2>2 DEF AccountTyped
    <3>2. unsaid \cup incident \subseteq unsaid' \cup incident'
      BY <1>3
    <3> QED BY <1>1, <1>2, <1>3, <3>1, <3>2, PositionKept DEF AccountInv, AccountTyped
  <2> QED BY <2>1, <2>2
<1>6. ~torn' => CapitalSound'
  <2> SUFFICES ASSUME ~torn PROVE CapitalSound'
    BY <1>1
  <2>1. CapitalSound
    BY DEF AccountInv
  <2>2. \A g \in Holding : row'[g] = IF g = h THEN held[h] ELSE row[g]
    BY <1>1, <1>2 DEF AccountTyped
  <2>3. Open' = Open
    BY <1>1 DEF Open
  <2> QED BY <1>1, <1>3, <2>1, <2>2, <2>3 DEF CapitalSound
<1> QED BY <1>3, <1>4, <1>5, <1>6 DEF AccountInv

LEMMA SaveBalanceKeeps ==
  ASSUME AccountInv, SaveBalance
  PROVE  AccountInv'
<1>1. /\ cycle.at = "saving" /\ cycle.left = {} /\ cycle' = Resting /\ balance' = cash
      /\ saving' = FALSE
      /\ UNCHANGED <<clock, published, held, cash, unsaid, paid, row, incident, fresh, torn>>
  BY DEF SaveBalance, memory
<1>2. AccountTyped
  BY DEF AccountInv
<1>3. cycle' \in Places /\ cycle'.at = "idle"
  BY <1>1 DEF Places, Resting
<1>4. AccountTyped' /\ CycleSound'
  BY <1>1, <1>2, <1>3 DEF AccountTyped, CycleSound
<1>5. \A h \in Holding : PositionSound(h)'
  BY <1>1, <1>2, PositionKept DEF AccountInv, AccountTyped
<1>6. ~torn' => CapitalSound'
  <2> SUFFICES ASSUME ~torn PROVE CapitalSound'
    BY <1>1
  <2>1. CapitalSound
    BY DEF AccountInv
  <2>2. \A h \in Holding : row[h].is = "open" <=> held[h].is = "open"
    BY <1>1, <2>1 DEF CapitalSound
  <2>3. Open' = Open /\ RowOpen' = Open
    BY <1>1, <2>2 DEF Open, RowOpen
  <2>4. cash \in Nat /\ balance' # NoBalance
    BY <1>1, <1>2 DEF AccountTyped, NoBalance
  <2> QED BY <1>1, <1>3, <2>1, <2>3, <2>4 DEF CapitalSound
<1> QED BY <1>4, <1>5, <1>6 DEF AccountInv

LEMMA DieKeeps ==
  ASSUME AccountInv, Die
  PROVE  AccountInv'
<1>1. /\ cycle' = Down /\ held' = [h \in Holding |-> NoHolding] /\ cash' = 0 /\ unsaid' = {}
      /\ torn' = (torn \/ saving)
      /\ UNCHANGED <<clock, published, paid, row, balance, incident, fresh, saving>>
  BY DEF Die, tables
<1>2. AccountTyped
  BY DEF AccountInv
<1>3. cycle' \in Places /\ cycle'.at = "down"
  BY <1>1 DEF Places, Down
<1>4. AccountTyped' /\ CycleSound'
  BY <1>1, <1>2, <1>3, HoldKinds DEF AccountTyped, CycleSound
<1>5. ASSUME NEW h \in Holding PROVE PositionSound(h)'
  <2>1. PositionSound(h) /\ held'[h].is = "none"
    BY <1>1, HoldKinds DEF AccountInv
  <2> QED BY <1>1, <2>1 DEF PositionSound, Marked, Complete, Said, GivenUp, Until, PaidTo
<1>6. ~torn' => CapitalSound'
  BY <1>1, <1>3 DEF AccountInv, CapitalSound, RowOpen
<1> QED BY <1>4, <1>5, <1>6 DEF AccountInv
-----------------------------------------------------------------------------
PayingCycle ==
  [at: {"paying"}, history: SUBSET Settlement, read: SUBSET Perp, end: Nat, captured: Nat,
   left: SUBSET Holding]

LEMMA PayingTyped ==
  ASSUME AccountTyped, cycle.at = "paying"
  PROVE  cycle \in PayingCycle
BY DEF AccountTyped, Places, PayingCycle, Resting, Down

(* A settlement is credited once: one that is owed has no mark yet, and     *)
(* gets it together with its payment.                                       *)
LEMMA PayKeeps ==
  ASSUME AccountInv, NEW h \in Holding, NEW s \in Settlement, Pay(h, s)
  PROVE  AccountInv'
<1>1. /\ cycle.at = "paying" /\ s \in Owed(h) /\ paid' = paid \cup {<<h, s>>}
      /\ \/ held' = [held EXCEPT ![h] = Credited(held[h], s)] /\ cycle' = cycle
         \/ cycle' = Resting /\ held' = held
      /\ UNCHANGED <<clock, published, cash, unsaid, row, balance, incident, fresh, saving, torn>>
  BY DEF Pay
<1>2. AccountTyped /\ CycleSound /\ PositionSound(h)
  BY DEF AccountInv
<1>3. /\ s \notin held[h].settled
      /\ held[h].is = "open" \/ (held[h].is = "closed" /\ held[h].outcome = "none")
  BY <1>1 DEF Owed, Active
<1>4. cycle' \in Places /\ CycleSound' /\ cycle'.at \in {"paying", "idle"}
  BY <1>1, <1>2 DEF AccountTyped, CycleSound, Places, Resting
<1>5. held[h] \in OpenHold \/ held[h] \in ClosedHold
  <2>1. held[h] \in Holds
    BY <1>2 DEF AccountTyped
  <2> QED BY <1>3, <2>1, HoldKinds
<1>6. \A t \in Settlement : held[h].credited[t] = IF t \in held[h].settled THEN 1 ELSE 0
  BY <1>2, <1>3 DEF PositionSound, Marked
<1> DEFINE p == Credited(held[h], s)
<1>7. /\ p \in OpenHold \/ p \in ClosedHold
      /\ p.is = held[h].is /\ p.settled = held[h].settled \cup {s}
      /\ \A t \in Settlement : p.credited[t] = IF t \in held[h].settled \cup {s} THEN 1 ELSE 0
      /\ p.is = "closed" => p.outcome = "none"
  <2>1. held[h].credited \in [Settlement -> Nat] /\ held[h].settled \subseteq Settlement
    BY <1>5 DEF OpenHold, ClosedHold
  <2> DEFINE credits == [held[h].credited EXCEPT ![s] = 1]
  <2>2. p = [held[h] EXCEPT !.credited = credits, !.settled = held[h].settled \cup {s}]
    <3>1. Earlier(held[h].credited[s] + 1, 2) = 1
      BY <1>3, <1>6 DEF Earlier
    <3> QED BY <3>1 DEF Credited
  <2>3. /\ credits \in [Settlement -> Nat]
        /\ \A t \in Settlement : credits[t] = IF t \in held[h].settled \cup {s} THEN 1 ELSE 0
    BY <1>6, <2>1
  <2> HIDE DEF credits, p
  <2>4. CASE held[h] \in OpenHold
    BY <2>1, <2>2, <2>3, <2>4 DEF OpenHold
  <2>5. CASE held[h] \in ClosedHold
    BY <1>3, <2>1, <2>2, <2>3, <2>5 DEF ClosedHold
  <2> QED BY <1>5, <2>4, <2>5
<1> HIDE DEF p
<1>8. ASSUME NEW g \in Holding
      PROVE  /\ held'[g] = held[g] \/ (g = h /\ held'[g] = p)
             /\ held'[g] \in Holds /\ held'[g].is = held[g].is
  <2>1. held'[g] = held[g] \/ (g = h /\ held'[g] = p)
    BY <1>1, <1>2 DEF AccountTyped, p
  <2>2. held[g] \in Holds
    BY <1>2 DEF AccountTyped
  <2> QED BY <1>7, <2>1, <2>2, HoldKinds
<1>9. AccountTyped'
  <2>1. held' \in [Holding -> Holds]
    <3>1. held' = [g \in Holding |-> held'[g]]
      BY <1>1, <1>2 DEF AccountTyped
    <3> QED BY <1>8, <3>1
  <2> QED BY <1>1, <1>2, <1>4, <2>1 DEF AccountTyped
<1>10. ASSUME NEW g \in Holding PROVE PositionSound(g)'
  <2>1. CASE held'[g] = held[g]
    <3>1. paid \subseteq paid' /\ clock \in Nat
      BY <1>1, <1>2 DEF AccountTyped
    <3> QED BY <1>1, <1>2, <2>1, <3>1, PositionKept DEF AccountInv
  <2>2. CASE g = h /\ held'[g] = p
    <3>1. PaidTo(h)' = PaidTo(h) \cup {s}
      BY <1>1 DEF PaidTo
    <3>2. Marked(h)'
      BY <1>1, <1>2, <1>3, <1>7, <2>2, <3>1 DEF PositionSound, Marked
    <3>3. Complete(h, held[h])'
      BY <1>7, <2>2 DEF Complete
    <3>4. Complete(h, row[h])'
      BY <1>1, <1>2 DEF PositionSound, Complete, Until
    <3>5. Said(h)'
      BY <1>1, <1>2, <1>7, <2>2 DEF PositionSound, Said, GivenUp
    <3> QED BY <1>1, <1>2, <1>3, <2>2, <3>2, <3>3, <3>4, <3>5 DEF PositionSound
  <2> QED BY <1>8, <2>1, <2>2
<1>11. ~torn' => CapitalSound'
  <2>1. Open' = Open /\ RowOpen' = RowOpen
    BY <1>1, <1>8 DEF Open, RowOpen
  <2> QED BY <1>1, <1>4, <1>8, <2>1 DEF AccountInv, CapitalSound
<1> QED BY <1>4, <1>9, <1>10, <1>11 DEF AccountInv

(* A poll that is fresh enough read every settlement listed before the      *)
(* deadline, and nothing of it is owed any more.                            *)
LEMMA PolledIsComplete ==
  ASSUME AccountInv, cycle.at = "paying", NEW h \in Holding, Owed(h) = {}, Active(h),
         FreshEnough(h)
  PROVE  /\ Until(held[h]) <= clock
         /\ \A s \in Settlement :
              /\ held[h].opened < FallsAt[s] /\ FallsAt[s] <= held[h].closed
              /\ published[s] < Until(held[h])
              => <<h, s>> \in paid
<1>1. AccountTyped /\ CycleSound /\ PositionSound(h)
  BY DEF AccountInv
<1>2. cycle \in PayingCycle /\ clock \in Nat /\ published \in [Settlement -> Nat]
  BY <1>1, PayingTyped DEF AccountTyped
<1>3. held[h] \in ClosedHold
  <2>1. held[h] \in Holds /\ held[h].is = "closed"
    BY <1>1 DEF AccountTyped, Active
  <2> QED BY <2>1, HoldKinds
<1>4. held[h].closed \in Nat /\ Until(held[h]) = held[h].closed + Window /\ Window \in Nat
  BY <1>3, PaperConstants DEF ClosedHold, Until
<1>5. /\ cycle.captured >= Until(held[h]) /\ cycle.read = Perp /\ cycle.end >= Until(held[h])
      /\ cycle.captured \in Nat /\ cycle.end \in Nat /\ cycle.end <= clock
  BY <1>1, <1>2 DEF FreshEnough, PayingCycle, CycleSound
<1>6. ASSUME NEW s \in Settlement, held[h].opened < FallsAt[s], FallsAt[s] <= held[h].closed,
             published[s] < Until(held[h])
      PROVE  <<h, s>> \in paid
  <2>1. PerpOf[s] \in cycle.read /\ published[s] < cycle.end
    BY <1>2, <1>4, <1>5, <1>6, PaperConstants
  <2>2. s \in cycle.history
    BY <1>1, <2>1 DEF CycleSound
  <2>3. EffectiveEnd(h) = held[h].closed
    <3>1. held[h].is # "open" /\ held[h].closed <= cycle.captured
      BY <1>4, <1>5 DEF Active
    <3> QED BY <1>4, <1>5, <3>1 DEF EffectiveEnd, Earlier
  <2>4. s \in held[h].settled
    BY <1>6, <2>2, <2>3 DEF Owed
  <2>5. held[h].settled \subseteq PaidTo(h)
    BY <1>1 DEF PositionSound, Marked, Active
  <2> QED BY <2>4, <2>5 DEF PaidTo
<1> QED BY <1>2, <1>4, <1>5, <1>6

LEMMA PolledKeeps ==
  ASSUME AccountInv, NEW h \in Holding, Polled(h)
  PROVE  AccountInv'
<1>1. /\ cycle.at = "paying" /\ Owed(h) = {} /\ cycle' = [cycle EXCEPT !.left = @ \ {h}]
      /\ IF Active(h) /\ FreshEnough(h)
         THEN held' = [held EXCEPT ![h].outcome = "completed"] ELSE held' = held
      /\ UNCHANGED <<clock, published, cash, unsaid, paid, row, balance, incident, fresh,
                     saving, torn>>
  BY DEF Polled, tables
<1>2. AccountTyped /\ CycleSound /\ PositionSound(h)
  BY DEF AccountInv
<1>3. /\ cycle'.at = "paying" /\ cycle'.end = cycle.end /\ cycle'.read = cycle.read
      /\ cycle'.history = cycle.history /\ cycle' \in Places
  <2>1. cycle \in PayingCycle
    BY <1>1, <1>2, PayingTyped
  <2> QED BY <1>1, <2>1 DEF PayingCycle, Places
<1>4. CycleSound'
  BY <1>1, <1>2, <1>3 DEF CycleSound
<1>5. CASE ~(Active(h) /\ FreshEnough(h))
  <2>1. AccountTyped' /\ clock \in Nat
    BY <1>1, <1>2, <1>3, <1>5 DEF AccountTyped
  <2>2. \A g \in Holding : PositionSound(g)'
    BY <1>1, <1>2, <1>5, <2>1, PositionKept DEF AccountInv
  <2>3. ~torn' => CapitalSound'
    BY <1>1, <1>3, <1>5 DEF AccountInv, CapitalSound, Open, RowOpen
  <2> QED BY <1>4, <2>1, <2>2, <2>3 DEF AccountInv
<1>6. CASE Active(h) /\ FreshEnough(h)
  <2> DEFINE p == [held[h] EXCEPT !.outcome = "completed"]
  <2>1. held[h] \in ClosedHold
    <3>1. held[h] \in Holds /\ held[h].is = "closed"
      BY <1>2, <1>6 DEF AccountTyped, Active
    <3> QED BY <3>1, HoldKinds
  <2>2. /\ p \in ClosedHold /\ p.settled = held[h].settled /\ p.credited = held[h].credited
        /\ p.opened = held[h].opened /\ p.closed = held[h].closed /\ p.outcome = "completed"
    BY <2>1 DEF ClosedHold
  <2>3. held' = [held EXCEPT ![h] = p]
    BY <1>1, <1>6
  <2> HIDE DEF p
  <2>4. \A g \in Holding : held'[g] = IF g = h THEN p ELSE held[g]
    BY <1>2, <2>3 DEF AccountTyped
  <2>5. p.is = "closed" /\ held[h].is = "closed" /\ p \in Holds
    BY <2>1, <2>2, HoldKinds
  <2>6. AccountTyped' /\ clock \in Nat
    BY <1>1, <1>2, <1>3, <2>3, <2>5 DEF AccountTyped
  <2>7. PositionSound(h)'
    <3>1. Marked(h)'
      BY <1>1, <1>2, <2>2, <2>4, <2>5 DEF PositionSound, Marked, PaidTo
    <3>2. Complete(h, held[h])'
      <4>1. /\ Until(held[h]) <= clock
            /\ \A s \in Settlement :
                 /\ held[h].opened < FallsAt[s] /\ FallsAt[s] <= held[h].closed
                 /\ published[s] < Until(held[h])
                 => <<h, s>> \in paid
        BY <1>1, <1>6, PolledIsComplete
      <4>2. held'[h] = p
        BY <2>4
      <4> QED BY <1>1, <2>2, <4>1, <4>2 DEF Complete, Until
    <3>3. Complete(h, row[h])'
      BY <1>1, <1>2 DEF PositionSound, Complete, Until
    <3>4. Said(h)'
      BY <1>1, <1>2, <2>2, <2>4 DEF PositionSound, Said, GivenUp
    <3> QED BY <1>1, <1>2, <2>5, <3>1, <3>2, <3>3, <3>4 DEF PositionSound
  <2>8. ASSUME NEW g \in Holding, g # h PROVE PositionSound(g)'
    BY <1>1, <1>2, <2>4, <2>6, <2>8, PositionKept DEF AccountInv
  <2>9. ~torn' => CapitalSound'
    <3>1. \A g \in Holding : held'[g].is = held[g].is
      BY <2>4, <2>5
    <3>2. Open' = Open /\ RowOpen' = RowOpen
      BY <1>1, <3>1 DEF Open, RowOpen
    <3> QED BY <1>1, <1>3, <3>1, <3>2 DEF AccountInv, CapitalSound
  <2> QED BY <1>4, <2>6, <2>7, <2>8, <2>9 DEF AccountInv
<1> QED BY <1>5, <1>6
-----------------------------------------------------------------------------
(* A close gives its unit of capital back, an opening takes one.            *)
LEMMA TradeKeeps ==
  ASSUME AccountInv, Trade
  PROVE  AccountInv'
<1>1. PICK out \in SUBSET Open, in \in SUBSET fresh :
        /\ Cardinality(in) <= cash + Cardinality(out)
        /\ held' = [h \in Holding |-> IF h \in out THEN Closed(held[h])
                                      ELSE IF h \in in THEN NewHolding ELSE held[h]]
        /\ cash' = cash + Cardinality(out) - Cardinality(in)
        /\ fresh' = fresh \ in
        /\ cycle' = [at |-> "saving", left |-> Present \cup in]
  BY DEF Trade
<1>2. /\ cycle.at = "paying"
      /\ UNCHANGED <<clock, published, unsaid, paid, row, balance, incident, saving, torn>>
  BY DEF Trade, tables
<1>3. AccountTyped /\ CycleSound /\ \A h \in Holding : PositionSound(h)
  BY DEF AccountInv
<1>4. cycle \in PayingCycle /\ clock \in Nat
  BY <1>2, <1>3, PayingTyped DEF AccountTyped
<1>5. /\ cycle'.at = "saving" /\ cycle' \in Places /\ CycleSound'
      /\ cycle'.left = Present \cup in
  <2>1. Present \cup in \subseteq Holding
    BY <1>3 DEF Present, AccountTyped
  <2> DEFINE next == [at |-> "saving", left |-> Present \cup in]
  <2>2. next \in Places /\ next.at = "saving" /\ next.left = Present \cup in
    BY <2>1 DEF Places
  <2> HIDE DEF next
  <2>3. cycle' = next
    BY <1>1 DEF next
  <2> QED BY <1>2, <1>3, <2>2, <2>3 DEF CycleSound
<1>6. ASSUME NEW h \in out
      PROVE  /\ h \in Holding /\ held[h].is = "open" /\ held'[h] \in ClosedHold
             /\ held'[h].outcome = "none" /\ held'[h].settled = held[h].settled
             /\ held'[h].credited = held[h].credited
  <2>1. h \in Holding /\ held[h].is = "open" /\ held'[h] = Closed(held[h])
    BY <1>1 DEF Open
  <2>2. held[h] \in OpenHold
    BY <1>3, <2>1, HoldKinds DEF AccountTyped
  <2>3. Earlier(cycle.captured, clock + Window) \in Nat
    <3>1. cycle.captured \in Nat /\ clock + Window \in Nat
      BY <1>4, PaperConstants DEF PayingCycle
    <3> QED BY <3>1, EarlierTyped
  <2> QED BY <1>4, <2>1, <2>2, <2>3 DEF Closed, OpenHold, ClosedHold
<1>7. ASSUME NEW h \in in
      PROVE  /\ h \in Holding /\ held[h].is = "none" /\ row[h].is = "none" /\ h \notin out
             /\ held'[h] \in OpenHold /\ held'[h].settled = {}
             /\ \A s \in Settlement : held'[h].credited[s] = 0
  <2>1. h \in Holding /\ held[h].is = "none" /\ row[h].is = "none"
    BY <1>1, <1>3 DEF AccountTyped, PositionSound
  <2>2. h \notin out
    BY <1>6, <2>1
  <2>3. held'[h] = NewHolding
    BY <1>1, <2>1, <2>2
  <2> QED BY <1>4, <2>1, <2>2, <2>3 DEF NewHolding, OpenHold
<1>8. ASSUME NEW h \in Holding, h \notin out, h \notin in PROVE held'[h] = held[h]
  BY <1>1, <1>8
<1>9. IsFiniteSet(Open) /\ IsFiniteSet(out) /\ IsFiniteSet(in)
  <2>1. Open \subseteq Holding /\ out \subseteq Holding /\ in \subseteq Holding
    BY <1>6, <1>7 DEF Open
  <2> QED BY <2>1, FS_Subset, PaperConstants
<1>10. Cardinality(Open') = Cardinality(Open) - Cardinality(out) + Cardinality(in)
       /\ Cardinality(Open) \in Nat /\ Cardinality(out) \in Nat /\ Cardinality(in) \in Nat
  <2>1. Open' = (Open \ out) \cup in
    <3>1. ASSUME NEW h \in Holding PROVE h \in Open' <=> h \in (Open \ out) \cup in
      BY <1>6, <1>7, <1>8, HoldKinds DEF Open
    <3>2. Open' \subseteq Holding /\ (Open \ out) \cup in \subseteq Holding
      BY <1>7 DEF Open
    <3> QED BY <3>1, <3>2
  <2>2. IsFiniteSet(Open \ out) /\ Cardinality(Open \ out) = Cardinality(Open) - Cardinality(out)
    <3>1. Open \cap out = out
      BY <1>1
    <3> QED BY <1>9, <3>1, FS_Difference
  <2>3. (Open \ out) \cap in = {}
    BY <1>7 DEF Open
  <2>4. Cardinality((Open \ out) \cup in)
          = Cardinality(Open \ out) + Cardinality(in) - Cardinality((Open \ out) \cap in)
    BY <1>9, <2>2, FS_Union
  <2>5. Cardinality(Open) \in Nat /\ Cardinality(out) \in Nat /\ Cardinality(in) \in Nat
    BY <1>9, FS_CardinalityType
  <2>6. Cardinality((Open \ out) \cap in) = 0
    BY <2>3, FS_EmptySet
  <2>7. Cardinality(Open') = Cardinality((Open \ out) \cup in)
    BY <2>1
  <2> QED BY <2>2, <2>4, <2>5, <2>6, <2>7
<1>11. AccountTyped'
  <2>1. \A h \in Holding : held'[h] \in Holds
    BY <1>3, <1>6, <1>7, <1>8, HoldKinds DEF AccountTyped
  <2>2. held' \in [Holding -> Holds]
    BY <1>1, <2>1
  <2>3. cash' \in Nat
    BY <1>1, <1>3, <1>10 DEF AccountTyped
  <2> QED BY <1>1, <1>2, <1>3, <1>5, <2>2, <2>3 DEF AccountTyped
<1>12. ASSUME NEW h \in Holding PROVE PositionSound(h)'
  <2>1. PositionSound(h) /\ PaidTo(h)' = PaidTo(h)
    BY <1>2, <1>3 DEF PaidTo
  <2>2. Complete(h, row[h])'
    BY <1>2, <2>1 DEF PositionSound, Complete, Until
  <2>3. CASE h \in out
    <3>1. held'[h].is = "closed" /\ h \notin fresh
      BY <1>6, <2>1, <2>3, HoldKinds DEF PositionSound
    <3>2. Marked(h)'
      BY <1>2, <1>6, <2>1, <2>3 DEF PositionSound, Marked
    <3>3. Complete(h, held[h])' /\ Said(h)'
      BY <1>2, <1>6, <2>1, <2>3 DEF PositionSound, Complete, Said, GivenUp
    <3> QED BY <1>1, <2>2, <3>1, <3>2, <3>3 DEF PositionSound
  <2>4. CASE h \in in
    <3>1. held'[h].is = "open" /\ h \notin fresh'
      BY <1>1, <1>7, <2>4, HoldKinds
    <3>2. Marked(h)'
      BY <1>2, <1>7, <2>4 DEF Marked
    <3>3. Complete(h, held[h])' /\ Said(h)'
      BY <1>2, <2>1, <3>1 DEF PositionSound, Complete, Said, GivenUp
    <3> QED BY <2>2, <3>1, <3>2, <3>3 DEF PositionSound
  <2>5. CASE h \notin out /\ h \notin in
    <3>1. held'[h] = held[h] /\ fresh' \subseteq fresh
      BY <1>1, <1>8, <2>5
    <3> QED BY <1>2, <1>3, <1>4, <2>1, <3>1, PositionKept
  <2> QED BY <2>3, <2>4, <2>5
<1>13. ~torn' => CapitalSound'
  <2> SUFFICES ASSUME ~torn PROVE CapitalSound'
    BY <1>2
  <2>1. CapitalSound
    BY DEF AccountInv
  <2>2. cash + Cardinality(Open) = Capital /\ cash \in Nat
    BY <1>2, <1>3, <2>1 DEF CapitalSound, AccountTyped
  <2>3. cash' + Cardinality(Open') = Capital
    BY <1>1, <1>10, <2>2
  <2>4. ASSUME NEW h \in Holding, held'[h].is = "none" PROVE held[h].is = "none"
    BY <1>6, <1>7, <1>8, <2>4, HoldKinds
  <2>5. ASSUME NEW h \in Holding \ cycle'.left, held'[h].is # "none" PROVE FALSE
    <3>1. h \notin in /\ held[h].is = "none"
      BY <1>5, <2>5 DEF Present
    <3>2. h \notin out
      BY <1>6, <3>1
    <3> QED BY <1>8, <2>5, <3>1, <3>2
  <2>6. RowOpen' = RowOpen
    BY <1>2 DEF RowOpen
  <2> QED BY <1>2, <1>5, <2>1, <2>3, <2>4, <2>5, <2>6 DEF CapitalSound
<1> QED BY <1>5, <1>11, <1>12, <1>13 DEF AccountInv

(* What is restored of a position is what its row and its payments say.     *)
LEMMA LoadedSound ==
  ASSUME NEW h \in Holding, row[h] \in Holds, row[h].is # "none"
  PROVE  /\ Loaded(h) \in OpenHold \/ Loaded(h) \in ClosedHold
         /\ Loaded(h).is = row[h].is
         /\ Loaded(h).settled = row[h].settled \cup PaidTo(h)
         /\ \A s \in Settlement : Loaded(h).credited[s] = IF s \in PaidTo(h) THEN 1 ELSE 0
         /\ row[h].is = "closed" =>
              /\ Loaded(h).outcome = row[h].outcome /\ Loaded(h).opened = row[h].opened
              /\ Loaded(h).closed = row[h].closed
<1> DEFINE credits == [s \in Settlement |-> IF s \in PaidTo(h) THEN 1 ELSE 0]
<1>1. credits \in [Settlement -> Nat] /\ PaidTo(h) \subseteq Settlement
  BY DEF PaidTo
<1>2. \A s \in Settlement : credits[s] = IF s \in PaidTo(h) THEN 1 ELSE 0
  OBVIOUS
<1>3. Loaded(h) = [row[h] EXCEPT !.credited = credits, !.settled = row[h].settled \cup PaidTo(h)]
  BY DEF Loaded
<1> HIDE DEF credits
<1>4. row[h] \in OpenHold \/ row[h] \in ClosedHold
  BY HoldKinds
<1>5. CASE row[h] \in OpenHold
  BY <1>1, <1>2, <1>3, <1>5 DEF OpenHold
<1>6. CASE row[h] \in ClosedHold
  BY <1>1, <1>2, <1>3, <1>6 DEF ClosedHold
<1> QED BY <1>4, <1>5, <1>6

LEMMA RestoreKeeps ==
  ASSUME AccountInv, Restore
  PROVE  AccountInv'
<1> DEFINE Saved == {h \in Holding : row[h].is # "none"}
<1>1. /\ cycle = Down /\ cycle' = Resting
      /\ UNCHANGED <<clock, published, unsaid, paid, row, balance, incident, fresh, saving, torn>>
  BY DEF Restore, tables
<1>2. AccountTyped /\ \A h \in Holding : PositionSound(h)
  BY DEF AccountInv
<1>3. PICK kept \in SUBSET Saved :
        /\ held' = [h \in Holding |-> IF h \in kept THEN Loaded(h) ELSE NoHolding]
        /\ \/ balance # NoBalance /\ kept = Saved /\ cash' = balance
           \/ /\ balance = NoBalance
              /\ Cardinality(kept) = Earlier(Capital, Cardinality(Saved))
              /\ cash' = Capital - Cardinality(kept)
  <2>1. CASE balance # NoBalance
    BY <2>1 DEF Restore
  <2>2. CASE balance = NoBalance
    BY <2>2 DEF Restore
  <2> QED BY <2>1, <2>2
<1>4. cycle.at = "down" /\ cycle'.at = "idle" /\ cycle' \in Places
  BY <1>1 DEF Down, Resting, Places
<1>5. cash' \in Nat
  <2>1. CASE balance # NoBalance
    BY <1>2, <1>3, <2>1 DEF AccountTyped
  <2>2. CASE balance = NoBalance
    <3>1. Cardinality(Saved) \in Nat
      <4>1. Saved \subseteq Holding
        OBVIOUS
      <4>2. IsFiniteSet(Saved)
        BY <4>1, FS_Subset, PaperConstants
      <4> QED BY <4>2, FS_CardinalityType
    <3>2. Earlier(Capital, Cardinality(Saved)) \in Nat
          /\ Earlier(Capital, Cardinality(Saved)) <= Capital
      BY <3>1, EarlierTyped, PaperConstants
    <3> QED BY <1>3, <2>2, <3>2, PaperConstants
  <2> QED BY <2>1, <2>2
<1>6. ASSUME NEW h \in Holding
      PROVE  /\ held'[h] = NoHolding \/ (h \in kept /\ row[h].is # "none" /\ held'[h] = Loaded(h))
             /\ held'[h] \in Holds
  <2>1. row[h] \in Holds
    BY <1>2 DEF AccountTyped
  <2>2. h \in kept => row[h].is # "none"
    BY <1>3
  <2> HIDE DEF Saved
  <2> QED BY <1>3, <2>1, <2>2, LoadedSound, HoldKinds
<1>7. AccountTyped' /\ CycleSound'
  <2>1. held' \in [Holding -> Holds]
    BY <1>3, <1>6
  <2> QED BY <1>1, <1>2, <1>4, <1>5, <2>1 DEF AccountTyped, CycleSound
<1>8. ASSUME NEW h \in Holding PROVE PositionSound(h)'
  <2>1. PositionSound(h) /\ PaidTo(h)' = PaidTo(h) /\ row[h] \in Holds
    BY <1>1, <1>2 DEF PaidTo, AccountTyped
  <2>2. Complete(h, row[h])' /\ (GivenUp(row[h]) => h \in incident)
    BY <1>1, <2>1 DEF PositionSound, Complete, Until, Said
  <2>3. CASE held'[h] = NoHolding
    BY <1>1, <2>1, <2>2, <2>3, HoldKinds DEF PositionSound, Marked, Complete, Said, GivenUp
  <2>4. CASE row[h].is # "none" /\ held'[h] = Loaded(h)
    <3>1. /\ Loaded(h).is = row[h].is
          /\ Loaded(h).settled = row[h].settled \cup PaidTo(h)
          /\ \A s \in Settlement : Loaded(h).credited[s] = IF s \in PaidTo(h) THEN 1 ELSE 0
          /\ row[h].is = "closed" =>
               /\ Loaded(h).outcome = row[h].outcome /\ Loaded(h).opened = row[h].opened
               /\ Loaded(h).closed = row[h].closed
      BY <2>1, <2>4, LoadedSound
    <3>2. row[h].settled \subseteq PaidTo(h)
      BY <2>1, <2>4 DEF PositionSound, Marked
    <3>3. Loaded(h).settled = PaidTo(h)
      BY <3>1, <3>2
    <3>4. Marked(h)'
      BY <1>1, <2>1, <2>4, <3>1, <3>2, <3>3 DEF Marked
    <3>5. Complete(h, held[h])'
      BY <1>1, <2>1, <2>4, <3>1 DEF PositionSound, Complete, Until
    <3>6. Said(h)'
      BY <1>1, <2>2, <2>4, <3>1 DEF Said, GivenUp
    <3>7. h \notin fresh
      BY <2>1, <2>4 DEF PositionSound
    <3> QED BY <1>1, <2>2, <3>4, <3>5, <3>6, <3>7 DEF PositionSound
  <2> QED BY <1>6, <2>3, <2>4
<1>9. ~torn' => CapitalSound'
  <2> SUFFICES ASSUME ~torn PROVE CapitalSound'
    BY <1>1
  <2>1. CapitalSound /\ ~saving
    BY <1>4 DEF AccountInv, CapitalSound
  <2>2. RowOpen' = RowOpen
    BY <1>1 DEF RowOpen
  <2>3. CASE balance # NoBalance
    <3>1. ASSUME NEW h \in Holding
          PROVE  held'[h].is = row[h].is
      <4>1. row[h] \in Holds
        BY <1>2 DEF AccountTyped
      <4> QED BY <1>3, <1>6, <2>3, <4>1, LoadedSound, HoldKinds
    <3>2. Open' = RowOpen
      BY <3>1 DEF Open, RowOpen
    <3>3. \A h \in Holding : held'[h].is = "none" => row'[h].is = "none"
      BY <1>1, <3>1
    <3> QED BY <1>1, <1>3, <1>4, <2>1, <2>2, <2>3, <3>2, <3>3 DEF CapitalSound
  <2>4. CASE balance = NoBalance
    <3>1. \A h \in Holding : row[h].is = "none"
      BY <2>1, <2>4 DEF CapitalSound
    <3>2. kept = {}
      BY <1>3, <3>1
    <3>3. cash' = Capital
      BY <1>3, <2>4, <3>2, FS_EmptySet, PaperConstants
    <3>4. Open' = {}
      BY <1>6, <3>1, HoldKinds DEF Open
    <3>5. Cardinality(Open') = 0
      BY <3>4, FS_EmptySet
    <3> QED BY <1>1, <1>4, <2>1, <2>4, <3>1, <3>3, <3>5, PaperConstants DEF CapitalSound
  <2> QED BY <2>3, <2>4
<1> QED BY <1>7, <1>8, <1>9 DEF AccountInv
-----------------------------------------------------------------------------
LEMMA AccountHolds == PaperSpec => []AccountInv
<1>1. ASSUME AccountInv, [PaperNext]_paper PROVE AccountInv'
  <2>1. CASE UNCHANGED paper
    <3>1. /\ UNCHANGED <<held, cash, tables, fresh, saving, torn>> /\ unsaid' = unsaid
          /\ clock' = clock /\ published' = published /\ cycle' = cycle
      BY <2>1 DEF paper, tables
    <3>2. CycleSound' /\ published \in [Settlement -> Nat] /\ clock \in Nat /\ clock <= Horizon
          /\ cycle \in Places
      BY <1>1, <3>1 DEF AccountInv, AccountTyped, CycleSound
    <3> QED BY <1>1, <3>1, <3>2, AccountKept
  <2> QED BY <1>1, <2>1, AskKeeps, QuietSteps, TradeKeeps, SaveBalanceKeeps, DieKeeps, RestoreKeeps,
             SaveSteps, PolledKeeps, PayKeeps DEF PaperNext
<1> QED BY AccountStarts, <1>1, PTL DEF PaperSpec

(* AccountIsTrue: for any positions, settlements and capital, over failures *)
(* of any call and restarts, what the account was credited is what the      *)
(* payments say, each once, and its capital is free or in a position,       *)
(* unless the process ended while the positions were saved and the balance  *)
(* was not.                                                                 *)
THEOREM NoMoneyIsMade == PaperSpec => []AccountIsTrue
<1>1. AccountInv => AccountIsTrue
  <2> SUFFICES ASSUME AccountInv, cycle # Down PROVE AccountIsTrue
    BY DEF AccountIsTrue
  <2>1. cycle.at # "down"
    BY DEF AccountInv, AccountTyped, Places, Resting, Down
  <2>2. ASSUME NEW h \in Present, NEW s \in Settlement
        PROVE  held[h].credited[s] = (IF <<h, s>> \in paid /\ s \in held[h].settled THEN 1 ELSE 0)
    <3>1. h \in Holding /\ held[h].is # "none" /\ PositionSound(h)
      BY DEF Present, AccountInv
    <3> QED BY <3>1 DEF PositionSound, Marked, PaidTo
  <2> QED BY <2>1, <2>2 DEF AccountInv, CapitalSound, AccountIsTrue
<1> QED BY <1>1, AccountHolds, PTL

(* ReconciliationIsTrue: a reconciliation saved as complete has paid every  *)
(* settlement of its time that the venue listed before the deadline, and    *)
(* one saved as given up has its incident.                                  *)
THEOREM CompleteIsPaid == PaperSpec => []ReconciliationIsTrue
<1>1. AccountInv => ReconciliationIsTrue
  BY DEF AccountInv, PositionSound, Complete, Said, GivenUp, ReconciliationIsTrue
<1> QED BY <1>1, AccountHolds, PTL
-----------------------------------------------------------------------------
(* The bounds of PaperTypeOK.                                               *)
Within(p) ==
  /\ p.is # "none" => p.opened <= Horizon /\ \A s \in Settlement : p.credited[s] <= 2
  /\ p.is = "closed" =>
       p.closed <= Horizon /\ p.poll <= Horizon + PollEvery + Window /\ p.polls <= MaxPolls

PositionsWithin == \A h \in Holding : Within(held[h]) /\ Within(row[h])

TablesWithin ==
  /\ \A s \in Settlement : 1 <= published[s] /\ published[s] <= Never
  /\ cycle.at = "paying" => cycle.captured <= clock
  /\ cycle.at = "down" => unsaid = {}
  /\ paid \subseteq Holding \X Settlement
  /\ unsaid \subseteq Holding /\ incident \subseteq Holding
  /\ saving \in BOOLEAN /\ torn \in BOOLEAN

(* Whatever is torn, free capital above the balance has a closed position   *)
(* that once locked it, in memory and in the tables: a row that is behind   *)
(* its position is behind on the way from open to closed.                   *)
ClosedHeld == {h \in Holding : held[h].is = "closed"}
ClosedRows == {h \in Holding : row[h].is = "closed"}

CapitalWithin ==
  /\ cash <= Capital + Cardinality(ClosedHeld)
  /\ balance <= Capital + Cardinality(ClosedRows)
  /\ cycle.at # "down" =>
       \A h \in Holding : row[h].is = "closed" => held[h].is \in {"closed", "none"}
  /\ \A h \in unsaid : held[h].is = "closed"
  /\ cycle.at = "saving" =>
       /\ \A h \in Holding \ cycle.left : held[h].is = "closed" => row[h].is = "closed"
       /\ cycle.left \subseteq Present

WithinInv == AccountInv /\ PositionsWithin /\ TablesWithin /\ CapitalWithin
-----------------------------------------------------------------------------
LEMMA WithinStarts == PaperInit => PositionsWithin /\ TablesWithin /\ CapitalWithin
<1> SUFFICES ASSUME PaperInit PROVE PositionsWithin /\ TablesWithin /\ CapitalWithin
  OBVIOUS
<1>1. \A h \in Holding : held[h].is = "none" /\ row[h].is = "none"
  BY DEF PaperInit, NoHolding
<1>2. cycle.at = "idle"
  BY DEF PaperInit, Resting
<1>3. ClosedHeld = {} /\ ClosedRows = {} /\ Cardinality({}) = 0
  BY <1>1, FS_EmptySet DEF ClosedHeld, ClosedRows
<1>4. 1 <= Never /\ Never <= Never
  BY PaperConstants DEF Never
<1>5. PositionsWithin
  BY <1>1 DEF PositionsWithin, Within
<1>6. TablesWithin
  BY <1>2, <1>4 DEF PaperInit, TablesWithin
<1>7. CapitalWithin
  <2>1. /\ cash = Capital /\ balance = -1 /\ unsaid = {}
        /\ Capital <= Capital + 0 /\ -1 <= Capital + 0
    BY PaperConstants DEF PaperInit, NoBalance
  <2> QED BY <1>1, <1>2, <1>3, <2>1 DEF CapitalWithin
<1> QED BY <1>5, <1>6, <1>7

(* The tables.                                                              *)
LEMMA TablesStayWithin ==
  ASSUME AccountInv, TablesWithin, [PaperNext]_paper
  PROVE  TablesWithin'
<1>1. clock \in Nat /\ clock <= Horizon /\ Horizon \in Nat /\ published \in [Settlement -> Nat]
      /\ cycle \in Places
  BY PaperConstants DEF AccountInv, AccountTyped
<1>2. ASSUME UNCHANGED <<clock, published, saving, torn>>, cycle'.at \notin {"paying", "down"},
             paid' \subseteq Holding \X Settlement,
             unsaid' \subseteq Holding, incident' \subseteq Holding
      PROVE  TablesWithin'
  BY <1>2 DEF TablesWithin
<1>3. CASE Ask
  <2>1. unsaid' = unsaid \cup Spent /\ cycle'.at = "asked"
        /\ UNCHANGED <<clock, published, saving, torn, paid, incident>>
    BY <1>3 DEF Ask, tables
  <2>2. Spent \subseteq Holding
    BY DEF Spent, Due
  <2> QED BY <1>2, <2>1, <2>2 DEF TablesWithin
<1>4. CASE Read \/ CycleFails
  <2>1. cycle'.at \notin {"paying", "down"}
        /\ UNCHANGED <<clock, published, saving, torn, unsaid, paid, incident>>
    BY <1>4 DEF Read, CycleFails, memory, tables, Resting
  <2> QED BY <1>2, <2>1 DEF TablesWithin
<1>5. CASE Capture
  <2>1. /\ UNCHANGED <<clock, published, saving, torn, unsaid, paid, incident>>
        /\ \E asked \in SUBSET Perp, history \in SUBSET Listed :
             cycle' = [at |-> "paying", history |-> history, read |-> asked,
                       end |-> cycle.end, captured |-> clock, left |-> Present]
    BY <1>5 DEF Capture, memory, tables
  <2> QED BY <1>1, <2>1 DEF TablesWithin
<1>6. CASE Trade
  <2>1. cycle'.at = "saving" /\ UNCHANGED <<clock, published, saving, torn, unsaid, paid, incident>>
    BY <1>6 DEF Trade, tables
  <2> QED BY <1>2, <2>1 DEF TablesWithin
<1>7. CASE SaveBalance
  BY <1>7 DEF SaveBalance, memory, Resting, TablesWithin
<1>8. CASE Die
  <2>1. /\ cycle'.at = "down" /\ torn' \in BOOLEAN /\ unsaid' = {}
        /\ UNCHANGED <<clock, published, saving, paid, incident>>
    BY <1>8 DEF Die, tables, Down, TablesWithin
  <2> QED BY <2>1 DEF TablesWithin
<1>9. CASE Restore
  <2>1. cycle'.at = "idle" /\ UNCHANGED <<clock, published, saving, torn, unsaid, paid, incident>>
    BY <1>9 DEF Restore, tables, Resting
  <2> QED BY <1>2, <2>1 DEF TablesWithin
<1>10. CASE HourPasses
  <2>1. clock' = clock + 1
        /\ UNCHANGED <<published, saving, torn, unsaid, paid, incident, cycle>>
    BY <1>10 DEF HourPasses, memory, tables
  <2>2. cycle.at = "paying" => cycle.captured \in Nat
    BY PayingTyped DEF AccountInv, PayingCycle
  <2> QED BY <1>1, <2>1, <2>2 DEF TablesWithin
<1>11. ASSUME NEW h \in Holding, Tell(h) PROVE TablesWithin'
  <2>1. /\ cycle.at = "asked" /\ (cycle' = cycle \/ cycle' = Resting) /\ saving' = TRUE
        /\ unsaid' \subseteq unsaid /\ incident' = incident \cup {h}
        /\ UNCHANGED <<clock, published, torn, paid>>
    BY <1>11 DEF Tell
  <2> QED BY <2>1 DEF TablesWithin, Resting
<1>12. ASSUME NEW h \in Holding, Polled(h) PROVE TablesWithin'
  <2>1. /\ cycle.at = "paying" /\ cycle' = [cycle EXCEPT !.left = cycle.left \ {h}]
        /\ UNCHANGED <<clock, published, saving, torn, unsaid, paid, incident>>
    BY <1>12 DEF Polled, tables
  <2>2. cycle \in PayingCycle
    BY <2>1, PayingTyped DEF AccountInv
  <2>3. cycle'.captured = cycle.captured
    BY <2>1, <2>2 DEF PayingCycle
  <2> QED BY <2>1, <2>3 DEF TablesWithin
<1>13. ASSUME NEW h \in Holding, Save(h) PROVE TablesWithin'
  <2>1. /\ cycle.at = "saving" /\ cycle' = [cycle EXCEPT !.left = cycle.left \ {h}]
        /\ saving' = TRUE /\ UNCHANGED <<clock, published, torn, unsaid, paid, incident>>
    BY <1>13 DEF Save, memory
  <2>2. cycle'.at = "saving"
    <3>1. cycle \in [at: {"saving"}, left: SUBSET Holding]
      BY <1>1, <2>1 DEF Places, Resting, Down
    <3> QED BY <2>1, <3>1
  <2> QED BY <2>1, <2>2 DEF TablesWithin
<1>14. ASSUME NEW h \in Holding, NEW s \in Settlement, Pay(h, s) PROVE TablesWithin'
  <2>1. /\ paid' = paid \cup {<<h, s>>} /\ (cycle' = cycle \/ cycle' = Resting)
        /\ UNCHANGED <<clock, published, saving, torn, unsaid, incident>>
    BY <1>14 DEF Pay
  <2> QED BY <2>1 DEF TablesWithin, Resting
<1>15. ASSUME NEW s \in Settlement, Publish(s) PROVE TablesWithin'
  <2>1. /\ published' = [published EXCEPT ![s] = clock] /\ FallsAt[s] <= clock
        /\ UNCHANGED <<clock, saving, torn, unsaid, paid, incident, cycle>>
    BY <1>15 DEF Publish, memory, tables
  <2>2. 1 <= clock /\ clock <= Never
    <3>1. FallsAt[s] \in Nat \ {0}
      BY PaperAssumption
    <3> QED BY <1>1, <2>1, <3>1 DEF Never
  <2> QED BY <1>1, <2>1, <2>2 DEF TablesWithin
<1>16. CASE UNCHANGED paper
  BY <1>16 DEF paper, tables, TablesWithin
<1> QED BY <1>3, <1>4, <1>5, <1>6, <1>7, <1>8, <1>9, <1>10, <1>11, <1>12, <1>13, <1>14, <1>15,
           <1>16 DEF PaperNext
(* The bounds of a position.                                                *)
LEMMA ClosedWithin ==
  ASSUME NEW p \in ClosedHold
  PROVE  Within(p) <=> /\ p.opened <= Horizon /\ \A s \in Settlement : p.credited[s] <= 2
                       /\ p.closed <= Horizon /\ p.poll <= Horizon + PollEvery + Window
                       /\ p.polls <= MaxPolls
BY HoldKinds DEF Within

LEMMA OpenWithin ==
  ASSUME NEW p \in OpenHold
  PROVE  Within(p) <=> p.opened <= Horizon /\ \A s \in Settlement : p.credited[s] <= 2
BY HoldKinds DEF Within

LEMMA AskStaysWithin ==
  ASSUME AccountInv, PositionsWithin, Ask
  PROVE  PositionsWithin'
<1>1. AccountTyped /\ clock \in Nat /\ clock <= Horizon /\ Horizon \in Nat /\ PollEvery \in Nat
      /\ Window \in Nat /\ MaxPolls \in Nat
  BY PaperConstants DEF AccountInv, AccountTyped
<1>2. /\ row' = row
      /\ \A h \in Holding : held'[h] = IF h \in Spent THEN [held[h] EXCEPT !.outcome = "failed"]
                                      ELSE IF h \in Due THEN Scheduled(held[h]) ELSE held[h]
  BY DEF Ask, tables
<1>3. ASSUME NEW h \in Due PROVE Within(held'[h])
  <2>1. h \in Holding /\ held[h] \in Holds /\ held[h].is = "closed"
    BY <1>1 DEF Due, Active, AccountTyped
  <2>2. held[h] \in ClosedHold
    BY <2>1, HoldKinds
  <2>3. /\ held[h].opened <= Horizon /\ \A s \in Settlement : held[h].credited[s] <= 2
        /\ held[h].closed <= Horizon /\ held[h].poll <= Horizon + PollEvery + Window
        /\ held[h].polls <= MaxPolls
    BY <2>1, <2>2, ClosedWithin DEF PositionsWithin
  <2>4. CASE h \in Spent
    <3> DEFINE p == [held[h] EXCEPT !.outcome = "failed"]
    <3>1. p \in ClosedHold
      BY <1>1, <2>2, ScheduledTyped
    <3>2. /\ p.opened = held[h].opened /\ p.closed = held[h].closed /\ p.polls = held[h].polls
          /\ p.poll = held[h].poll /\ p.credited = held[h].credited
      BY <2>2 DEF ClosedHold
    <3>3. held'[h] = p
      BY <1>2, <2>1, <2>4
    <3> HIDE DEF p
    <3> QED BY <2>3, <3>1, <3>2, <3>3, ClosedWithin
  <2>5. CASE h \notin Spent
    <3> DEFINE p == Scheduled(held[h])
    <3>1. p \in ClosedHold /\ p.credited = held[h].credited
      BY <1>1, <2>2, ScheduledTyped
    <3>2. Until(held[h]) \in Nat /\ held[h].polls \in Nat /\ clock + PollEvery \in Nat
      BY <1>1, <2>2 DEF Until, ClosedHold
    <3>3. CASE clock < Until(held[h])
      <4> DEFINE next == Earlier(clock + PollEvery, Until(held[h]))
      <4>1. next <= clock + PollEvery /\ next \in Nat
        BY <3>2, EarlierTyped
      <4>2. p = [held[h] EXCEPT !.poll = next]
        BY <3>3 DEF Scheduled
      <4> HIDE DEF p, next
      <4>3. /\ p.opened = held[h].opened /\ p.closed = held[h].closed /\ p.polls = held[h].polls
            /\ p.poll = next
        BY <2>2, <4>2 DEF ClosedHold
      <4>4. next <= Horizon + PollEvery + Window
        BY <1>1, <4>1
      <4>5. held'[h] = p
        BY <1>2, <2>1, <2>5 DEF p
      <4> QED BY <2>3, <3>1, <4>3, <4>4, <4>5, ClosedWithin
    <3>4. CASE ~(clock < Until(held[h]))
      <4>1. p = [held[h] EXCEPT !.poll = clock + PollEvery, !.polls = held[h].polls + 1]
        BY <3>4 DEF Scheduled
      <4> HIDE DEF p
      <4>2. /\ p.opened = held[h].opened /\ p.closed = held[h].closed
            /\ p.polls = held[h].polls + 1 /\ p.poll = clock + PollEvery
        BY <2>2, <4>1 DEF ClosedHold
      <4>3. held[h].polls + 1 <= MaxPolls
        BY <1>1, <2>5, <3>2, <3>4 DEF Spent
      <4>4. clock + PollEvery <= Horizon + PollEvery + Window
        BY <1>1
      <4>5. held'[h] = p
        BY <1>2, <2>1, <2>5 DEF p
      <4> QED BY <2>3, <3>1, <4>2, <4>3, <4>4, <4>5, ClosedWithin
    <3> QED BY <3>3, <3>4
  <2> QED BY <2>4, <2>5
<1>4. ASSUME NEW h \in Holding, h \notin Due PROVE Within(held'[h])
  BY <1>2, <1>4 DEF Spent, PositionsWithin
<1>5. \A h \in Holding : Within(row'[h])
  BY <1>2 DEF PositionsWithin
<1> QED BY <1>3, <1>4, <1>5 DEF PositionsWithin, Within

(* A position whose times and polls stay as they are. *)
LEMMA CreditsWithin ==
  ASSUME NEW p \in OpenHold \cup ClosedHold, Within(p),
         NEW credits \in [Settlement -> Nat], \A s \in Settlement : credits[s] <= 2,
         NEW marks \in SUBSET Settlement,
         NEW q, q = [p EXCEPT !.credited = credits, !.settled = marks]
  PROVE  Within(q)
<1>1. CASE p \in OpenHold
  <2>1. q.is = "open" /\ q.opened = p.opened /\ q.credited = credits
    BY <1>1 DEF OpenHold
  <2> QED BY <1>1, <2>1, OpenWithin DEF Within
<1>2. CASE p \in ClosedHold
  <2>1. /\ q.is = "closed" /\ q.opened = p.opened /\ q.credited = credits
        /\ q.closed = p.closed /\ q.poll = p.poll /\ q.polls = p.polls
    BY <1>2 DEF ClosedHold
  <2> QED BY <1>2, <2>1, ClosedWithin DEF Within
<1> QED BY <1>1, <1>2

LEMMA PositionsStayWithin ==
  ASSUME AccountInv, PositionsWithin, TablesWithin, [PaperNext]_paper
  PROVE  PositionsWithin'
<1>1. AccountTyped /\ clock \in Nat /\ clock <= Horizon /\ Horizon \in Nat /\ PollEvery \in Nat
      /\ Window \in Nat
  BY PaperConstants DEF AccountInv, AccountTyped
<1>2. ASSUME held' = held, row' = row PROVE PositionsWithin'
  BY <1>2 DEF PositionsWithin, Within
<1>3. ASSUME NEW h \in Holding, held' = held, row' = [row EXCEPT ![h] = held[h]]
      PROVE  PositionsWithin'
  <2>1. \A g \in Holding : row'[g] = row[g] \/ row'[g] = held[g]
    BY <1>1, <1>3 DEF AccountTyped
  <2> QED BY <1>3, <2>1 DEF PositionsWithin, Within
<1>4. ASSUME row' = row, \A h \in Holding : held'[h] = held[h] \/ Within(held'[h])
      PROVE  PositionsWithin'
  BY <1>4 DEF PositionsWithin, Within
<1>5. CASE Die
  <2>1. row' = row /\ \A h \in Holding : held'[h] = NoHolding
    BY <1>5 DEF Die, tables
  <2>2. Within(NoHolding)
    BY HoldKinds DEF Within
  <2> QED BY <1>4, <2>1, <2>2
<1>6. CASE Trade
  <2>1. PICK out \in SUBSET Open, in \in SUBSET fresh :
          held' = [h \in Holding |-> IF h \in out THEN Closed(held[h])
                                    ELSE IF h \in in THEN NewHolding ELSE held[h]]
    BY <1>6 DEF Trade
  <2>2. row' = row /\ cycle.at = "paying"
    BY <1>6 DEF Trade, tables
  <2>3. cycle \in PayingCycle /\ cycle.captured <= clock
    BY <1>1, <2>2, PayingTyped DEF TablesWithin
  <2>4. Within(NewHolding)
    BY <1>1 DEF Within, NewHolding
  <2>5. ASSUME NEW h \in Open PROVE Within(Closed(held[h]))
    <3>1. h \in Holding /\ held[h] \in Holds /\ held[h].is = "open"
      BY <1>1 DEF Open, AccountTyped
    <3>2. held[h] \in OpenHold /\ Within(held[h])
      BY <3>1, HoldKinds DEF PositionsWithin
    <3> DEFINE first == Earlier(cycle.captured, clock + Window)
    <3>3. first <= cycle.captured /\ first \in Nat /\ cycle.captured \in Nat
      <4>1. cycle.captured \in Nat /\ clock + Window \in Nat
        BY <1>1, <2>3 DEF PayingCycle
      <4> QED BY <4>1, EarlierTyped
    <3>4. first <= Horizon + PollEvery + Window
      BY <1>1, <2>3, <3>3
    <3>5. 0 <= MaxPolls
      BY PaperConstants
    <3> DEFINE p == Closed(held[h])
    <3>6. /\ p.is = "closed" /\ p.opened = held[h].opened /\ p.closed = clock
          /\ p.credited = held[h].credited /\ p.poll = first /\ p.polls = 0
      BY DEF Closed
    <3> HIDE DEF p, first
    <3> QED BY <1>1, <3>1, <3>2, <3>4, <3>5, <3>6 DEF Within, p
  <2> QED BY <1>4, <2>1, <2>2, <2>4, <2>5
<1>7. CASE Restore
  <2>1. row' = row /\ \A h \in Holding :
                       held'[h] = NoHolding \/ (held'[h] = Loaded(h) /\ row[h].is # "none")
    <3> DEFINE Saved == {h \in Holding : row[h].is # "none"}
    <3>1. PICK kept \in SUBSET Saved :
            held' = [h \in Holding |-> IF h \in kept THEN Loaded(h) ELSE NoHolding]
      BY <1>7 DEF Restore
    <3>2. row' = row
      BY <1>7 DEF Restore, tables
    <3> QED BY <3>1, <3>2
  <2>2. Within(NoHolding)
    BY HoldKinds DEF Within
  <2>3. ASSUME NEW h \in Holding, row[h].is # "none" PROVE Within(Loaded(h))
    <3>1. row[h] \in OpenHold \/ row[h] \in ClosedHold
      BY <1>1, <2>3, HoldKinds DEF AccountTyped
    <3> DEFINE credits == [s \in Settlement |-> IF s \in PaidTo(h) THEN 1 ELSE 0]
    <3>2. credits \in [Settlement -> Nat] /\ \A s \in Settlement : credits[s] <= 2
      OBVIOUS
    <3>3. Loaded(h) = [row[h] EXCEPT !.credited = credits, !.settled = row[h].settled \cup PaidTo(h)]
      BY DEF Loaded
    <3>4. Within(row[h])
      BY DEF PositionsWithin
    <3> HIDE DEF credits
    <3> DEFINE marks == row[h].settled \cup PaidTo(h)
    <3>5. Within(Loaded(h))
      <4>1. marks \in SUBSET Settlement /\ row[h] \in OpenHold \cup ClosedHold
        BY <3>1 DEF OpenHold, ClosedHold, PaidTo
      <4> HIDE DEF marks
      <4>2. Loaded(h) = [row[h] EXCEPT !.credited = credits, !.settled = marks]
        BY <3>3 DEF marks
      <4> QED BY <3>2, <3>4, <4>1, <4>2, CreditsWithin, Zenon
    <3> QED BY <3>5
  <2> QED BY <1>4, <2>1, <2>2, <2>3
<1>8. ASSUME NEW h \in Holding, Polled(h) PROVE PositionsWithin'
  <2>1. /\ row' = row
        /\ held' = held \/ (Active(h) /\ held' = [held EXCEPT ![h].outcome = "completed"])
    BY <1>8 DEF Polled, tables
  <2>2. CASE Active(h) /\ held' = [held EXCEPT ![h].outcome = "completed"]
    <3>1. held[h] \in ClosedHold
      BY <1>1, <2>2, HoldKinds DEF Active, AccountTyped
    <3> DEFINE p == [held[h] EXCEPT !.outcome = "completed"]
    <3>2. \A g \in Holding : held'[g] = held[g] \/ (g = h /\ held'[g] = p)
      BY <1>1, <2>2 DEF AccountTyped
    <3>3. /\ p.is = "closed" /\ p.opened = held[h].opened /\ p.closed = held[h].closed
          /\ p.credited = held[h].credited /\ p.poll = held[h].poll /\ p.polls = held[h].polls
      BY <3>1, HoldKinds DEF ClosedHold
    <3> HIDE DEF p
    <3>4. Within(p)
      BY <3>1, <3>3, ClosedWithin DEF PositionsWithin, Within
    <3> QED BY <1>4, <2>1, <3>2, <3>4
  <2> QED BY <1>2, <2>1, <2>2
<1>9. ASSUME NEW h \in Holding, NEW s \in Settlement, Pay(h, s) PROVE PositionsWithin'
  <2>1. /\ row' = row /\ s \in Owed(h)
        /\ held' = held \/ held' = [held EXCEPT ![h] = Credited(held[h], s)]
    BY <1>9 DEF Pay
  <2>2. held[h] \in OpenHold \/ held[h] \in ClosedHold
    <3>1. held[h] \in Holds /\ held[h].is \in {"open", "closed"}
      BY <1>1, <2>1 DEF AccountTyped, Owed, Active
    <3> QED BY <3>1, HoldKinds
  <2> DEFINE credits == [held[h].credited EXCEPT ![s] = Earlier(held[h].credited[s] + 1, 2)]
  <2>3. credits \in [Settlement -> Nat] /\ \A t \in Settlement : credits[t] <= 2
    <3>1. held[h].credited \in [Settlement -> Nat]
      BY <2>2 DEF OpenHold, ClosedHold
    <3>2. \A t \in Settlement : held[h].credited[t] <= 2
      BY <2>2, HoldKinds DEF PositionsWithin, Within
    <3>3. Earlier(held[h].credited[s] + 1, 2) \in Nat
          /\ Earlier(held[h].credited[s] + 1, 2) <= 2
      <4>1. held[h].credited[s] + 1 \in Nat
        BY <3>1
      <4> QED BY <4>1, EarlierTyped
    <3> QED BY <3>1, <3>2, <3>3
  <2>4. Credited(held[h], s)
          = [held[h] EXCEPT !.credited = credits, !.settled = held[h].settled \cup {s}]
    BY DEF Credited
  <2>5. Within(Credited(held[h], s))
    <3> HIDE DEF credits
    <3>1. Within(held[h])
      BY DEF PositionsWithin
    <3> DEFINE marks == held[h].settled \cup {s}
    <3>2. Within(Credited(held[h], s))
      <4>1. marks \in SUBSET Settlement /\ held[h] \in OpenHold \cup ClosedHold
        BY <2>2 DEF OpenHold, ClosedHold
      <4> HIDE DEF marks
      <4>2. Credited(held[h], s) = [held[h] EXCEPT !.credited = credits, !.settled = marks]
        BY <2>4 DEF marks
      <4> QED BY <2>3, <3>1, <4>1, <4>2, CreditsWithin, Zenon
    <3> QED BY <3>2
  <2>6. \A g \in Holding : held'[g] = held[g] \/ held'[g] = Credited(held[h], s)
    BY <1>1, <2>1 DEF AccountTyped
  <2> QED BY <1>4, <2>1, <2>5, <2>6
<1>10. ASSUME NEW h \in Holding, Tell(h) \/ Save(h) PROVE PositionsWithin'
  BY <1>3, <1>10 DEF Tell, Save, memory
<1>11. ASSUME NEW s \in Settlement, Publish(s) PROVE PositionsWithin'
  BY <1>2, <1>11 DEF Publish, memory, tables
<1>12. CASE \/ Read \/ Capture \/ CycleFails \/ HourPasses \/ SaveBalance
            \/ UNCHANGED paper
  BY <1>2, <1>12 DEF Read, Capture, CycleFails, HourPasses, SaveBalance, paper, memory, tables
<1> QED BY AskStaysWithin, <1>5, <1>6, <1>7, <1>8, <1>9, <1>10, <1>11, <1>12 DEF PaperNext
-----------------------------------------------------------------------------
(* The bound of the capital.                                                *)
LEMMA ClosedCounted ==
  /\ IsFiniteSet(ClosedHeld) /\ IsFiniteSet(ClosedRows)
  /\ Cardinality(ClosedHeld) \in Nat /\ Cardinality(ClosedRows) \in Nat
  /\ Cardinality(ClosedHeld) <= Cardinality(Holding)
  /\ Cardinality(ClosedRows) <= Cardinality(Holding) /\ Cardinality(Holding) \in Nat
<1>1. ClosedHeld \subseteq Holding /\ ClosedRows \subseteq Holding
  BY DEF ClosedHeld, ClosedRows
<1> QED BY <1>1, FS_Subset, FS_CardinalityType, PaperConstants

LEMMA ClosedCountedNext ==
  IsFiniteSet(ClosedHeld)' /\ IsFiniteSet(ClosedRows)'
  /\ (Cardinality(ClosedHeld) \in Nat)' /\ (Cardinality(ClosedRows) \in Nat)'
<1>1. ClosedHeld' \subseteq Holding /\ ClosedRows' \subseteq Holding
  BY DEF ClosedHeld, ClosedRows
<1> QED BY <1>1, FS_Subset, FS_CardinalityType, PaperConstants

(* Positions stay open or closed, and the tables as they are. *)
LEMMA CapitalKept ==
  ASSUME CapitalWithin, \A h \in Holding : held'[h].is = held[h].is,
         UNCHANGED <<cash, balance, row>>, unsaid \subseteq Holding,
         \A h \in unsaid' : h \in unsaid \/ (h \in Holding /\ held[h].is = "closed"),
         cycle'.at = "saving" => cycle' = cycle, cycle.at = "down" <=> cycle'.at = "down"
  PROVE  CapitalWithin'
<1>1. ClosedHeld' = ClosedHeld /\ ClosedRows' = ClosedRows
  BY DEF ClosedHeld, ClosedRows
<1>2. /\ cash' <= Capital + Cardinality(ClosedHeld') /\ balance' <= Capital + Cardinality(ClosedRows')
  BY <1>1 DEF CapitalWithin
<1>3. cycle'.at # "down" =>
        \A h \in Holding : row'[h].is = "closed" => held'[h].is \in {"closed", "none"}
  BY DEF CapitalWithin
<1>4. \A h \in unsaid' : held'[h].is = "closed"
  BY DEF CapitalWithin
<1>5. cycle'.at = "saving" =>
        /\ \A h \in Holding \ cycle'.left : held'[h].is = "closed" => row'[h].is = "closed"
        /\ cycle'.left \subseteq Present'
  BY DEF CapitalWithin, Present
<1> QED BY <1>2, <1>3, <1>4, <1>5 DEF CapitalWithin

LEMMA CapitalQuietSteps ==
  ASSUME AccountInv, CapitalWithin, TablesWithin,
         \/ Ask \/ Read \/ Capture \/ CycleFails \/ HourPasses
         \/ \E h \in Holding : Polled(h)
         \/ \E h \in Holding, s \in Settlement : Pay(h, s)
         \/ \E s \in Settlement : Publish(s)
         \/ UNCHANGED paper
  PROVE  CapitalWithin'
<1>1. AccountTyped /\ cycle \in Places /\ unsaid \subseteq Holding
  BY DEF AccountInv, AccountTyped, TablesWithin
<1>2. CASE Ask
  <2>1. /\ cycle = Resting /\ cycle'.at = "asked" /\ unsaid' = unsaid \cup Spent
        /\ held' = [h \in Holding |->
                     IF h \in Spent THEN [held[h] EXCEPT !.outcome = "failed"]
                     ELSE IF h \in Due THEN Scheduled(held[h]) ELSE held[h]]
        /\ UNCHANGED <<cash, balance, row>>
    BY <1>2 DEF Ask, tables
  <2>2. ASSUME NEW h \in Spent PROVE h \in Due /\ h \in Holding /\ held[h].is = "closed"
    BY DEF Spent, Due, Active
  <2>3. ASSUME NEW h \in Due PROVE h \in Holding /\ held'[h].is = held[h].is
    <3>1. h \in Holding /\ held[h].is = "closed"
      BY DEF Due, Active
    <3>2. held[h] \in ClosedHold
      BY <1>1, <3>1, HoldKinds DEF AccountTyped
    <3>3. Scheduled(held[h]).is = "closed" /\ [held[h] EXCEPT !.outcome = "failed"].is = "closed"
      BY <1>1, <3>2, ScheduledTyped, HoldKinds
    <3> QED BY <2>1, <3>1, <3>3
  <2>4. ASSUME NEW h \in Holding PROVE held'[h].is = held[h].is
    <3>1. CASE h \in Due
      BY <2>3, <3>1
    <3>2. CASE h \notin Due
      BY <2>1, <2>2, <3>2
    <3> QED BY <3>1, <3>2
  <2> QED BY <1>1, <2>1, <2>2, <2>4, CapitalKept DEF Resting
<1>3. CASE Read \/ Capture \/ CycleFails
  <2>1. /\ cycle.at # "down" /\ cycle'.at \notin {"down", "saving"}
        /\ UNCHANGED <<held, cash, balance, row, unsaid>>
    BY <1>3 DEF Read, Capture, CycleFails, memory, tables, Resting
  <2> QED BY <1>1, <2>1, CapitalKept
<1>4. CASE HourPasses \/ (\E s \in Settlement : Publish(s)) \/ UNCHANGED paper
  <2>1. UNCHANGED <<held, cash, balance, row, unsaid, cycle>>
    BY <1>4 DEF HourPasses, Publish, paper, memory, tables
  <2> QED BY <1>1, <2>1, CapitalKept
<1>5. ASSUME NEW h \in Holding, Polled(h) PROVE CapitalWithin'
  <2>1. /\ cycle.at = "paying" /\ cycle' = [cycle EXCEPT !.left = cycle.left \ {h}]
        /\ held' = held \/ (Active(h) /\ held' = [held EXCEPT ![h].outcome = "completed"])
        /\ UNCHANGED <<cash, balance, row, unsaid>>
    BY <1>5 DEF Polled, tables
  <2>2. cycle'.at = "paying"
    <3>1. cycle \in PayingCycle
      BY <1>1, <2>1, PayingTyped
    <3> QED BY <2>1, <3>1 DEF PayingCycle
  <2>3. ASSUME NEW g \in Holding PROVE held'[g].is = held[g].is
    <3>1. CASE held' = held
      BY <3>1
    <3>2. CASE Active(h) /\ held' = [held EXCEPT ![h].outcome = "completed"]
      <4>1. held[h] \in ClosedHold
        BY <1>1, <3>2, HoldKinds DEF Active, AccountTyped
      <4>2. [held[h] EXCEPT !.outcome = "completed"].is = held[h].is
        BY <4>1 DEF ClosedHold
      <4> QED BY <1>1, <3>2, <4>2 DEF AccountTyped
    <3> QED BY <2>1, <3>1, <3>2
  <2> QED BY <1>1, <2>1, <2>2, <2>3, CapitalKept
<1>6. ASSUME NEW h \in Holding, NEW s \in Settlement, Pay(h, s) PROVE CapitalWithin'
  <2>1. /\ cycle.at = "paying" /\ s \in Owed(h) /\ (cycle' = cycle \/ cycle' = Resting)
        /\ held' = held \/ held' = [held EXCEPT ![h] = Credited(held[h], s)]
        /\ UNCHANGED <<cash, balance, row, unsaid>>
    BY <1>6 DEF Pay
  <2>2. Credited(held[h], s).is = held[h].is
    <3>1. held[h] \in Holds /\ held[h].is \in {"open", "closed"}
      BY <1>1, <2>1 DEF AccountTyped, Owed, Active
    <3>2. held[h] \in OpenHold \/ held[h] \in ClosedHold
      BY <3>1, HoldKinds
    <3> QED BY <3>2 DEF Credited, OpenHold, ClosedHold
  <2>3. \A g \in Holding : held'[g].is = held[g].is
    BY <1>1, <2>1, <2>2 DEF AccountTyped
  <2>4. cycle'.at \in {"paying", "idle"}
    BY <2>1 DEF Resting
  <2> QED BY <1>1, <2>1, <2>3, <2>4, CapitalKept
<1> QED BY <1>2, <1>3, <1>4, <1>5, <1>6

(* What a close gives back, it counts. *)
LEMMA CapitalTraded ==
  ASSUME AccountInv, CapitalWithin, Trade
  PROVE  CapitalWithin'
<1>1. PICK out \in SUBSET Open, in \in SUBSET fresh :
        /\ held' = [h \in Holding |-> IF h \in out THEN Closed(held[h])
                                      ELSE IF h \in in THEN NewHolding ELSE held[h]]
        /\ cash' = cash + Cardinality(out) - Cardinality(in)
        /\ cycle' = [at |-> "saving", left |-> Present \cup in]
  BY DEF Trade
<1>2. /\ cycle.at = "paying" /\ UNCHANGED <<unsaid, row, balance>>
  BY DEF Trade, tables
<1>3. /\ AccountTyped /\ unsaid = {} /\ cash \in Nat /\ Capital \in Nat
      /\ \A h \in fresh : h \in Holding /\ held[h].is = "none" /\ row[h].is = "none"
  BY <1>2, PaperConstants DEF AccountInv, AccountTyped, CycleSound, PositionSound
<1>4. ASSUME NEW h \in Holding
      PROVE  held'[h].is = IF h \in out THEN "closed" ELSE IF h \in in THEN "open" ELSE held[h].is
  BY <1>1 DEF Closed, NewHolding
<1>5. out \subseteq Holding /\ in \subseteq Holding /\ \A h \in out : held[h].is = "open"
  BY <1>1, <1>3 DEF Open
<1>6. /\ IsFiniteSet(out) /\ IsFiniteSet(in)
      /\ Cardinality(out) \in Nat /\ Cardinality(in) \in Nat
  BY <1>5, FS_Subset, FS_CardinalityType, PaperConstants
<1>7. Cardinality(ClosedHeld') = Cardinality(ClosedHeld) + Cardinality(out)
  <2>1. ClosedHeld' = ClosedHeld \cup out
    <3>1. ASSUME NEW h \in Holding PROVE h \in ClosedHeld' <=> h \in ClosedHeld \cup out
      BY <1>1, <1>3, <1>4 DEF ClosedHeld
    <3>2. ClosedHeld' \subseteq Holding /\ ClosedHeld \cup out \subseteq Holding
      BY <1>5 DEF ClosedHeld
    <3> QED BY <3>1, <3>2
  <2>2. ClosedHeld \cap out = {}
    BY <1>5 DEF ClosedHeld
  <2>3. Cardinality(ClosedHeld \cup out)
          = Cardinality(ClosedHeld) + Cardinality(out) - Cardinality(ClosedHeld \cap out)
    BY <1>6, ClosedCounted, FS_Union
  <2>4. Cardinality(ClosedHeld \cap out) = 0
    BY <2>2, FS_EmptySet
  <2> QED BY <1>6, <2>1, <2>3, <2>4, ClosedCounted
<1>8. cash' <= Capital + Cardinality(ClosedHeld')
  BY <1>1, <1>3, <1>6, <1>7, ClosedCounted DEF CapitalWithin
<1>9. balance' <= Capital + Cardinality(ClosedRows')
  <2>1. ClosedRows' = ClosedRows
    BY <1>2 DEF ClosedRows
  <2> QED BY <1>2, <2>1 DEF CapitalWithin
<1>10. ASSUME NEW h \in Holding, row'[h].is = "closed" PROVE held'[h].is \in {"closed", "none"}
  <2>1. held[h].is \in {"closed", "none"} /\ h \notin in
    BY <1>1, <1>2, <1>3, <1>10 DEF CapitalWithin
  <2> QED BY <1>4, <2>1
<1>11. /\ cycle'.left \subseteq Present'
       /\ \A h \in Holding \ cycle'.left : held'[h].is # "closed"
  <2>1. cycle'.left = Present \cup in
    BY <1>1
  <2>2. ASSUME NEW h \in Holding PROVE h \in Present \cup in <=> h \in Present'
    BY <1>4, <1>5 DEF Present
  <2> QED BY <1>5, <2>1, <2>2 DEF Present
<1>12. cycle'.at = "saving" /\ unsaid' = {}
  BY <1>1, <1>2, <1>3
<1> QED BY <1>8, <1>9, <1>10, <1>11, <1>12 DEF CapitalWithin

LEMMA CapitalSaved ==
  ASSUME AccountInv, CapitalWithin, TablesWithin, NEW h \in Holding, Tell(h) \/ Save(h)
  PROVE  CapitalWithin'
<1>1. /\ row' = [row EXCEPT ![h] = held[h]] /\ UNCHANGED <<held, cash, balance>>
      /\ unsaid' \subseteq unsaid
  BY DEF Tell, Save, memory
<1>2. AccountTyped /\ cycle \in Places /\ unsaid \subseteq Holding
  BY DEF AccountInv, AccountTyped, TablesWithin
<1>3. /\ held[h].is # "none" /\ cycle.at # "down" /\ cycle'.at # "down"
      /\ cycle'.at = "saving" => cycle.at = "saving" /\ cycle'.left = cycle.left \ {h}
  <2>1. CASE Tell(h)
    <3>1. cycle.at = "asked" /\ h \in unsaid /\ (cycle' = cycle \/ cycle' = Resting)
      BY <2>1 DEF Tell
    <3> QED BY <3>1 DEF CapitalWithin, Resting
  <2>2. CASE Save(h)
    <3>1. cycle.at = "saving" /\ h \in cycle.left /\ cycle' = [cycle EXCEPT !.left = cycle.left \ {h}]
      BY <2>2 DEF Save
    <3>2. cycle \in [at: {"saving"}, left: SUBSET Holding]
      BY <1>2, <3>1 DEF Places, Resting, Down
    <3>3. cycle'.at = "saving" /\ cycle'.left = cycle.left \ {h}
      BY <3>1, <3>2
    <3> QED BY <3>1, <3>3 DEF CapitalWithin, Present
  <2> QED BY <2>1, <2>2
<1>4. \A g \in Holding : row'[g] = IF g = h THEN held[h] ELSE row[g]
  BY <1>1, <1>2 DEF AccountTyped
<1>5. row[h].is = "closed" => held[h].is = "closed"
  BY <1>3 DEF CapitalWithin
<1>6. ClosedHeld' = ClosedHeld /\ ClosedRows \subseteq ClosedRows'
  BY <1>1, <1>4, <1>5 DEF ClosedHeld, ClosedRows
<1>7. Cardinality(ClosedRows) <= Cardinality(ClosedRows')
  BY <1>6, ClosedCountedNext, FS_Subset
<1>8. balance' <= Capital + Cardinality(ClosedRows')
  <2>1. balance \in {-1} \cup Nat /\ Capital \in Nat
    BY <1>2, PaperConstants DEF AccountTyped, NoBalance
  <2> QED BY <1>1, <1>7, <2>1, ClosedCounted, ClosedCountedNext DEF CapitalWithin
<1>9. cash' <= Capital + Cardinality(ClosedHeld')
  BY <1>1, <1>6 DEF CapitalWithin
<1>10. \A g \in Holding : row'[g].is = "closed" => held'[g].is \in {"closed", "none"}
  BY <1>1, <1>3, <1>4 DEF CapitalWithin
<1>11. \A g \in unsaid' : held'[g].is = "closed"
  BY <1>1 DEF CapitalWithin
<1>12. cycle'.at = "saving" =>
         /\ \A g \in Holding \ cycle'.left : held'[g].is = "closed" => row'[g].is = "closed"
         /\ cycle'.left \subseteq Present'
  BY <1>1, <1>3, <1>4 DEF CapitalWithin, Present
<1> QED BY <1>8, <1>9, <1>10, <1>11, <1>12 DEF CapitalWithin

LEMMA CapitalStaysWithin ==
  ASSUME AccountInv, CapitalWithin, TablesWithin, [PaperNext]_paper
  PROVE  CapitalWithin'
<1>1. AccountTyped /\ cycle \in Places /\ Capital \in Nat
  BY PaperConstants DEF AccountInv, AccountTyped
<1>2. CASE SaveBalance
  <2>1. /\ cycle.at = "saving" /\ cycle.left = {} /\ cycle'.at = "idle" /\ balance' = cash
        /\ UNCHANGED <<held, cash, unsaid, row>>
    BY <1>2 DEF SaveBalance, memory, Resting
  <2>2. ClosedHeld' = ClosedHeld /\ ClosedRows' = ClosedRows
    BY <2>1 DEF ClosedHeld, ClosedRows
  <2>3. ClosedHeld \subseteq ClosedRows
    BY <2>1 DEF ClosedHeld, ClosedRows, CapitalWithin
  <2>4. Cardinality(ClosedHeld) <= Cardinality(ClosedRows)
    BY <2>3, ClosedCounted, FS_Subset
  <2>5. cash \in Nat
    BY <1>1 DEF AccountTyped
  <2>6. balance' <= Capital + Cardinality(ClosedRows')
    BY <1>1, <2>1, <2>2, <2>4, <2>5, ClosedCounted DEF CapitalWithin
  <2> QED BY <2>1, <2>2, <2>6 DEF CapitalWithin
<1>3. CASE Die
  <2>1. /\ cycle'.at = "down" /\ cash' = 0 /\ unsaid' = {} /\ UNCHANGED <<row, balance>>
    BY <1>3 DEF Die, tables, Down
  <2>2. ClosedRows' = ClosedRows
    BY <2>1 DEF ClosedRows
  <2>3. cash' <= Capital + Cardinality(ClosedHeld')
    BY <1>1, <2>1, ClosedCountedNext
  <2> QED BY <2>1, <2>2, <2>3 DEF CapitalWithin
<1>4. CASE Restore
  <2> DEFINE Saved == {h \in Holding : row[h].is # "none"}
  <2>1. /\ cycle.at = "down" /\ cycle'.at = "idle" /\ UNCHANGED <<unsaid, row, balance>>
    BY <1>4 DEF Restore, tables, Down, Resting
  <2>2. PICK kept \in SUBSET Saved :
          /\ held' = [h \in Holding |-> IF h \in kept THEN Loaded(h) ELSE NoHolding]
          /\ \/ balance # NoBalance /\ kept = Saved /\ cash' = balance
             \/ cash' = Capital - Cardinality(kept)
    BY <1>4 DEF Restore
  <2>3. ASSUME NEW h \in Holding
        PROVE  held'[h].is = IF h \in kept THEN row[h].is ELSE "none"
    <3>1. row[h] \in Holds
      BY <1>1 DEF AccountTyped
    <3>2. CASE h \in kept
      <4>1. row[h].is # "none" /\ held'[h] = Loaded(h)
        BY <2>2, <3>2
      <4> QED BY <3>1, <3>2, <4>1, LoadedSound
    <3>3. CASE h \notin kept
      BY <2>2, <3>3, HoldKinds
    <3> QED BY <3>2, <3>3
  <2>4. ClosedRows' = ClosedRows
    BY <2>1 DEF ClosedRows
  <2>5. cash' <= Capital + Cardinality(ClosedHeld')
    <3>1. CASE kept = Saved /\ cash' = balance
      <4>1. ClosedHeld' = ClosedRows
        BY <2>3, <3>1 DEF ClosedHeld, ClosedRows
      <4> QED BY <3>1, <4>1 DEF CapitalWithin
    <3>2. CASE cash' = Capital - Cardinality(kept)
      <4>1. kept \subseteq Holding
        OBVIOUS
      <4>2. Cardinality(kept) \in Nat
        BY <4>1, FS_Subset, FS_CardinalityType, PaperConstants
      <4> HIDE DEF Saved
      <4> QED BY <1>1, <3>2, <4>2, ClosedCountedNext
    <3> QED BY <2>2, <3>1, <3>2
  <2>6. \A h \in Holding : row'[h].is = "closed" => held'[h].is \in {"closed", "none"}
    BY <2>1, <2>3
  <2>7. unsaid' = {}
    BY <2>1 DEF TablesWithin
  <2> QED BY <2>1, <2>4, <2>5, <2>6, <2>7 DEF CapitalWithin
<1> QED BY <1>2, <1>3, <1>4, CapitalQuietSteps, CapitalTraded, CapitalSaved DEF PaperNext
-----------------------------------------------------------------------------
LEMMA WithinHolds == PaperSpec => []WithinInv
<1>1. PaperInit => PositionsWithin /\ TablesWithin /\ CapitalWithin
  BY WithinStarts
<1>2. /\ AccountInv /\ PositionsWithin /\ TablesWithin /\ CapitalWithin /\ [PaperNext]_paper
      => PositionsWithin' /\ TablesWithin' /\ CapitalWithin'
  BY TablesStayWithin, PositionsStayWithin, CapitalStaysWithin
<1> QED BY <1>1, <1>2, AccountHolds, PTL DEF PaperSpec, WithinInv

LEMMA WithinIsPosition ==
  ASSUME NEW p \in Holds, Within(p)
  PROVE  p \in Position
<1>1. Horizon \in Nat /\ PollEvery \in Nat /\ Window \in Nat /\ MaxPolls \in Nat
  BY PaperConstants
<1>2. CASE p = NoHolding
  BY <1>2 DEF Position
<1>3. CASE p \in OpenHold
  <2>1. /\ p = [is |-> "open", opened |-> p.opened, credited |-> p.credited, settled |-> p.settled]
        /\ p.opened \in Nat /\ p.credited \in [Settlement -> Nat]
        /\ p.settled \in SUBSET Settlement
    BY <1>3 DEF OpenHold
  <2>2. p.opened <= Horizon /\ \A s \in Settlement : p.credited[s] <= 2
    BY <1>3, OpenWithin
  <2>3. p.opened \in 0..Horizon /\ p.credited \in [Settlement -> 0..2]
    BY <1>1, <2>1, <2>2
  <2>4. p \in [is: {"open"}, opened: 0..Horizon, credited: [Settlement -> 0..2],
               settled: SUBSET Settlement]
    BY <2>1, <2>3
  <2> QED BY <2>4 DEF Position
<1>4. CASE p \in ClosedHold
  <2>1. p = [is |-> "closed", opened |-> p.opened, closed |-> p.closed,
             credited |-> p.credited, settled |-> p.settled, poll |-> p.poll,
             polls |-> p.polls, outcome |-> p.outcome]
    BY <1>4 DEF ClosedHold
  <2>2. /\ p.opened \in Nat /\ p.closed \in Nat /\ p.credited \in [Settlement -> Nat]
        /\ p.settled \in SUBSET Settlement /\ p.poll \in Nat /\ p.polls \in Nat
        /\ p.outcome \in {"none", "completed", "failed"}
    BY <1>4 DEF ClosedHold
  <2>3. /\ p.opened <= Horizon /\ \A s \in Settlement : p.credited[s] <= 2
        /\ p.closed <= Horizon /\ p.poll <= Horizon + PollEvery + Window /\ p.polls <= MaxPolls
    BY <1>4, ClosedWithin
  <2>4. /\ p.opened \in 0..Horizon /\ p.closed \in 0..Horizon
        /\ p.credited \in [Settlement -> 0..2]
        /\ p.poll \in 0..(Horizon + PollEvery + Window) /\ p.polls \in 0..MaxPolls
    BY <1>1, <2>2, <2>3
  <2>5. p \in [is: {"closed"}, opened: 0..Horizon, closed: 0..Horizon,
               credited: [Settlement -> 0..2], settled: SUBSET Settlement,
               poll: 0..(Horizon + PollEvery + Window), polls: 0..MaxPolls,
               outcome: {"none", "completed", "failed"}]
    BY <2>1, <2>2, <2>4
  <2> QED BY <2>5 DEF Position
<1> QED BY <1>2, <1>3, <1>4, HoldKinds

LEMMA WithinIsPlace ==
  ASSUME AccountInv, TablesWithin
  PROVE  cycle \in Place
<1>1. cycle \in Places /\ clock \in Nat /\ clock <= Horizon /\ Horizon \in Nat
  BY PaperConstants DEF AccountInv, AccountTyped
<1>2. CASE cycle \in [at: {"reading"}, end: Nat]
  <2>1. cycle = [at |-> "reading", end |-> cycle.end] /\ cycle.end \in Nat
    BY <1>2
  <2>2. cycle.end \in 0..Horizon
    BY <1>1, <1>2, <2>1 DEF AccountInv, CycleSound
  <2>3. cycle \in [at: {"reading"}, end: 0..Horizon]
    BY <2>1, <2>2
  <2> QED BY <2>3 DEF Place
<1>3. CASE cycle \in PayingCycle
  <2>1. /\ cycle = [at |-> "paying", history |-> cycle.history, read |-> cycle.read,
                    end |-> cycle.end, captured |-> cycle.captured, left |-> cycle.left]
        /\ cycle.end \in Nat /\ cycle.captured \in Nat /\ cycle.at = "paying"
        /\ cycle.history \in SUBSET Settlement /\ cycle.read \in SUBSET Perp
        /\ cycle.left \in SUBSET Holding
    BY <1>3 DEF PayingCycle
  <2>2. cycle.end \in 0..Horizon /\ cycle.captured \in 0..Horizon
    BY <1>1, <2>1 DEF AccountInv, CycleSound, TablesWithin
  <2>3. cycle \in [at: {"paying"}, history: SUBSET Settlement, read: SUBSET Perp,
                   end: 0..Horizon, captured: 0..Horizon, left: SUBSET Holding]
    BY <2>1, <2>2
  <2> QED BY <2>3 DEF Place
<1> QED BY <1>1, <1>2, <1>3 DEF Place, Places, PayingCycle

(* PaperTypeOK, with its bounds: no poll is beyond its window or one too    *)
(* many, and the balance, however often it is torn from the positions,      *)
(* makes at most one unit of capital for each of them.                      *)
THEOREM AccountTypes == PaperSpec => []PaperTypeOK
<1>1. WithinInv => PaperTypeOK
  <2> SUFFICES ASSUME WithinInv PROVE PaperTypeOK
    OBVIOUS
  <2>1. AccountInv /\ AccountTyped /\ TablesWithin /\ PositionsWithin /\ CapitalWithin
    BY DEF WithinInv, AccountInv
  <2>2. clock \in 0..Horizon /\ published \in [Settlement -> 1..Never]
    <3>1. \A s \in Settlement : published[s] \in 1..Never
      BY <2>1, PaperConstants DEF AccountTyped, TablesWithin, Never
    <3> QED BY <2>1, <3>1, PaperConstants DEF AccountTyped
  <2>3. held \in [Holding -> Position] /\ row \in [Holding -> Position]
    <3>1. \A h \in Holding : held[h] \in Position /\ row[h] \in Position
      BY <2>1, WithinIsPosition DEF AccountTyped, PositionsWithin
    <3> QED BY <2>1, <3>1 DEF AccountTyped
  <2>4. {cash, balance} \subseteq {NoBalance} \cup 0..(Capital + Cardinality(Holding))
    BY <2>1, ClosedCounted, PaperConstants DEF AccountTyped, CapitalWithin, NoBalance
  <2>5. cycle \in Place
    BY <2>1, WithinIsPlace
  <2> QED BY <2>1, <2>2, <2>3, <2>4, <2>5 DEF AccountTyped, TablesWithin, PaperTypeOK
<1> QED BY <1>1, WithinHolds, PTL

(* A restart after a tear, with positions saved and their balance not, may  *)
(* find capital that was never there, but only what positions that have     *)
(* been closed since had locked: one unit of each (_restore_positions takes *)
(* the last saved balance as it is).                                        *)
THEOREM TornCapitalIsBounded == PaperSpec => [](cash <= Capital + Cardinality(ClosedHeld))
<1>1. WithinInv => cash <= Capital + Cardinality(ClosedHeld)
  BY DEF WithinInv, CapitalWithin
<1> QED BY <1>1, WithinHolds, PTL
=============================================================================
