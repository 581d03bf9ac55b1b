------------------------ MODULE AdvancedPaperProofs ------------------------
(***************************************************************************)
(* Proofs about AdvancedPaper, for any plans, legs, markets, sizes and     *)
(* times.  Everything that happens to a position is a move of it (Moves):  *)
(* it stays sound and goes on from what is written of it.  One lemma says  *)
(* so for each part of the broker, from a fill to an event; the rest only  *)
(* puts moves together.                                                    *)
(***************************************************************************)
EXTENDS AdvancedPaper, TLAPS

(* Paper positions with several legs.  A leg's exit orders make up what it  *)
(* filled: what the earlier ones did and what the last was asked for.  This *)
(* is what keeps a later attempt from giving back too much.                 *)
SoundLeg(l, leg) ==
  /\ leg \in LegState
  /\ leg.filled <= Size[l] /\ leg.done <= leg.asked
  /\ leg.exit = "NONE" => leg.gone = 0 /\ leg.done = 0
  /\ leg.exit # "NONE" => leg.gone + leg.asked = leg.filled

BeforeExit == {"NONE", "PENDING_ENTRY", "OPEN"}

SoundPosition(p, pos) ==
  /\ pos \in PositionOf(p)
  /\ \A l \in LegsOf(p) : SoundLeg(l, pos.legs[l])
  /\ pos.status \in BeforeExit => \A l \in LegsOf(p) : pos.legs[l].exit = "NONE"
  /\ pos.status = "NONE" => \A l \in LegsOf(p) : pos.legs[l].filled = 0
  /\ pos.status = "OPEN" => \A l \in LegsOf(p) : pos.legs[l].filled = Size[l]
  /\ pos.status \in Leaving =>
       /\ \E l \in LegsOf(p) : Net(pos.legs[l]) > 0
       /\ \A l \in LegsOf(p) : /\ ~CanFill(l, pos.legs[l])
                               /\ Net(pos.legs[l]) > 0 => pos.legs[l].exit # "NONE"
  /\ pos.status \in TerminalStatus =>
       \A l \in LegsOf(p) : Net(pos.legs[l]) = 0 /\ ~CanFill(l, pos.legs[l])

(* What an order can only do to its leg.                                    *)
Exited(l, old, new) ==
  /\ SoundLeg(l, new)
  /\ new.filled = old.filled /\ new.entry = old.entry
  /\ GivenBack(old) <= GivenBack(new)
  /\ old.exit # "NONE" => new.exit # "NONE"

LEMMA LegFacts ==
  ASSUME NEW l \in Leg, NEW leg, SoundLeg(l, leg)
  PROVE  /\ leg.filled \in Nat /\ leg.gone \in Nat /\ leg.done \in Nat /\ leg.asked \in Nat
         /\ leg.since \in Nat
         /\ Size[l] \in Nat \ {0}
         /\ Net(leg) \in Nat /\ GivenBack(leg) \in Nat
         /\ Net(leg) = leg.filled - GivenBack(leg)
         /\ leg.exit # "NONE" => leg.asked - leg.done = Net(leg)
<1>1. leg \in LegState
  BY DEF SoundLeg
<1>2. /\ leg.filled \in Nat /\ leg.gone \in Nat /\ leg.done \in Nat /\ leg.asked \in Nat
      /\ leg.since \in Nat
  BY <1>1 DEF LegState
<1> QED BY <1>2, AdvancedAssumption DEF SoundLeg, Net, GivenBack

LEMMA AnswerFacts ==
  ASSUME NEW a \in FillAnswer
  PROVE  a.fills \in Nat
<1>1. CASE a \in {[fills |-> q, refused |-> FALSE] : q \in 0..MaxFill}
  <2>1. PICK q \in 0..MaxFill : a = [fills |-> q, refused |-> FALSE]
    BY <1>1
  <2>2. q \in Nat
    BY AdvancedAssumption
  <2> QED BY <2>1, <2>2
<1>2. CASE a \in {[fills |-> 0, refused |-> TRUE]}
  BY <1>2
<1> QED BY <1>1, <1>2 DEF FillAnswer

LEMMA OrderAfterType ==
  ASSUME NEW wanted \in Nat, NEW total \in Nat, total <= wanted, NEW got \in Nat,
         NEW market \in BOOLEAN, NEW a \in FillAnswer
  PROVE  OrderAfter(wanted, total, got, market, a) \in OrderState
<1>1. CASE a.refused
  BY <1>1 DEF OrderAfter, OrderState
<1>2. CASE ~a.refused
  BY <1>2 DEF OrderAfter, OrderState
<1> QED BY <1>1, <1>2

(* An entry order fills no more than the size of its leg.                   *)
LEMMA EntryFilledSound ==
  ASSUME NEW p \in Plan, NEW l \in Leg, NEW leg, SoundLeg(l, leg), leg.exit = "NONE",
         NEW e, e.answer[l] \in FillAnswer
  PROVE  LET new == EntryFilled(p, l, leg, e)
         IN  /\ SoundLeg(l, new) /\ new.exit = "NONE"
             /\ leg.filled <= new.filled /\ GivenBack(new) = GivenBack(leg)
<1> DEFINE room == IF l \in PostOnly /\ e.kind # "trade" THEN 0 ELSE e.answer[l].fills
           got == Least(Size[l] - leg.filled, room)
           total == leg.filled + got
           state == OrderAfter(Size[l], total, got, FALSE, e.answer[l])
           new == [leg EXCEPT !.filled = total, !.entry = state]
<1>1. room \in Nat
  BY AnswerFacts
<1>2. leg \in LegState /\ leg.filled \in Nat /\ leg.gone = 0 /\ leg.done = 0 /\ leg.asked \in Nat
  BY LegFacts DEF SoundLeg
<1>3. Size[l] \in Nat /\ leg.filled <= Size[l]
  BY LegFacts DEF SoundLeg
<1>4. got \in Nat /\ total \in Nat /\ total <= Size[l] /\ leg.filled <= total
  <2> HIDE DEF room
  <2> QED BY <1>1, <1>2, <1>3 DEF Least
<1>5. state \in OrderState
  <2> HIDE DEF got, total
  <2> QED BY <1>3, <1>4, OrderAfterType
<1>6. CASE e.time < CreatedAt[p]
  BY <1>6, <1>2 DEF EntryFilled, GivenBack
<1>7. CASE ~(e.time < CreatedAt[p])
  <2>1. EntryFilled(p, l, leg, e) = new
    BY <1>7 DEF EntryFilled
  <2> HIDE DEF total, state
  <2>2. new.filled = total /\ new.exit = "NONE" /\ new.gone = 0 /\ new.done = 0
        /\ new.asked = leg.asked
    BY <1>2 DEF LegState
  <2>3. new \in LegState
    BY <1>2, <1>4, <1>5 DEF LegState
  <2> HIDE DEF new
  <2> QED BY <2>1, <2>2, <2>3, <1>2, <1>4 DEF SoundLeg, GivenBack
<1> QED BY <1>6, <1>7

(* Another attempt is for all that is left, and leaves the sum as it is.    *)
LEMMA ExitOrderSound ==
  ASSUME NEW l \in Leg, NEW leg, SoundLeg(l, leg), NEW t \in Nat
  PROVE  LET new == ExitOrder(leg, t)
         IN  Exited(l, leg, new) /\ new.exit = "OPEN" /\ Net(new) = Net(leg)
<1> DEFINE new == ExitOrder(leg, t)
<1>1. leg \in LegState /\ Net(leg) \in Nat /\ leg.gone + leg.done \in Nat /\ leg.filled \in Nat
      /\ leg.gone \in Nat /\ leg.done \in Nat
  BY LegFacts DEF SoundLeg
<1>2. /\ new.exit = "OPEN" /\ new.asked = Net(leg) /\ new.gone = leg.gone + leg.done
      /\ new.done = 0 /\ new.since = t /\ new.filled = leg.filled /\ new.entry = leg.entry
  BY <1>1 DEF ExitOrder, LegState
<1>3. new \in LegState
  BY <1>1 DEF ExitOrder, LegState, OrderState
<1> HIDE DEF new
<1>4. SoundLeg(l, new)
  BY <1>1, <1>2, <1>3 DEF SoundLeg, Net
<1>5. Exited(l, leg, new) /\ Net(new) = Net(leg)
  BY <1>1, <1>2, <1>4 DEF Exited, Net, GivenBack
<1> QED BY <1>2, <1>5 DEF new

(* An exit order does no more than it was asked for.                        *)
LEMMA ExitFilledSound ==
  ASSUME NEW l \in Leg, NEW leg, SoundLeg(l, leg), leg.exit # "NONE",
         NEW e, e.answer[l] \in FillAnswer
  PROVE  Exited(l, leg, ExitFilled(l, leg, e))
<1> DEFINE got == Least(leg.asked - leg.done, e.answer[l].fills)
           total == leg.done + got
           state == OrderAfter(leg.asked, total, got, TRUE, e.answer[l])
           new == [leg EXCEPT !.done = total, !.exit = state]
<1>1. leg \in LegState /\ leg.filled \in Nat /\ leg.gone \in Nat /\ leg.done \in Nat
      /\ leg.asked \in Nat /\ leg.done <= leg.asked
  BY LegFacts DEF SoundLeg
<1>2. got \in Nat /\ total \in Nat /\ total <= leg.asked /\ leg.done <= total
  BY <1>1, AnswerFacts DEF Least
<1>3. state \in OrderState
  <2> HIDE DEF got, total
  <2> QED BY <1>1, <1>2, OrderAfterType
<1>4. CASE e.time < leg.since
  BY <1>4, <1>1 DEF ExitFilled, Exited, GivenBack
<1>5. CASE ~(e.time < leg.since)
  <2>1. ExitFilled(l, leg, e) = new
    BY <1>5 DEF ExitFilled
  <2> HIDE DEF total, state
  <2>2. /\ new.done = total /\ new.exit = state /\ new.gone = leg.gone /\ new.asked = leg.asked
        /\ new.filled = leg.filled /\ new.entry = leg.entry
    BY <1>1 DEF LegState
  <2>3. new \in LegState
    BY <1>1, <1>2, <1>3 DEF LegState
  <2>4. state # "NONE"
    BY <1>3 DEF OrderState
  <2> HIDE DEF new
  <2>5. SoundLeg(l, new)
    BY <2>2, <2>3, <2>4, <1>1, <1>2 DEF SoundLeg
  <2> QED BY <2>1, <2>2, <2>4, <2>5, <1>1, <1>2 DEF Exited, GivenBack
<1> QED BY <1>4, <1>5

LEMMA ExitedTransitive ==
  ASSUME NEW l \in Leg, NEW a, NEW b, NEW c, SoundLeg(l, a), Exited(l, a, b), Exited(l, b, c)
  PROVE  Exited(l, a, c)
<1>1. GivenBack(a) \in Nat /\ GivenBack(b) \in Nat /\ GivenBack(c) \in Nat
  BY LegFacts DEF Exited
<1> QED BY <1>1 DEF Exited

LEMMA ExitLegSound ==
  ASSUME NEW l \in Leg, NEW leg, SoundLeg(l, leg), NEW e, e.time \in Nat,
         MarketOf[l] = e.instrument => e.answer[l] \in FillAnswer
  PROVE  Exited(l, leg, ExitLeg(l, leg, e))
<1> DEFINE short == leg.exit = "NONE" \/ (leg.exit \in TerminalOrder /\ leg.done < leg.asked)
           asked == IF short THEN ExitOrder(leg, e.time) ELSE leg
<1>1. Exited(l, leg, leg)
  BY LegFacts DEF Exited
<1>2. CASE ~(MarketOf[l] = e.instrument /\ Net(leg) > 0)
  BY <1>1, <1>2 DEF ExitLeg
<1>3. CASE MarketOf[l] = e.instrument /\ Net(leg) > 0
  <2>1. Exited(l, leg, asked) /\ asked.exit # "NONE"
    BY <1>1, ExitOrderSound
  <2>2. ExitLeg(l, leg, e) = ExitFilled(l, asked, e)
    BY <1>3 DEF ExitLeg
  <2> HIDE DEF asked
  <2>3. Exited(l, asked, ExitFilled(l, asked, e))
    BY <2>1, <1>3, ExitFilledSound DEF Exited
  <2> QED BY <2>1, <2>2, <2>3, ExitedTransitive
<1> QED BY <1>2, <1>3

(* A step of a position as a whole: what it becomes is sound, continues     *)
(* what was, and is active only if it was.                                  *)
Moves(p, old, new) ==
  /\ SoundPosition(p, new) /\ Continues(p, old, new)
  /\ new.status \in ActiveStatus => old.status \in ActiveStatus
  /\ old.status = "NONE" => new.status = "NONE"

LEMMA RankOf ==
  ASSUME NEW s \in {"NONE"} \cup ActiveStatus \cup TerminalStatus
  PROVE  /\ Rank(s) \in 0..4
         /\ Rank(s) = 0 <=> s = "NONE"
         /\ Rank(s) = 1 <=> s = "PENDING_ENTRY"
         /\ Rank(s) = 2 <=> s = "OPEN"
         /\ Rank(s) = 3 <=> s \in Leaving
         /\ Rank(s) = 4 <=> s \in TerminalStatus
         /\ Rank(s) > 1 <=> s \notin {"NONE", "PENDING_ENTRY"}
BY DEF Rank, ActiveStatus, TerminalStatus, Leaving

LEMMA ContinuesItself ==
  ASSUME NEW p \in Plan, NEW pos, SoundPosition(p, pos)
  PROVE  Continues(p, pos, pos)
<1>1. pos.status \in {"NONE"} \cup ActiveStatus \cup TerminalStatus
  BY DEF SoundPosition, PositionOf
<1>2. Rank(pos.status) \in 0..4
  BY <1>1, RankOf
<1>3. \A l \in LegsOf(p) : l \in Leg /\ pos.legs[l].filled \in Nat /\ GivenBack(pos.legs[l]) \in Nat
  BY LegFacts DEF SoundPosition, LegsOf
<1> QED BY <1>2, <1>3 DEF Continues

LEMMA ContinuesOn ==
  ASSUME NEW p \in Plan, NEW a, NEW b, NEW c,
         SoundPosition(p, a), SoundPosition(p, b), SoundPosition(p, c),
         Continues(p, a, b), Continues(p, b, c)
  PROVE  Continues(p, a, c)
<1> DEFINE Known == {"NONE"} \cup ActiveStatus \cup TerminalStatus
<1>1. a.status \in Known /\ b.status \in Known /\ c.status \in Known
  BY DEF SoundPosition, PositionOf
<1>2. Rank(a.status) \in 0..4 /\ Rank(b.status) \in 0..4 /\ Rank(c.status) \in 0..4
  BY <1>1, RankOf
<1>3. Rank(a.status) <= Rank(c.status)
  BY <1>2 DEF Continues
<1>4. a.status = "COMPENSATING" => c.status \in {"COMPENSATING", "COMPENSATED"}
  BY DEF Continues, TerminalStatus
<1>5. a.status \in {"OPEN", "PENDING_EXIT"} => c.status \in {"OPEN", "PENDING_EXIT", "CLOSED"}
  BY DEF Continues, TerminalStatus
<1>6. a.status \in TerminalStatus => c = a
  BY DEF Continues
<1>7. ASSUME NEW l \in LegsOf(p)
      PROVE  /\ a.legs[l].filled <= c.legs[l].filled
             /\ Rank(a.status) > 1 => c.legs[l].filled = a.legs[l].filled
             /\ GivenBack(a.legs[l]) <= GivenBack(c.legs[l])
  <2>1. l \in Leg
    BY DEF LegsOf
  <2>2. /\ a.legs[l].filled \in Nat /\ b.legs[l].filled \in Nat /\ c.legs[l].filled \in Nat
        /\ GivenBack(a.legs[l]) \in Nat /\ GivenBack(b.legs[l]) \in Nat
        /\ GivenBack(c.legs[l]) \in Nat
    BY <2>1, LegFacts DEF SoundPosition
  <2> QED BY <2>2, <1>2 DEF Continues
<1> QED BY <1>3, <1>4, <1>5, <1>6, <1>7 DEF Continues

(* Exits are started for what is filled, when no entry order works.         *)
LEMMA StartExitSound ==
  ASSUME NEW p \in Plan, NEW pos, pos \in PositionOf(p),
         \A l \in LegsOf(p) : SoundLeg(l, pos.legs[l]) /\ pos.legs[l].exit = "NONE"
                              /\ ~CanFill(l, pos.legs[l]),
         SomeFilled(pos), NEW status \in Leaving, NEW t \in Nat
  PROVE  LET new == StartExit(pos, status, t)
         IN  /\ SoundPosition(p, new) /\ new.status = status
             /\ \A l \in LegsOf(p) : Exited(l, pos.legs[l], new.legs[l])
<1> DEFINE new == StartExit(pos, status, t)
           leg(l) == IF Net(pos.legs[l]) > 0 /\ pos.legs[l].exit = "NONE"
                     THEN ExitOrder(pos.legs[l], t) ELSE pos.legs[l]
<1>1. DOMAIN pos.legs = LegsOf(p) /\ LegsOf(p) \subseteq Leg
  BY DEF PositionOf, LegsOf
<1>2. new = [pos EXCEPT !.status = status, !.legs = [l \in LegsOf(p) |-> leg(l)]]
  BY <1>1 DEF StartExit
<1>3. ASSUME NEW l \in LegsOf(p)
      PROVE  /\ Exited(l, pos.legs[l], leg(l))
             /\ Net(leg(l)) = Net(pos.legs[l])
             /\ Net(pos.legs[l]) > 0 => leg(l).exit # "NONE"
             /\ leg(l) \in LegState /\ SoundLeg(l, leg(l))
  <2>1. l \in Leg /\ SoundLeg(l, pos.legs[l])
    BY <1>1
  <2>2. Exited(l, pos.legs[l], pos.legs[l])
    BY <2>1, LegFacts DEF Exited
  <2> QED BY <2>1, <2>2, ExitOrderSound DEF Exited, SoundLeg
<1> HIDE DEF leg
<1>4. new.status = status /\ new.legs = [l \in LegsOf(p) |-> leg(l)]
  BY <1>2 DEF PositionOf
<1>5. new \in PositionOf(p)
  <2>1. [l \in LegsOf(p) |-> leg(l)] \in [LegsOf(p) -> LegState]
    BY <1>3
  <2>2. status \in {"NONE"} \cup ActiveStatus \cup TerminalStatus
    BY DEF ActiveStatus
  <2> QED BY <1>2, <2>1, <2>2 DEF PositionOf
<1> HIDE DEF new
<1>6. PICK k \in LegsOf(p) : pos.legs[k].filled > 0
  BY <1>1 DEF SomeFilled
<1>7. Net(pos.legs[k]) > 0
  <2>1. k \in Leg /\ SoundLeg(k, pos.legs[k]) /\ pos.legs[k].exit = "NONE"
    BY <1>1
  <2>2. pos.legs[k].gone = 0 /\ pos.legs[k].done = 0 /\ pos.legs[k].filled \in Nat
    BY <2>1, LegFacts DEF SoundLeg
  <2> QED BY <2>2, <1>6 DEF Net
<1>8. \A l \in LegsOf(p) : ~CanFill(l, new.legs[l])
  BY <1>3, <1>4 DEF CanFill, Unfilled, Exited
<1>9. status \notin BeforeExit /\ status \notin TerminalStatus
  BY DEF Leaving, BeforeExit, TerminalStatus
<1>10. SoundPosition(p, new)
  BY <1>3, <1>4, <1>5, <1>6, <1>7, <1>8, <1>9 DEF SoundPosition, BeforeExit
<1>11. \A l \in LegsOf(p) : Exited(l, pos.legs[l], new.legs[l])
  BY <1>3, <1>4
<1> QED BY <1>4, <1>10, <1>11 DEF new

(* What cancelling or expiring the orders that work does to the legs.       *)
Closed(pos, state) ==
  [pos EXCEPT !.legs = [l \in DOMAIN pos.legs |->
                          IF CanFill(l, pos.legs[l])
                          THEN [pos.legs[l] EXCEPT !.entry = state] ELSE pos.legs[l]]]

LEMMA ClosedSound ==
  ASSUME NEW p \in Plan, NEW pos, pos \in PositionOf(p),
         \A l \in LegsOf(p) : SoundLeg(l, pos.legs[l]) /\ pos.legs[l].exit = "NONE",
         NEW state \in TerminalOrder
  PROVE  LET new == Closed(pos, state)
         IN  /\ new \in PositionOf(p) /\ new.status = pos.status
             /\ \A l \in LegsOf(p) :
                  /\ SoundLeg(l, new.legs[l]) /\ new.legs[l].exit = "NONE"
                  /\ ~CanFill(l, new.legs[l])
                  /\ new.legs[l].filled = pos.legs[l].filled
                  /\ GivenBack(new.legs[l]) = GivenBack(pos.legs[l])
<1> DEFINE new == Closed(pos, state)
           leg(l) == IF CanFill(l, pos.legs[l])
                     THEN [pos.legs[l] EXCEPT !.entry = state] ELSE pos.legs[l]
<1>1. DOMAIN pos.legs = LegsOf(p) /\ LegsOf(p) \subseteq Leg
  BY DEF PositionOf, LegsOf
<1>2. new = [pos EXCEPT !.legs = [l \in LegsOf(p) |-> leg(l)]]
  BY <1>1 DEF Closed
<1>3. ASSUME NEW l \in LegsOf(p)
      PROVE  /\ SoundLeg(l, leg(l)) /\ leg(l).exit = "NONE"
             /\ ~CanFill(l, leg(l)) /\ leg(l) \in LegState
             /\ leg(l).filled = pos.legs[l].filled
             /\ GivenBack(leg(l)) = GivenBack(pos.legs[l])
  <2>1. pos.legs[l] \in LegState /\ SoundLeg(l, pos.legs[l]) /\ pos.legs[l].exit = "NONE"
    BY DEF SoundLeg
  <2>2. state \in OrderState
    BY DEF TerminalOrder, OrderState
  <2>3. CASE CanFill(l, pos.legs[l])
    BY <2>1, <2>2, <2>3 DEF SoundLeg, LegState, GivenBack, CanFill
  <2>4. CASE ~CanFill(l, pos.legs[l])
    BY <2>1, <2>4
  <2> QED BY <2>3, <2>4
<1> HIDE DEF leg
<1>4. new.status = pos.status /\ new.legs = [l \in LegsOf(p) |-> leg(l)]
  BY <1>2 DEF PositionOf
<1>5. new \in PositionOf(p)
  <2>1. [l \in LegsOf(p) |-> leg(l)] \in [LegsOf(p) -> LegState]
    BY <1>3
  <2> QED BY <1>2, <2>1 DEF PositionOf
<1> HIDE DEF new
<1>6. \A l \in LegsOf(p) :
        /\ SoundLeg(l, new.legs[l]) /\ new.legs[l].exit = "NONE"
        /\ ~CanFill(l, new.legs[l])
        /\ new.legs[l].filled = pos.legs[l].filled
        /\ GivenBack(new.legs[l]) = GivenBack(pos.legs[l])
  BY <1>3, <1>4
<1> QED BY <1>4, <1>5, <1>6 DEF new

(* Entries that are looked at become open, are left, over, or wait on.      *)
Entered == {"PENDING_ENTRY", "OPEN", "PENDING_EXIT", "COMPENSATING", "EXPIRED", "REJECTED"}

LEMMA FinalizeEntrySound ==
  ASSUME NEW p \in Plan, NEW pos, pos \in PositionOf(p), pos.status = "PENDING_ENTRY",
         \A l \in LegsOf(p) : SoundLeg(l, pos.legs[l]) /\ pos.legs[l].exit = "NONE",
         NEW t \in Nat
  PROVE  LET new == FinalizeEntry(p, pos, t)
         IN  /\ SoundPosition(p, new) /\ new.status \in Entered
             /\ \A l \in LegsOf(p) : /\ new.legs[l].filled = pos.legs[l].filled
                                     /\ GivenBack(pos.legs[l]) <= GivenBack(new.legs[l])
<1> DEFINE new == FinalizeEntry(p, pos, t)
           cut == CancelEntries(pos)
           lapsed == \A l \in DOMAIN cut.legs : cut.legs[l].entry \in {"EXPIRED", "CANCELLED"}
<1>1. /\ DOMAIN pos.legs = LegsOf(p) /\ LegsOf(p) \subseteq Leg /\ LegsOf(p) # {}
      /\ ExitAt[p] \in Nat
  BY AdvancedAssumption DEF PositionOf, LegsOf
<1>2. \A l \in LegsOf(p) :
        /\ pos.legs[l].filled \in Nat /\ GivenBack(pos.legs[l]) \in Nat
        /\ Size[l] \in Nat \ {0} /\ pos.legs[l].filled <= Size[l]
  BY <1>1, LegFacts DEF SoundLeg
<1>3. /\ cut \in PositionOf(p) /\ cut.status = "PENDING_ENTRY"
      /\ \A l \in LegsOf(p) :
           /\ SoundLeg(l, cut.legs[l]) /\ cut.legs[l].exit = "NONE"
           /\ ~CanFill(l, cut.legs[l])
           /\ cut.legs[l].filled = pos.legs[l].filled
           /\ GivenBack(cut.legs[l]) = GivenBack(pos.legs[l])
  <2>1. cut = Closed(pos, "CANCELLED") /\ "CANCELLED" \in TerminalOrder
    BY DEF CancelEntries, Closed, TerminalOrder
  <2> HIDE DEF cut
  <2> QED BY <2>1, ClosedSound
<1> HIDE DEF cut
<1>4. CASE EveryLegIn(pos)
  <2>1. \A l \in LegsOf(p) : pos.legs[l].filled = Size[l] /\ ~CanFill(l, pos.legs[l])
    BY <1>1, <1>2, <1>4 DEF EveryLegIn, Unfilled, CanFill
  <2>2. SomeFilled(pos)
    BY <1>1, <1>2, <2>1 DEF SomeFilled
  <2>3. CASE t < ExitAt[p]
    <3>1. new = [pos EXCEPT !.status = "OPEN"]
      <4>1. ~LegLost(pos)
        BY <1>1, <1>4 DEF EveryLegIn, LegLost
      <4> QED BY <1>1, <1>4, <2>3, <4>1 DEF FinalizeEntry
    <3>2. new \in PositionOf(p) /\ new.status = "OPEN" /\ new.legs = pos.legs
      BY <3>1 DEF PositionOf, ActiveStatus
    <3> HIDE DEF new
    <3>3. SoundPosition(p, new)
      BY <3>2, <2>1 DEF SoundPosition, Leaving, TerminalStatus
    <3>4. new.status \in Entered /\ \A l \in LegsOf(p) :
             /\ new.legs[l].filled = pos.legs[l].filled
             /\ GivenBack(pos.legs[l]) <= GivenBack(new.legs[l])
      BY <3>2, <1>2 DEF Entered
    <3> QED BY <3>3, <3>4 DEF new
  <2>4. CASE ~(t < ExitAt[p])
    <3>1. t >= ExitAt[p]
      BY <2>4, <1>1
    <3>2. ~LegLost(pos)
      BY <1>1, <1>4 DEF EveryLegIn, LegLost
    <3>3. new = StartExit(pos, "PENDING_EXIT", t)
      BY <1>1, <1>4, <2>4, <3>1, <3>2 DEF FinalizeEntry
    <3>4. "PENDING_EXIT" \in Leaving
      BY DEF Leaving
    <3> HIDE DEF new
    <3>5. /\ SoundPosition(p, new) /\ new.status = "PENDING_EXIT"
          /\ \A l \in LegsOf(p) : Exited(l, pos.legs[l], new.legs[l])
      BY <3>3, <3>4, <2>1, <2>2, StartExitSound
    <3> QED BY <3>5 DEF Exited, Entered, new
  <2> QED BY <2>3, <2>4
<1>5. CASE ~EveryLegIn(pos) /\ LegLost(pos) /\ SomeFilled(pos)
  <2>1. new = StartExit(cut, "COMPENSATING", t)
    BY <1>5 DEF FinalizeEntry, cut
  <2>2. "COMPENSATING" \in Leaving
    BY DEF Leaving
  <2>3. DOMAIN cut.legs = LegsOf(p)
    BY <1>3 DEF PositionOf
  <2>4. SomeFilled(cut)
    BY <1>1, <1>3, <1>5, <2>3 DEF SomeFilled
  <2> HIDE DEF new
  <2>5. /\ SoundPosition(p, new) /\ new.status = "COMPENSATING"
        /\ \A l \in LegsOf(p) : Exited(l, cut.legs[l], new.legs[l])
    BY <2>1, <2>2, <2>4, <1>3, StartExitSound
  <2>6. \A l \in LegsOf(p) : /\ new.legs[l].filled = pos.legs[l].filled
                             /\ GivenBack(pos.legs[l]) <= GivenBack(new.legs[l])
    BY <2>5, <1>3 DEF Exited
  <2> QED BY <2>5, <2>6 DEF Entered, new
<1>6. CASE ~EveryLegIn(pos) /\ LegLost(pos) /\ ~SomeFilled(pos)
  <2>1. new = [cut EXCEPT !.status = IF lapsed THEN "EXPIRED" ELSE "REJECTED"]
    BY <1>6 DEF FinalizeEntry, cut
  <2>2. /\ new \in PositionOf(p) /\ new.status \in {"EXPIRED", "REJECTED"}
        /\ new.legs = cut.legs
    BY <2>1, <1>3 DEF PositionOf, TerminalStatus
  <2> HIDE DEF new
  <2>3. \A l \in LegsOf(p) : Net(cut.legs[l]) = 0
    <3> SUFFICES ASSUME NEW l \in LegsOf(p) PROVE Net(cut.legs[l]) = 0
      OBVIOUS
    <3>1. cut.legs[l].filled = 0
      BY <1>1, <1>2, <1>3, <1>6 DEF SomeFilled
    <3>2. cut.legs[l].gone = 0 /\ cut.legs[l].done = 0
      BY <1>3 DEF SoundLeg
    <3> QED BY <3>1, <3>2 DEF Net
  <2>4. SoundPosition(p, new)
    BY <2>2, <2>3, <1>3 DEF SoundPosition, BeforeExit, Leaving, TerminalStatus
  <2>5. new.status \in Entered /\ \A l \in LegsOf(p) :
             /\ new.legs[l].filled = pos.legs[l].filled
             /\ GivenBack(pos.legs[l]) <= GivenBack(new.legs[l])
    BY <2>2, <1>2, <1>3 DEF Entered
  <2> QED BY <2>4, <2>5 DEF new
<1>7. CASE ~EveryLegIn(pos) /\ ~LegLost(pos)
  <2>1. new = pos
    BY <1>7 DEF FinalizeEntry
  <2>2. SoundPosition(p, pos)
    BY DEF SoundPosition, BeforeExit, Leaving, TerminalStatus
  <2> QED BY <2>1, <2>2, <1>2 DEF Entered
<1> QED BY <1>4, <1>5, <1>6, <1>7

(* A look at the entries is a move, when no leg lost what it had before it. *)
LEMMA EntryMoves ==
  ASSUME NEW p \in Plan, NEW old, SoundPosition(p, old), old.status = "PENDING_ENTRY",
         NEW pos, pos \in PositionOf(p), pos.status = "PENDING_ENTRY",
         \A l \in LegsOf(p) : /\ SoundLeg(l, pos.legs[l]) /\ pos.legs[l].exit = "NONE"
                              /\ old.legs[l].filled <= pos.legs[l].filled
                              /\ GivenBack(pos.legs[l]) = GivenBack(old.legs[l]),
         NEW t \in Nat
  PROVE  Moves(p, old, FinalizeEntry(p, pos, t))
<1> DEFINE new == FinalizeEntry(p, pos, t)
<1>1. /\ SoundPosition(p, new) /\ new.status \in Entered
      /\ \A l \in LegsOf(p) : /\ new.legs[l].filled = pos.legs[l].filled
                              /\ GivenBack(pos.legs[l]) <= GivenBack(new.legs[l])
  BY FinalizeEntrySound
<1> HIDE DEF new
<1>2. Rank(old.status) = 1 /\ Rank(new.status) >= 1 /\ Rank(new.status) \in 0..4
  BY <1>1 DEF Entered, Rank, Leaving, TerminalStatus
<1>3. Continues(p, old, new)
  BY <1>1, <1>2 DEF Continues, TerminalStatus
<1> QED BY <1>1, <1>3 DEF Moves, new, ActiveStatus

LEMMA ExpireMoves ==
  ASSUME NEW p \in Plan, NEW pos, SoundPosition(p, pos), NEW t \in Nat
  PROVE  Moves(p, pos, ExpireEntries(p, pos, t))
<1>1. CASE /\ pos.status = "PENDING_ENTRY" /\ t >= ExpiresAt[p]
           /\ \E l \in DOMAIN pos.legs : CanFill(l, pos.legs[l])
  <2> DEFINE cut == Closed(pos, "EXPIRED")
  <2>1. ExpireEntries(p, pos, t) = FinalizeEntry(p, cut, t)
    BY <1>1 DEF ExpireEntries, Closed
  <2>2. pos \in PositionOf(p) /\ \A l \in LegsOf(p) : /\ SoundLeg(l, pos.legs[l])
                                                      /\ pos.legs[l].exit = "NONE"
    BY <1>1 DEF SoundPosition, BeforeExit
  <2>3. "EXPIRED" \in TerminalOrder
    BY DEF TerminalOrder
  <2>4. /\ cut \in PositionOf(p) /\ cut.status = "PENDING_ENTRY"
        /\ \A l \in LegsOf(p) : /\ SoundLeg(l, cut.legs[l]) /\ cut.legs[l].exit = "NONE"
                                /\ cut.legs[l].filled = pos.legs[l].filled
                                /\ GivenBack(cut.legs[l]) = GivenBack(pos.legs[l])
    BY <1>1, <2>2, <2>3, ClosedSound
  <2>5. \A l \in LegsOf(p) : pos.legs[l].filled <= cut.legs[l].filled
    BY <2>2, <2>4, LegFacts DEF LegsOf
  <2> HIDE DEF cut
  <2> QED BY <1>1, <2>1, <2>4, <2>5, EntryMoves
<1>2. CASE ~(/\ pos.status = "PENDING_ENTRY" /\ t >= ExpiresAt[p]
             /\ \E l \in DOMAIN pos.legs : CanFill(l, pos.legs[l]))
  <2>1. ExpireEntries(p, pos, t) = pos
    BY <1>2 DEF ExpireEntries
  <2> QED BY <2>1, ContinuesItself DEF Moves
<1> QED BY <1>1, <1>2

(* An event as the position sees it: with a time, and an answer for each of *)
(* its legs on the instrument of the event.                                 *)
EventFor(p, e) ==
  /\ e.time \in Nat
  /\ \A l \in LegsOf(p) : MarketOf[l] = e.instrument => e.answer[l] \in FillAnswer

LEMMA AdvanceEntryMoves ==
  ASSUME NEW p \in Plan, NEW pos, SoundPosition(p, pos), pos.status = "PENDING_ENTRY",
         NEW e, EventFor(p, e)
  PROVE  Moves(p, pos, AdvanceEntry(p, pos, e))
<1> DEFINE leg(l) == IF MarketOf[l] = e.instrument /\ CanFill(l, pos.legs[l])
                     THEN EntryFilled(p, l, pos.legs[l], e) ELSE pos.legs[l]
           mid == [pos EXCEPT !.legs = [l \in DOMAIN pos.legs |-> leg(l)]]
<1>1. pos \in PositionOf(p) /\ DOMAIN pos.legs = LegsOf(p) /\ LegsOf(p) \subseteq Leg
  BY DEF SoundPosition, PositionOf, LegsOf
<1>2. AdvanceEntry(p, pos, e) = FinalizeEntry(p, mid, e.time)
  BY DEF AdvanceEntry
<1>3. ASSUME NEW l \in LegsOf(p)
      PROVE  /\ SoundLeg(l, leg(l)) /\ leg(l).exit = "NONE" /\ leg(l) \in LegState
             /\ pos.legs[l].filled <= leg(l).filled
             /\ GivenBack(leg(l)) = GivenBack(pos.legs[l])
  <2>1. l \in Leg /\ SoundLeg(l, pos.legs[l]) /\ pos.legs[l].exit = "NONE"
    BY <1>1 DEF SoundPosition, BeforeExit
  <2>2. CASE MarketOf[l] = e.instrument /\ CanFill(l, pos.legs[l])
    <3>1. e.answer[l] \in FillAnswer
      BY <2>2 DEF EventFor
    <3> QED BY <2>1, <2>2, <3>1, EntryFilledSound DEF SoundLeg
  <2>3. CASE ~(MarketOf[l] = e.instrument /\ CanFill(l, pos.legs[l]))
    BY <2>1, <2>3, LegFacts DEF SoundLeg
  <2> QED BY <2>2, <2>3
<1> HIDE DEF leg
<1>4. mid.status = "PENDING_ENTRY" /\ mid.legs = [l \in LegsOf(p) |-> leg(l)]
  BY <1>1 DEF PositionOf
<1>5. mid \in PositionOf(p)
  <2>1. [l \in LegsOf(p) |-> leg(l)] \in [LegsOf(p) -> LegState]
    BY <1>3
  <2> QED BY <1>1, <2>1 DEF PositionOf
<1> HIDE DEF mid
<1>6. \A l \in LegsOf(p) : /\ SoundLeg(l, mid.legs[l]) /\ mid.legs[l].exit = "NONE"
                           /\ pos.legs[l].filled <= mid.legs[l].filled
                           /\ GivenBack(mid.legs[l]) = GivenBack(pos.legs[l])
  BY <1>3, <1>4
<1> QED BY <1>2, <1>4, <1>5, <1>6, EntryMoves DEF EventFor

(* A position that is being left gives back, and is over when nothing is    *)
(* left.                                                                    *)
LEMMA AdvanceExitMoves ==
  ASSUME NEW p \in Plan, NEW pos, SoundPosition(p, pos), pos.status \in Leaving,
         NEW e, EventFor(p, e)
  PROVE  Moves(p, pos, AdvanceExit(pos, e))
<1> DEFINE leg(l) == ExitLeg(l, pos.legs[l], e)
           after == [pos EXCEPT !.legs = [l \in DOMAIN pos.legs |-> leg(l)]]
           flat == \A l \in DOMAIN after.legs : Net(after.legs[l]) = 0
           over == [after EXCEPT !.status = IF pos.status = "COMPENSATING" THEN "COMPENSATED"
                                                                          ELSE "CLOSED"]
<1>1. pos \in PositionOf(p) /\ DOMAIN pos.legs = LegsOf(p) /\ LegsOf(p) \subseteq Leg
  BY DEF SoundPosition, PositionOf, LegsOf
<1>2. AdvanceExit(pos, e) = IF flat THEN over ELSE after
  BY DEF AdvanceExit
<1>3. ASSUME NEW l \in LegsOf(p)
      PROVE  /\ SoundLeg(l, pos.legs[l]) /\ Exited(l, pos.legs[l], leg(l))
             /\ leg(l) \in LegState /\ ~CanFill(l, leg(l))
             /\ Net(leg(l)) > 0 => leg(l).exit # "NONE"
             /\ Net(leg(l)) \in Nat
  <2>1. l \in Leg /\ SoundLeg(l, pos.legs[l]) /\ ~CanFill(l, pos.legs[l])
        /\ (Net(pos.legs[l]) > 0 => pos.legs[l].exit # "NONE")
    BY <1>1 DEF SoundPosition
  <2>2. Exited(l, pos.legs[l], leg(l))
    BY <2>1, ExitLegSound DEF EventFor
  <2> HIDE DEF leg
  <2>3. SoundLeg(l, leg(l)) /\ leg(l) \in LegState
    BY <2>2 DEF Exited, SoundLeg
  <2>4. ~CanFill(l, leg(l))
    BY <2>1, <2>2 DEF Exited, CanFill, Unfilled
  <2>5. Net(leg(l)) <= Net(pos.legs[l]) /\ Net(leg(l)) \in Nat /\ Net(pos.legs[l]) \in Nat
    <3>1. /\ Net(leg(l)) = leg(l).filled - GivenBack(leg(l))
          /\ Net(leg(l)) \in Nat /\ leg(l).filled \in Nat /\ GivenBack(leg(l)) \in Nat
      BY <2>1, <2>3, LegFacts
    <3>2. /\ Net(pos.legs[l]) = pos.legs[l].filled - GivenBack(pos.legs[l])
          /\ Net(pos.legs[l]) \in Nat /\ pos.legs[l].filled \in Nat
          /\ GivenBack(pos.legs[l]) \in Nat
      BY <2>1, LegFacts
    <3> QED BY <3>1, <3>2, <2>2 DEF Exited
  <2>6. Net(leg(l)) > 0 => leg(l).exit # "NONE"
    BY <2>1, <2>2, <2>5 DEF Exited
  <2> QED BY <2>1, <2>2, <2>3, <2>4, <2>5, <2>6
<1> HIDE DEF leg
<1>4. after.status = pos.status /\ after.legs = [l \in LegsOf(p) |-> leg(l)]
  BY <1>1 DEF PositionOf
<1>5. after \in PositionOf(p)
  <2>1. [l \in LegsOf(p) |-> leg(l)] \in [LegsOf(p) -> LegState]
    BY <1>3
  <2> QED BY <1>1, <2>1 DEF PositionOf
<1> HIDE DEF after
<1>6. \A l \in LegsOf(p) :
        /\ SoundLeg(l, after.legs[l]) /\ ~CanFill(l, after.legs[l])
        /\ Net(after.legs[l]) > 0 => after.legs[l].exit # "NONE"
        /\ Net(after.legs[l]) \in Nat
        /\ after.legs[l].filled = pos.legs[l].filled
        /\ GivenBack(pos.legs[l]) <= GivenBack(after.legs[l])
        /\ pos.legs[l].filled \in Nat
  BY <1>1, <1>3, <1>4, LegFacts DEF Exited
<1>7. pos.status \notin BeforeExit \cup TerminalStatus /\ Rank(pos.status) = 3
  BY DEF Leaving, BeforeExit, TerminalStatus, Rank
<1>8. CASE flat
  <2>1. over.status \in {"COMPENSATED", "CLOSED"} /\ over.legs = after.legs
        /\ over \in PositionOf(p)
        /\ (pos.status = "COMPENSATING" => over.status = "COMPENSATED")
        /\ (pos.status = "PENDING_EXIT" => over.status = "CLOSED")
    BY <1>5 DEF PositionOf, TerminalStatus
  <2> HIDE DEF over
  <2>2. \A l \in LegsOf(p) : Net(after.legs[l]) = 0
    BY <1>4, <1>8
  <2>3. SoundPosition(p, over)
    BY <2>1, <2>2, <1>6 DEF SoundPosition, BeforeExit, Leaving, TerminalStatus
  <2>4. Rank(over.status) = 4
    BY <2>1 DEF Rank, Leaving, TerminalStatus
  <2>5. Continues(p, pos, over)
    BY <2>1, <2>4, <1>6, <1>7 DEF Continues, Leaving
  <2> QED BY <1>2, <1>8, <2>1, <2>3, <2>5, <1>7 DEF Moves, ActiveStatus, BeforeExit
<1>9. CASE ~flat
  <2>1. \E l \in LegsOf(p) : Net(after.legs[l]) > 0
    BY <1>4, <1>6, <1>9
  <2>2. SoundPosition(p, after)
    BY <2>1, <1>4, <1>5, <1>6, <1>7 DEF SoundPosition, BeforeExit
  <2>3. Continues(p, pos, after)
    BY <1>4, <1>6, <1>7 DEF Continues, Leaving
  <2> QED BY <1>2, <1>4, <1>7, <1>9, <2>2, <2>3 DEF Moves, BeforeExit
<1> QED BY <1>8, <1>9

LEMMA MovesOn ==
  ASSUME NEW p \in Plan, NEW a, NEW b, NEW c, SoundPosition(p, a), Moves(p, a, b), Moves(p, b, c)
  PROVE  Moves(p, a, c)
BY ContinuesOn DEF Moves

LEMMA AdvancePositionMoves ==
  ASSUME NEW p \in Plan, NEW pos, SoundPosition(p, pos), pos.status \in ActiveStatus,
         NEW e, EventFor(p, e)
  PROVE  Moves(p, pos, AdvancePosition(p, pos, e))
<1> DEFINE due == pos.status = "OPEN" /\ e.time >= ExitAt[p]
           left == IF due THEN StartExit(pos, "PENDING_EXIT", e.time) ELSE pos
<1>1. pos \in PositionOf(p) /\ DOMAIN pos.legs = LegsOf(p) /\ LegsOf(p) \subseteq Leg
      /\ LegsOf(p) # {}
  BY AdvancedAssumption DEF SoundPosition, PositionOf, LegsOf
<1>2. CASE pos.status = "PENDING_ENTRY"
  <2>1. AdvancePosition(p, pos, e) = AdvanceEntry(p, pos, e)
    BY <1>2 DEF AdvancePosition
  <2> QED BY <1>2, <2>1, AdvanceEntryMoves
<1>3. CASE pos.status # "PENDING_ENTRY"
  <2>1. Moves(p, pos, left)
    <3>1. CASE due
      <4>1. \A l \in LegsOf(p) :
              /\ SoundLeg(l, pos.legs[l]) /\ pos.legs[l].exit = "NONE"
              /\ pos.legs[l].filled = Size[l] /\ Size[l] \in Nat \ {0}
        BY <1>1, <3>1, LegFacts DEF SoundPosition, BeforeExit
      <4>2. \A l \in LegsOf(p) : ~CanFill(l, pos.legs[l])
        BY <4>1 DEF CanFill, Unfilled
      <4>3. SomeFilled(pos)
        BY <1>1, <4>1 DEF SomeFilled
      <4>4. "PENDING_EXIT" \in Leaving /\ e.time \in Nat
        BY DEF Leaving, EventFor
      <4>5. /\ SoundPosition(p, left) /\ left.status = "PENDING_EXIT"
            /\ \A l \in LegsOf(p) : Exited(l, pos.legs[l], left.legs[l])
        BY <1>1, <3>1, <4>1, <4>2, <4>3, <4>4, StartExitSound
      <4> HIDE DEF left
      <4>6. Rank(pos.status) = 2 /\ Rank(left.status) = 3
        BY <3>1, <4>5 DEF Rank, Leaving, TerminalStatus
      <4>7. \A l \in LegsOf(p) : /\ left.legs[l].filled = pos.legs[l].filled
                                 /\ pos.legs[l].filled \in Nat
                                 /\ GivenBack(pos.legs[l]) <= GivenBack(left.legs[l])
        BY <4>1, <4>5 DEF Exited
      <4>8. Continues(p, pos, left)
        BY <3>1, <4>5, <4>6, <4>7 DEF Continues, TerminalStatus
      <4> QED BY <3>1, <4>5, <4>8 DEF Moves, ActiveStatus
    <3>2. CASE ~due
      BY <3>2, ContinuesItself DEF Moves
    <3> QED BY <3>1, <3>2
  <2> HIDE DEF left
  <2>2. SoundPosition(p, left)
    BY <2>1 DEF Moves
  <2>3. CASE left.status \in Leaving
    <3>1. AdvancePosition(p, pos, e) = AdvanceExit(left, e)
      BY <1>3, <2>3 DEF AdvancePosition, left
    <3> QED BY <2>1, <2>2, <2>3, <3>1, AdvanceExitMoves, MovesOn
  <2>4. CASE left.status \notin Leaving
    <3>1. AdvancePosition(p, pos, e) = left
      BY <1>3, <2>4 DEF AdvancePosition, left
    <3> QED BY <2>1, <3>1
  <2> QED BY <2>3, <2>4
<1> QED BY <1>2, <1>3
-----------------------------------------------------------------------------
(* The inductive invariant: every position, in memory and as written, is    *)
(* sound, the one in memory continues the one written, and is the one       *)
(* written where no update is owed or was skipped, and active ones are      *)
(* apart.                                                                   *)
Dated == quoted \subseteq Market /\ lastSeen \in [Market -> 0..MaxTime]

Written ==
  /\ touched \subseteq Plan /\ skipped \in BOOLEAN
  /\ ~skipped => \A p \in Plan \ touched : multilegRows[p] = multileg[p]

AdvancedInv ==
  /\ multileg = [p \in Plan |-> multileg[p]] /\ multilegRows = [p \in Plan |-> multilegRows[p]]
  /\ \A p \in Plan : /\ SoundPosition(p, multileg[p]) /\ SoundPosition(p, multilegRows[p])
                     /\ Continues(p, multilegRows[p], multileg[p])
  /\ InstrumentsAreExclusive
  /\ Dated /\ Written

LEMMA FreshLegSound ==
  ASSUME NEW l \in Leg, NEW state \in OrderState
  PROVE  SoundLeg(l, [FreshLeg EXCEPT !.entry = state]) /\ SoundLeg(l, FreshLeg)
<1>1. Size[l] \in Nat
  BY AdvancedAssumption
<1> QED BY <1>1 DEF SoundLeg, FreshLeg, LegState, OrderState

LEMMA UnsubmittedSound ==
  ASSUME NEW p \in Plan
  PROVE  SoundPosition(p, Unsubmitted(p)) /\ Unsubmitted(p).status = "NONE"
<1>1. \A l \in LegsOf(p) : SoundLeg(l, FreshLeg) /\ FreshLeg \in LegState
  BY FreshLegSound DEF LegsOf, OrderState, SoundLeg
<1>2. Unsubmitted(p) \in PositionOf(p)
  BY <1>1 DEF Unsubmitted, PositionOf
<1>3. FreshLeg.exit = "NONE" /\ FreshLeg.filled = 0
  BY DEF FreshLeg
<1> QED BY <1>1, <1>2, <1>3 DEF Unsubmitted, SoundPosition, BeforeExit, Leaving, TerminalStatus

(* A plan is entered, or rejected on the spot.                              *)
LEMMA SubmittedMoves ==
  ASSUME NEW p \in Plan, NEW old, SoundPosition(p, old), old.status = "NONE",
         NEW new, new \in {Entering(p), Rejected(p)}
  PROVE  SoundPosition(p, new) /\ Continues(p, old, new)
         /\ Entering(p).status = "PENDING_ENTRY" /\ Rejected(p).status = "REJECTED"
<1> DEFINE rleg == [FreshLeg EXCEPT !.entry = "REJECTED"]
<1>1. \A l \in LegsOf(p) : /\ SoundLeg(l, FreshLeg) /\ FreshLeg \in LegState
                           /\ SoundLeg(l, rleg) /\ rleg \in LegState
  BY FreshLegSound DEF LegsOf, OrderState, SoundLeg
<1>2. /\ FreshLeg.exit = "NONE" /\ FreshLeg.filled = 0 /\ GivenBack(FreshLeg) = 0
      /\ rleg.exit = "NONE" /\ rleg.filled = 0 /\ GivenBack(rleg) = 0 /\ Net(rleg) = 0
      /\ rleg.entry = "REJECTED"
  BY DEF FreshLeg, GivenBack, Net
<1> HIDE DEF rleg
<1>3. /\ Entering(p) = [status |-> "PENDING_ENTRY", legs |-> [l \in LegsOf(p) |-> FreshLeg]]
      /\ Rejected(p) = [status |-> "REJECTED", legs |-> [l \in LegsOf(p) |-> rleg]]
  BY DEF Entering, Unsubmitted, Rejected, rleg
<1>4. Entering(p) \in PositionOf(p) /\ Rejected(p) \in PositionOf(p)
  BY <1>1, <1>3 DEF PositionOf, ActiveStatus, TerminalStatus
<1>5. SoundPosition(p, Entering(p))
  BY <1>1, <1>2, <1>3, <1>4 DEF SoundPosition, BeforeExit, Leaving, TerminalStatus
<1>6. SoundPosition(p, Rejected(p))
  BY <1>1, <1>2, <1>3, <1>4 DEF SoundPosition, BeforeExit, Leaving, TerminalStatus, CanFill,
                                TerminalOrder
<1>7. \A l \in LegsOf(p) : old.legs[l].filled = 0 /\ GivenBack(old.legs[l]) = 0
  BY DEF SoundPosition, SoundLeg, BeforeExit, GivenBack
<1>8. Rank("NONE") = 0 /\ Rank("PENDING_ENTRY") = 1 /\ Rank("REJECTED") = 4
  BY DEF Rank, Leaving, TerminalStatus
<1>9. Continues(p, old, Entering(p))
  BY <1>2, <1>3, <1>7, <1>8 DEF Continues, TerminalStatus
<1>10. Continues(p, old, Rejected(p))
  BY <1>2, <1>3, <1>7, <1>8 DEF Continues, TerminalStatus
<1> QED BY <1>3, <1>5, <1>6, <1>9, <1>10

(* One move of every position keeps the invariant.                          *)
LEMMA MovesKeep ==
  ASSUME AdvancedInv, UNCHANGED <<multilegRows, skipped>>, Updated, Dated',
         multileg' = [p \in Plan |-> multileg'[p]],
         \A p \in Plan : Moves(p, multileg[p], multileg'[p])
  PROVE  AdvancedInv' /\ \A p \in Plan : Continues(p, multilegRows[p], multilegRows'[p])
<1>1. ASSUME NEW p \in Plan
      PROVE  /\ SoundPosition(p, multileg'[p]) /\ SoundPosition(p, multilegRows'[p])
             /\ Continues(p, multilegRows'[p], multileg'[p])
             /\ Continues(p, multilegRows[p], multilegRows'[p])
  BY ContinuesItself, ContinuesOn DEF AdvancedInv, Moves
<1>2. Apart(multileg)'
  BY DEF AdvancedInv, InstrumentsAreExclusive, Apart, IsActive, Moves
<1>3. (~skipped => Apart(multilegRows))'
  BY DEF AdvancedInv, InstrumentsAreExclusive, Apart, IsActive
<1>4. Written'
  BY DEF AdvancedInv, Written, Updated
<1> QED BY <1>1, <1>2, <1>3, <1>4 DEF AdvancedInv, InstrumentsAreExclusive

LEMMA AdvancedStep ==
  ASSUME AdvancedInv, [AdvancedNext]_advanced
  PROVE  AdvancedInv' /\ \A p \in Plan : Continues(p, multilegRows[p], multilegRows'[p])
<1> DEFINE Goal == AdvancedInv' /\ \A p \in Plan : Continues(p, multilegRows[p], multilegRows'[p])
<1>0. ASSUME NEW t \in Nat, NEW p \in Plan
      PROVE  Swept(t)[p] = ExpireEntries(p, multileg[p], t) /\ Moves(p, multileg[p], Swept(t)[p])
  BY ExpireMoves DEF Swept, AdvancedInv
<1>1. ASSUME NEW i \in Market, NEW e \in EventOn(i), EventArrives(e)
      PROVE  Goal
  <2>1. e.time \in Nat /\ e.time \in 0..MaxTime /\ e.instrument = i
    BY AdvancedAssumption, <1>1 DEF EventOn
  <2>2. ASSUME NEW p \in Plan, IsActive(Swept(e.time), p)
        PROVE  EventFor(p, e)
    <3>1. e.answer \in [AskingOn(i) -> FillAnswer]
      BY <1>1 DEF EventOn
    <3>2. IsActive(multileg, p)
      <4>1. Swept(e.time)[p] = ExpireEntries(p, multileg[p], e.time)
        BY <1>0, <2>1
      <4>2. CASE multileg[p].status = "PENDING_ENTRY"
        BY <4>2 DEF IsActive, ActiveStatus
      <4>3. CASE multileg[p].status # "PENDING_ENTRY"
        BY <2>2, <4>1, <4>3 DEF IsActive, ExpireEntries
      <4> QED BY <4>2, <4>3
    <3>3. ASSUME NEW l \in LegsOf(p), MarketOf[l] = e.instrument
          PROVE  e.answer[l] \in FillAnswer
      <4>1. l \in AskingOn(i)
        BY <2>1, <3>2, <3>3 DEF AskingOn, LegsOf
      <4> QED BY <3>1, <4>1
    <3> QED BY <2>1, <3>3 DEF EventFor
  <2>3. ASSUME NEW p \in Plan PROVE Moves(p, multileg[p], multileg'[p])
    <3> DEFINE swept == Swept(e.time)
    <3>1. Moves(p, multileg[p], swept[p]) /\ SoundPosition(p, multileg[p])
      BY <1>0, <2>1 DEF AdvancedInv
    <3>2. multileg'[p] = IF IsActive(swept, p) /\ TradesOn(p, e.instrument)
                         THEN AdvancePosition(p, swept[p], e) ELSE swept[p]
      BY <1>1 DEF EventArrives
    <3>3. IsActive(swept, p) => EventFor(p, e)
      BY <2>2
    <3> HIDE DEF swept
    <3>4. SoundPosition(p, swept[p])
      BY <3>1 DEF Moves
    <3>5. CASE IsActive(swept, p) /\ TradesOn(p, e.instrument)
      <4>1. Moves(p, swept[p], multileg'[p])
        BY <3>2, <3>4, <3>5, <3>3, AdvancePositionMoves DEF IsActive
      <4> QED BY <3>1, <4>1, MovesOn
    <3>6. CASE ~(IsActive(swept, p) /\ TradesOn(p, e.instrument))
      BY <3>1, <3>2, <3>6
    <3> QED BY <3>5, <3>6
  <2>4. UNCHANGED <<multilegRows, skipped>> /\ Updated
        /\ multileg' = [p \in Plan |-> multileg'[p]]
    BY <1>1 DEF EventArrives
  <2>5. Dated'
    BY <1>1, <2>1 DEF EventArrives, AdvancedInv, Dated
  <2> QED BY <2>3, <2>4, <2>5, MovesKeep
<1>2. ASSUME NEW t \in 0..MaxTime, EventSweeps(t)
      PROVE  Goal
  <2>1. \A p \in Plan : Moves(p, multileg[p], multileg'[p])
    BY <1>0, <1>2, AdvancedAssumption DEF EventSweeps
  <2>2. UNCHANGED <<multilegRows, skipped>> /\ Updated
        /\ multileg' = [p \in Plan |-> multileg'[p]] /\ Dated'
    BY <1>2 DEF EventSweeps, Swept, AdvancedInv, Dated
  <2> QED BY <2>1, <2>2, MovesKeep
<1>3. ASSUME NEW p \in Plan, SubmitPlanOnce(p)
      PROVE  Goal
  <2>1. multileg' = [multileg EXCEPT ![p] = IF Conflicts(p) THEN Rejected(p) ELSE Entering(p)]
        /\ UNCHANGED <<multilegRows, skipped>> /\ Updated /\ multileg[p].status = "NONE"
    BY <1>3 DEF SubmitPlanOnce
  <2>2. multileg' = [q \in Plan |-> IF q = p THEN IF Conflicts(p) THEN Rejected(p) ELSE Entering(p)
                                   ELSE multileg[q]]
    BY <2>1 DEF AdvancedInv
  <2>3. ASSUME NEW q \in Plan
        PROVE  /\ SoundPosition(q, multileg'[q]) /\ Continues(q, multileg[q], multileg'[q])
               /\ Continues(q, multilegRows[q], multileg'[q])
    <3>1. SoundPosition(q, multileg[q]) /\ SoundPosition(q, multilegRows[q])
          /\ Continues(q, multilegRows[q], multileg[q])
      BY DEF AdvancedInv
    <3>2. SoundPosition(q, multileg'[q]) /\ Continues(q, multileg[q], multileg'[q])
      <4>1. CASE q = p
        BY <2>1, <2>2, <3>1, <4>1, SubmittedMoves
      <4>2. CASE q # p
        BY <2>2, <3>1, <4>2, ContinuesItself
      <4> QED BY <4>1, <4>2
    <3> QED BY <3>1, <3>2, ContinuesOn
  <2>4. Apart(multileg)'
    <3> SUFFICES ASSUME NEW q \in Plan, NEW r \in Plan, IsActive(multileg', q),
                        IsActive(multileg', r), q # r, NEW i \in Market,
                        TradesOn(q, i), TradesOn(r, i)
                 PROVE  FALSE
      BY DEF Apart
    <3>1. Apart(multileg)
      BY DEF AdvancedInv, InstrumentsAreExclusive
    <3>2. CASE q # p /\ r # p
      BY <2>2, <3>1, <3>2 DEF Apart, IsActive
    <3>3. ASSUME NEW other \in Plan, other # p, IsActive(multileg', other), IsActive(multileg', p),
                 TradesOn(other, i), TradesOn(p, i)
          PROVE  FALSE
      <4>1. Conflicts(p)
        BY <2>2, <3>3 DEF Conflicts, IsActive
      <4>2. multileg'[p].status = "REJECTED"
        BY <2>2, <4>1 DEF Rejected
      <4> QED BY <3>3, <4>2 DEF IsActive, ActiveStatus, Leaving
    <3> QED BY <3>2, <3>3
  <2>5. Dated'
    BY <1>3 DEF SubmitPlanOnce, AdvancedInv, Dated
  <2>6. (~skipped => Apart(multilegRows))' /\ multilegRows' = [q \in Plan |-> multilegRows'[q]]
    BY <2>1 DEF AdvancedInv, InstrumentsAreExclusive, Apart, IsActive
  <2>7. \A q \in Plan : SoundPosition(q, multilegRows'[q])
                        /\ Continues(q, multilegRows[q], multilegRows'[q])
    BY <2>1, ContinuesItself DEF AdvancedInv
  <2>8. Written'
    BY <2>1 DEF AdvancedInv, Written, Updated
  <2> QED BY <2>1, <2>2, <2>3, <2>4, <2>5, <2>6, <2>7, <2>8
          DEF AdvancedInv, InstrumentsAreExclusive
<1>4. CASE WritePage
  <2>1. multilegRows' = [p \in Plan |-> IF p \in touched THEN multileg[p] ELSE multilegRows[p]]
        /\ touched' = {} /\ UNCHANGED <<multileg, quoted, lastSeen, skipped>>
    BY <1>4 DEF WritePage
  <2>2. ASSUME NEW p \in Plan
        PROVE  /\ SoundPosition(p, multileg'[p]) /\ SoundPosition(p, multilegRows'[p])
               /\ Continues(p, multilegRows'[p], multileg'[p])
               /\ Continues(p, multilegRows[p], multilegRows'[p])
    <3>1. SoundPosition(p, multileg[p]) /\ SoundPosition(p, multilegRows[p])
          /\ Continues(p, multilegRows[p], multileg[p])
      BY DEF AdvancedInv
    <3> QED BY <2>1, <3>1, ContinuesItself
  <2>3. ~skipped => \A p \in Plan : multilegRows'[p] = multileg[p]
    BY <2>1 DEF AdvancedInv, Written
  <2>4. Written' /\ Dated'
    BY <2>1, <2>3 DEF AdvancedInv, Written, Dated
  <2>5. InstrumentsAreExclusive'
    BY <2>1, <2>3 DEF AdvancedInv, InstrumentsAreExclusive, Apart, IsActive
  <2>6. multileg' = [p \in Plan |-> multileg'[p]]
        /\ multilegRows' = [p \in Plan |-> multilegRows'[p]]
    BY <2>1 DEF AdvancedInv
  <2> QED BY <2>2, <2>4, <2>5, <2>6 DEF AdvancedInv
<1>5. CASE Overtaken
  <2>1. touched' = {} /\ skipped' /\ UNCHANGED <<multileg, multilegRows, quoted, lastSeen>>
        /\ skipped' \in BOOLEAN
    BY <1>5 DEF Overtaken
  <2>2. Written' /\ Dated' /\ InstrumentsAreExclusive'
    BY <2>1 DEF AdvancedInv, Written, Dated, InstrumentsAreExclusive, Apart, IsActive
  <2> QED BY <2>1, <2>2, ContinuesItself DEF AdvancedInv
<1>6. CASE RestoreBroker
  <2>1. multileg' = multilegRows /\ UNCHANGED multilegRows /\ touched' = {} /\ ~skipped'
        /\ skipped' \in BOOLEAN /\ Apart(multilegRows)
    BY <1>6 DEF RestoreBroker
  <2>2. Dated' /\ Written'
    BY <1>6, <2>1, AdvancedAssumption DEF RestoreBroker, Dated, Written
  <2>3. InstrumentsAreExclusive'
    BY <2>1 DEF InstrumentsAreExclusive, Apart, IsActive
  <2> QED BY <2>1, <2>2, <2>3, ContinuesItself DEF AdvancedInv
<1>7. CASE UNCHANGED advanced
  BY <1>7, ContinuesItself
     DEF advanced, AdvancedInv, InstrumentsAreExclusive, Apart, IsActive, Dated, Written
<1> QED BY <1>1, <1>2, <1>3, <1>4, <1>5, <1>6, <1>7 DEF AdvancedNext

LEMMA AdvancedStart == AdvancedInit => AdvancedInv
<1> SUFFICES ASSUME AdvancedInit PROVE AdvancedInv
  OBVIOUS
<1>1. \A p \in Plan : SoundPosition(p, Unsubmitted(p)) /\ Unsubmitted(p).status = "NONE"
                      /\ Continues(p, Unsubmitted(p), Unsubmitted(p))
  BY UnsubmittedSound, ContinuesItself
<1>2. Apart(multileg) /\ Apart(multilegRows)
  BY <1>1 DEF AdvancedInit, Apart, IsActive, ActiveStatus, Leaving
<1>3. Dated
  BY AdvancedAssumption DEF AdvancedInit, Dated
<1>4. Written
  BY DEF AdvancedInit, Written
<1> QED BY <1>1, <1>2, <1>3, <1>4 DEF AdvancedInit, AdvancedInv, InstrumentsAreExclusive

(* The types, the exposure and the exits of positions with several legs.    *)
LEMMA AdvancedInvHolds == AdvancedSpec => []AdvancedInv
<1>1. AdvancedInv /\ [AdvancedNext]_advanced => AdvancedInv'
  BY AdvancedStep
<1> QED BY <1>1, AdvancedStart, PTL DEF AdvancedSpec

LEMMA AdvancedInvImplies ==
  ASSUME AdvancedInv
  PROVE  AdvancedTypeOK /\ PositionsEndFlat /\ InstrumentsAreExclusive
<1>1. AdvancedTypeOK
  BY DEF AdvancedInv, AdvancedTypeOK, SoundPosition, Dated, Written
<1>2. ASSUME NEW p \in Plan, NEW pos, SoundPosition(p, pos)
      PROVE  OverIsFlat(p, pos) /\ ExitsMatch(p, pos)
  <2>1. \A l \in LegsOf(p) :
          /\ Net(pos.legs[l]) \in Nat
          /\ Net(pos.legs[l]) = pos.legs[l].filled - GivenBack(pos.legs[l])
          /\ pos.legs[l].exit # "NONE" => pos.legs[l].asked - pos.legs[l].done = Net(pos.legs[l])
    BY <1>2, LegFacts DEF SoundPosition, LegsOf
  <2>2. pos.status = "OPEN" =>
          \A l \in LegsOf(p) : pos.legs[l].filled = Size[l] /\ Net(pos.legs[l]) = Size[l]
    <3> SUFFICES ASSUME pos.status = "OPEN", NEW l \in LegsOf(p)
                 PROVE  pos.legs[l].filled = Size[l] /\ Net(pos.legs[l]) = Size[l]
      OBVIOUS
    <3>1. pos.legs[l].filled = Size[l] /\ pos.legs[l].gone = 0 /\ pos.legs[l].done = 0
      BY <1>2 DEF SoundPosition, SoundLeg, BeforeExit
    <3>2. Size[l] \in Nat
      BY AdvancedAssumption DEF LegsOf
    <3> QED BY <3>1, <3>2 DEF Net
  <2>3. OverIsFlat(p, pos)
    BY <1>2, <2>2 DEF OverIsFlat, SoundPosition
  <2>4. pos.status \notin Leaving \cup TerminalStatus => pos.status \in BeforeExit
    BY <1>2 DEF SoundPosition, PositionOf, ActiveStatus, BeforeExit
  <2>5. ExitsMatch(p, pos)
    BY <1>2, <2>1, <2>4 DEF ExitsMatch, SoundPosition
  <2> QED BY <2>3, <2>5
<1>3. PositionsEndFlat
  BY <1>2 DEF AdvancedInv, PositionsEndFlat
<1> QED BY <1>1, <1>3 DEF AdvancedInv

(* Every variable of the broker has its type.                               *)
THEOREM AdvancedTypes == AdvancedSpec => []AdvancedTypeOK
BY AdvancedInvHolds, AdvancedInvImplies, PTL

(* A position that is over has given back all it filled, one that is open   *)
(* has every leg in full, and exit orders always ask for exactly what is    *)
(* left of their leg: in memory and in the database, for any plans, events, *)
(* answers of the fill model and restarts.                                  *)
THEOREM LegsEndFlat == AdvancedSpec => []PositionsEndFlat
BY AdvancedInvHolds, AdvancedInvImplies, PTL

(* Two active positions never share an instrument, whichever pages were     *)
(* lost, and the rows of two share one only in a process in which a         *)
(* catch-up went on where another was cut off: no other restart is refused. *)
THEOREM RefusedOnlyIfOvertaken == AdvancedSpec => []InstrumentsAreExclusive
BY AdvancedInvHolds, AdvancedInvImplies, PTL

(* What is written of a position never goes back.                           *)
THEOREM LeggedRowsContinue == AdvancedSpec => RowsContinue
<1>1. AdvancedInv /\ [AdvancedNext]_advanced
        => [multilegRows' # multilegRows =>
              \A p \in Plan : Continues(p, multilegRows[p], multilegRows'[p])]_advanced
  BY AdvancedStep
<1> QED BY <1>1, AdvancedInvHolds, PTL DEF AdvancedSpec, RowsContinue
=============================================================================
