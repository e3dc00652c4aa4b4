--------------------------- MODULE MCLiveCapture ---------------------------
(* A small instance of LiveCapture: two rounds of one slot a side, three   *)
(* heroes, two matches. The inputs are chosen to contradict each other:    *)
(* two sources place a hero on either side, a hero is banned and picked,   *)
(* the game changes its mind about the Player's hero, the same position is *)
(* stated of two heroes.                                                   *)
EXTENDS LiveCapture

TwoRounds == <<1, 1>>

Update(phase, match, side, own) ==
  [phase |-> phase, matchKey |-> match, side |-> side, ownHero |-> own,
   bans |-> <<>>, picks |-> <<>>, draftBlock |-> FALSE]

Drafting == Update("draft", 1, "radiant", 1)
Updates ==
  { Drafting,
    [Drafting EXCEPT !.ownHero = 2],
    [Drafting EXCEPT !.bans = <<3>>, !.draftBlock = TRUE,
                     !.picks = <<[side |-> "dire", heroId |-> 2]>>],
    Update("draft", 2, NoSide, NoHero),
    Update("match", NoMatch, NoSide, NoHero) }

Envelope(id, source, payload) == [eventId |-> id, source |-> source, payload |-> payload]
Posted ==
  { Envelope(1, "ocr", Pick("dire", 2, NoPosition)),
    Envelope(2, "overwolf", Pick("dire", 1, NoPosition)),
    Envelope(3, "overwolf", [type |-> "session_ended"]) }

Reported ==
  { Pick("radiant", 3, 1), Pick("radiant", 2, 1), Ban(3), Unban(3),
    Revert("dire", 2), DraftStarted }
=============================================================================
