--------------------------- MODULE MCLegacyDraft ---------------------------
(* A small instance of LegacyDraft: one tab, whose requests may overtake    *)
(* one another, two heroes and rosters of one. The tab or a capturer starts *)
(* the draft, so that a lost one may be rebuilt while the tab still shows   *)
(* the board before; the capturer picks without being sure, and corrects    *)
(* itself late, with the number of an event long applied.                   *)
EXTENDS LegacyDraft

Event(id, seq, sure, payload) == [eventId |-> id, seq |-> seq, sure |-> sure, payload |-> payload]
Script ==
  { Event(101, 1, TRUE, [type |-> "session_started"]),
    Event(102, 2, FALSE, [type |-> "hero_picked", side |-> "dire", hero |-> 1]),
    Event(103, 1, TRUE, [type |-> "pick_reverted", side |-> "dire", hero |-> 1]) }

Clicks ==
  { [type |-> "hero_picked", side |-> "radiant", hero |-> 2] }
=============================================================================
