-------------------------- MODULE MCVisualCapture --------------------------
(* A small instance of VisualCapture: two drafts of one session, of one    *)
(* card each, the second reusing the slot for another hero. The            *)
(* registry remembers one event id: the queue is posted head first, so the *)
(* head is the only envelope that can come twice. Event ids are only       *)
(* compared, so they are alike. The run of OkMeansKnown has one draft.     *)
EXTENDS VisualCapture

CONSTANT Ids

OneRound == <<1>>
Card(side, h) == [side |-> side, slot |-> 0, heroId |-> h]
TwoDrafts == << {Card("radiant", 1)}, {Card("radiant", 2)} >>
OneDraft == << {Card("radiant", 1)} >>
AnyEnvelope == {[eventId |-> i, source |-> "ocr", payload |-> Health("ok")] : i \in Ids}
AlikeIds == Permutations(Ids)
=============================================================================
