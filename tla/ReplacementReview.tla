------------------------- MODULE ReplacementReview -------------------------
(***************************************************************************)
(* What a content replacement promises the users of the instance: it       *)
(* changes an item only to the rewrite of a text that a user has reviewed  *)
(* and confirmed for that item, or back to such a text.  Others may edit   *)
(* the items at any time.                                                  *)
(***************************************************************************)
EXTENDS Naturals

CONSTANTS Keys, Texts, Rewrite, Before

VARIABLES content, confirmed, edits

Init == content = Before /\ confirmed = {} /\ edits = 0

Confirm ==
    /\ \E pairs \in SUBSET (Keys \X Texts) : confirmed' = confirmed \cup pairs
    /\ UNCHANGED <<content, edits>>

Replace(k, text) ==
    /\ <<k, text>> \in confirmed
    /\ content' = [content EXCEPT ![k] = Rewrite[text]]
    /\ UNCHANGED <<confirmed, edits>>

Restore(k, text) ==
    /\ <<k, text>> \in confirmed
    /\ content' = [content EXCEPT ![k] = text]
    /\ UNCHANGED <<confirmed, edits>>

Edit(k) ==
    /\ \E text \in Texts : content' = [content EXCEPT ![k] = text]
    /\ edits' = edits + 1
    /\ UNCHANGED confirmed

Next ==
    \/ Confirm
    \/ \E k \in Keys : Edit(k) \/ \E text \in Texts : Replace(k, text) \/ Restore(k, text)

Spec == Init /\ [][Next]_<<content, confirmed, edits>>
=============================================================================
