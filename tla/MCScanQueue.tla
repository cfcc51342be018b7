---------------------------- MODULE MCScanQueue ----------------------------
(* Instances of ScanQueue: three questions on two pages, of which the second
   has an answer; or two searches that find the same article, which has
   nothing to replace; or exact targets.  A third match may be added, which
   is one too many. *)
EXTENDS ScanQueue

CONSTANTS q0, q1, q2, q3, a1, b1

MCSite == [l \in {"questions", "articles", "answers", "term1", "term2"} |->
             CASE l = "questions" -> <<q0, q1, q2>>
               [] l = "articles" -> <<b1>>
               [] l = "answers" -> <<a1>>
               [] l = "term1" -> <<b1, a1, q2>>
               [] l = "term2" -> <<b1>>]
MCStarts == {[lists |-> <<"questions", "articles">>, targets |-> <<>>],
             [lists |-> <<"term1", "term2">>, targets |-> <<>>],
             [lists |-> <<>>, targets |-> <<q2, a1>>]}
MCAnswers == [q \in {q1} |-> "answers"]
MCAdded == {<<"questions", q3>>, <<"term2", q3>>}
MCCandidates == {q2, q3, a1, b1}
MCMatches == {q2, q3, a1}
AllFaults == {"storage", "credentials", "network", "401", "rejected"}
=============================================================================
