---------------------- MODULE ReportCollectionHistory ----------------------
(***************************************************************************)
(* ReportCollection with a history of what the store has returned, to show *)
(* that the tabs are clients of the store as ReportStoreClients describes  *)
(* them: a run, or a wait left behind by one, only ever submits a job that *)
(* the store returned, with another status or deadline.  The theorems of   *)
(* ReportStoreProofs then hold of the tabs.                                *)
(***************************************************************************)
EXTENDS ReportCollection

VARIABLE returned  \* the jobs the store has returned

Clients == INSTANCE ReportStoreClients WITH snapshots <- returned

historyVars == <<vars, returned>>

(* Every operation of the store returns the saved job. *)
Remember ==
    IF latest' = NoJob \/ now' # now THEN UNCHANGED returned
    ELSE Clients!HandOut(latest')

HistoryInit == Init /\ returned = {}
HistoryNext == Next /\ Remember
HistorySpec == HistoryInit /\ [][HistoryNext]_historyVars

(* Every step of a tab, of its run or of a wait is an operation of a       *)
(* client of ReportStoreClients, or leaves the store alone.                *)
ImplementsClients == Clients!Spec
=============================================================================
