----------------------------- MODULE SessionData -----------------------------
(***************************************************************************)
(* The data of a browser session: the datasets that were uploaded or       *)
(* collected, the runs that they come from and what each report shows      *)
(* (src/domain/sessionStore.ts), and what a stored session gives back      *)
(* (src/domain/datasetPersistence.ts).                                     *)
(*                                                                         *)
(* A dataset stands for its records, and what a report shows is the set of *)
(* the datasets whose records it shows.  A stamp stands for the time and   *)
(* the suffix that make the name of a run or an upload unique.             *)
(***************************************************************************)
EXTENDS Naturals, FiniteSets

CONSTANTS Reports,
          Names,     \* the datasets that a complete run of a report has
          None

\* The reports and the datasets of each are fixed lists of the program.
ASSUME SessionAssumption == Reports # {} /\ IsFiniteSet(Names) /\ None \notin Nat

Roles == {"current", "comparison"}

Upload == "upload"

NoSession == [datasets |-> {}, runs |-> {}, outputs |-> [r \in Reports |-> None]]

Ids(datasets) == {d.id : d \in datasets}

BlankOutput == [source |-> Upload, stamp |-> 0, current |-> None, comparison |-> None,
                shown |-> {}, compared |-> {}]

HasContent(session) == session.datasets # {}

-----------------------------------------------------------------------------
(* The reducer *)

UploadId(stamp) == [stamp |-> stamp, name |-> Upload]

Imported(session, report, stamp) ==
    [session EXCEPT
        !.datasets = @ \cup {[id |-> UploadId(stamp), run |-> None, source |-> Upload,
                              report |-> report, role |-> None]},
        !.outputs[report] = [BlankOutput EXCEPT !.stamp = stamp, !.shown = {UploadId(stamp)}]]

RunIds(stamp) == [stamp : {stamp}, name : Names]

\* A run replaces what its role shows and leaves the other role as it is: a
\* comparison run keeps the uploaded records beside it.
Loaded(session, report, role, stamp) ==
    LET ids == RunIds(stamp)
        old == IF session.outputs[report] = None THEN BlankOutput ELSE session.outputs[report]
        output == [old EXCEPT !.source = "live", !.stamp = stamp]
    IN [session EXCEPT
           !.datasets = @ \cup {[id |-> id, run |-> stamp, source |-> "live",
                                 report |-> report, role |-> role] : id \in ids},
           !.runs = @ \cup {[id |-> stamp, report |-> report, role |-> role,
                             datasets |-> ids]},
           !.outputs[report] =
               IF role = "current" THEN [output EXCEPT !.current = stamp, !.shown = ids]
               ELSE [output EXCEPT !.comparison = stamp, !.compared = ids]]

WithoutRuns(output, runs) ==
    LET current == output.current \in runs
        comparison == output.comparison \in runs
    IN IF ~current /\ ~comparison THEN output
       ELSE IF {output.current, output.comparison} \subseteq runs \cup {None} THEN None
       ELSE IF current THEN [output EXCEPT !.current = None, !.shown = {}]
       ELSE [output EXCEPT !.comparison = None, !.compared = {}]

RemovedFromOutput(output, dataset) ==
    IF output = None THEN None
    ELSE IF dataset.source = Upload /\ output.source = Upload
            /\ output.shown = {dataset.id}
    THEN None
    ELSE WithoutRuns(output, {dataset.run} \ {None})

(* Mutant: the datasets of a run that is not complete any more stay with it. *)
DetachedNever(datasets, runs) == datasets

\* The other datasets of the run are kept by themselves.
Detached(datasets, runs) ==
    {IF d.run \in runs THEN [d EXCEPT !.run = None] ELSE d : d \in datasets}

Removed(session, dataset) ==
    LET broken == {run \in session.runs : dataset.id \in run.datasets}
    IN [datasets |-> Detached(session.datasets \ {dataset}, {run.id : run \in broken}),
        runs |-> session.runs \ broken,
        outputs |-> [r \in Reports |-> RemovedFromOutput(session.outputs[r], dataset)]]

-----------------------------------------------------------------------------
(* The stored session *)

\* A run comes back with every dataset that its report needs, or not at all.
IsWhole(run, datasets) ==
    LET members == {d \in datasets : d.id \in run.datasets}
    IN /\ Ids(members) = run.datasets /\ {id.name : id \in run.datasets} = Names
       /\ \A d \in members : /\ d.source = "live" /\ d.run = run.id
                             /\ d.report = run.report /\ d.role = run.role

IsBacked(output, report, datasets, runs) ==
    LET Of(id, role) == \E run \in runs : run.id = id /\ run.report = report /\ run.role = role
    IN IF output.source = Upload
       THEN \E d \in datasets : /\ d.source = Upload /\ d.report = report
                                /\ d.id.stamp = output.stamp
       ELSE /\ output.current # None \/ output.comparison # None
            /\ output.current # None => Of(output.current, "current")
            /\ output.comparison # None => Of(output.comparison, "comparison")

\* What is stored of a session, and what is restored of what is stored.
Parsed(session) ==
    LET runs == {run \in session.runs : IsWhole(run, session.datasets)}
        kept == UNION {run.datasets : run \in runs}
        claimed == UNION {run.datasets : run \in session.runs}
        datasets == {d \in session.datasets :
                        d.source = "live" /\ (d.run # None \/ d.id \in claimed)
                            => d.id \in kept}
    IN [datasets |-> datasets,
        runs |-> runs,
        outputs |-> [r \in Reports |->
                        IF session.outputs[r] # None
                           /\ IsBacked(session.outputs[r], r, datasets, runs)
                        THEN session.outputs[r] ELSE None]]
=============================================================================
