------------------------ MODULE SessionStorageProofs ------------------------
(***************************************************************************)
(* Proofs about SessionStorage, for any reports and datasets and without   *)
(* the bounds that a run needs: the types, that a stored session gives     *)
(* back all that the page shows, and that the datasets that are read when  *)
(* the page opens never undo what the user did meanwhile.                  *)
(*                                                                         *)
(* The properties look at what the page holds now.  They last because each *)
(* session, in the page, in the queue of writes and on the disk, is good:  *)
(* its runs have all their datasets, its datasets belong to its runs, and  *)
(* each report shows what a run or an upload of the session backs, or, by  *)
(* a comparison run alone, the uploads that it showed before.              *)
(***************************************************************************)
EXTENDS SessionStorage, FiniteSetTheorems, SequenceTheorems, TLAPS

-----------------------------------------------------------------------------
(* The inductive invariant *)

DatasetIds == [stamp : Nat, name : Names \cup {Upload}]

Datasets == [id : DatasetIds, run : Nat \cup {None}, source : {"live", Upload},
             report : Reports, role : Roles \cup {None}]

Runs == [id : Nat, report : Reports, role : Roles, datasets : SUBSET DatasetIds]

Outputs == [source : {"live", Upload}, stamp : Nat, current : Nat \cup {None},
            comparison : Nat \cup {None}, shown : SUBSET DatasetIds,
            compared : SUBSET DatasetIds]

Sessions == [datasets : SUBSET Datasets, runs : SUBSET Runs,
             outputs : [Reports -> Outputs \cup {None}]]

\* A name is given once, and at most the last stamp so far.
Named(datasets, runs, n) ==
    /\ \A d, e \in datasets : d.id = e.id => d = e
    /\ \A x, y \in runs : x.id = y.id => x = y
    /\ \A d \in datasets : d.id.stamp <= n
    /\ \A x \in runs : x.id <= n

\* A dataset that names a run belongs to it; an upload names none.
Claims(datasets, runs) ==
    \A d \in datasets :
        /\ d.run # None => \E x \in runs : x.id = d.run /\ d.id \in x.datasets
        /\ d.source = Upload => d.run = None /\ d.id = UploadId(d.id.stamp)

\* A run has all of its datasets.
Member(datasets, x, id) ==
    \E d \in datasets : /\ d.id = id /\ d.source = "live" /\ d.run = x.id
                        /\ d.report = x.report /\ d.role = x.role

Whole(datasets, runs) ==
    \A x \in runs : /\ x.datasets = RunIds(x.id)
                    /\ \A id \in x.datasets : Member(datasets, x, id)

LiveShown(output) ==
    IF output.current = None
    THEN \A id \in output.shown : id = UploadId(id.stamp)
    ELSE output.shown = RunIds(output.current)

\* What a report shows is what backs it; an output of a comparison run alone
\* still shows the upload, if any, that the run came to.
Matching(output) ==
    IF output.source = Upload
    THEN /\ output.current = None /\ output.comparison = None
         /\ output.shown = {UploadId(output.stamp)} /\ output.compared = {}
    ELSE /\ LiveShown(output)
         /\ output.compared = IF output.comparison = None THEN {} ELSE RunIds(output.comparison)

Backed(output, report, datasets, runs) ==
    output # None => Matching(output) /\ IsBacked(output, report, datasets, runs)

Good(s, n) ==
    /\ s \in Sessions /\ IsFiniteSet(s.datasets)
    /\ Named(s.datasets, s.runs, n) /\ Claims(s.datasets, s.runs)
    /\ Whole(s.datasets, s.runs)
    /\ \A r \in Reports : Backed(s.outputs[r], r, s.datasets, s.runs)

Entries == {None} \cup [data : Sessions, selected : Reports]

GoodEntry(entry, n) == entry # None => Good(entry.data, n)

Pages == [ready : BOOLEAN, changed : BOOLEAN, emptied : BOOLEAN, picked : BOOLEAN,
          suppress : BOOLEAN, warned : BOOLEAN]

Works == [mine : SUBSET DatasetIds, gone : SUBSET DatasetIds, emptied : BOOLEAN]

\* What the user did since the page opened, against the datasets of the page.
GoodWork(w, datasets, n) ==
    /\ w \in Works
    /\ w.mine \subseteq Ids(datasets) /\ w.gone \cap Ids(datasets) = {}
    /\ w.emptied => Ids(datasets) = w.mine
    /\ \A id \in w.gone : id.stamp <= n

Inv ==
    /\ stamp \in Nat /\ selected \in Reports
    /\ Good(session, stamp)
    /\ disk \in Entries /\ GoodEntry(disk, stamp)
    /\ queue \in Seq(Entries) /\ \A i \in 1..Len(queue) : GoodEntry(queue[i], stamp)
    /\ page \in Pages /\ (page.emptied => page.changed)
    /\ GoodWork(work, session.datasets, stamp)
    /\ ~page.changed => work = NoWork

-----------------------------------------------------------------------------
(* The data of a session *)

\* What a step adds to a session: datasets, and at most one run of theirs.
Grown(s, report, ds, xs, output) ==
    [datasets |-> s.datasets \cup ds, runs |-> s.runs \cup xs,
     outputs |-> [s.outputs EXCEPT ![report] = output]]

Fresh(n, ds, xs) ==
    /\ ds \in SUBSET Datasets /\ IsFiniteSet(ds) /\ xs \in SUBSET Runs
    /\ \A d, e \in ds : d.id = e.id => d = e
    /\ \A x, y \in xs : x = y
    /\ \A d \in ds : d.id.stamp = n
    /\ \A x \in xs : x.id = n
    /\ Claims(ds, xs) /\ Whole(ds, xs)

(* A session gets new names for what is added to it, and stays good when what
   is added is good by itself and backs what its report shows. *)
LEMMA GrownIsGood ==
    ASSUME NEW s, NEW n \in Nat, Good(s, n), NEW report \in Reports,
           NEW ds, NEW xs, Fresh(n + 1, ds, xs), NEW output \in Outputs \cup {None},
           Backed(output, report, s.datasets \cup ds, s.runs \cup xs)
    PROVE  Good(Grown(s, report, ds, xs, output), n + 1)
<1> DEFINE t == Grown(s, report, ds, xs, output)
<1>1. /\ t.datasets = s.datasets \cup ds /\ t.runs = s.runs \cup xs
      /\ t.outputs = [s.outputs EXCEPT ![report] = output]
  BY DEF Grown
<1>2. /\ ds \in SUBSET Datasets /\ IsFiniteSet(ds) /\ xs \in SUBSET Runs
      /\ (\A d, e \in ds : d.id = e.id => d = e) /\ (\A x, y \in xs : x = y)
      /\ (\A d \in ds : d.id.stamp = n + 1) /\ (\A x \in xs : x.id = n + 1)
      /\ Claims(ds, xs) /\ Whole(ds, xs)
  BY DEF Fresh
<1>3. /\ s.datasets \in SUBSET Datasets /\ s.runs \in SUBSET Runs
      /\ s.outputs \in [Reports -> Outputs \cup {None}] /\ IsFiniteSet(s.datasets)
      /\ Named(s.datasets, s.runs, n) /\ Claims(s.datasets, s.runs)
      /\ Whole(s.datasets, s.runs)
      /\ \A r \in Reports : Backed(s.outputs[r], r, s.datasets, s.runs)
  BY DEF Good, Sessions
<1>4. t \in Sessions
  BY <1>3, <1>2 DEF Sessions, Grown
<1> HIDE DEF t
<1>5. IsFiniteSet(t.datasets)
  <2>1. IsFiniteSet(s.datasets \cup ds)
    BY <1>2, <1>3, FS_Union
  <2> QED BY <1>1, <2>1
<1>6. Named(t.datasets, t.runs, n + 1)
  <2>1. ASSUME NEW d \in t.datasets, NEW e \in t.datasets, d.id = e.id PROVE d = e
    <3>1. d \in Datasets /\ e \in Datasets /\ d.id.stamp \in Nat
      BY <1>1, <1>2, <1>3 DEF Datasets, DatasetIds
    <3>2. CASE d \in s.datasets /\ e \in s.datasets
      BY <1>1, <1>2, <1>3, <2>1, <3>2 DEF Named
    <3>3. CASE d \in ds /\ e \in ds
      BY <1>2, <2>1, <3>3
    <3>4. CASE d \in s.datasets /\ e \in ds
      BY <1>1, <1>2, <1>3, <2>1, <3>1, <3>4 DEF Named
    <3>5. CASE d \in ds /\ e \in s.datasets
      BY <1>1, <1>2, <1>3, <2>1, <3>1, <3>5 DEF Named
    <3> QED BY <1>1, <3>2, <3>3, <3>4, <3>5
  <2>2. ASSUME NEW x \in t.runs, NEW y \in t.runs, x.id = y.id PROVE x = y
    <3>1. x \in Runs /\ y \in Runs /\ x.id \in Nat
      BY <1>1, <1>2, <1>3 DEF Runs
    <3>2. CASE x \in s.runs /\ y \in s.runs
      BY <1>1, <1>2, <1>3, <2>2, <3>2 DEF Named
    <3>3. CASE x \in xs /\ y \in xs
      BY <1>2, <3>3
    <3>4. CASE x \in s.runs /\ y \in xs
      BY <1>1, <1>2, <1>3, <2>2, <3>1, <3>4 DEF Named
    <3>5. CASE x \in xs /\ y \in s.runs
      BY <1>1, <1>2, <1>3, <2>2, <3>1, <3>5 DEF Named
    <3> QED BY <1>1, <3>2, <3>3, <3>4, <3>5
  <2>3. ASSUME NEW d \in t.datasets PROVE d.id.stamp <= n + 1
    <3>1. d.id.stamp \in Nat
      BY <1>1, <1>2, <1>3 DEF Datasets, DatasetIds
    <3> QED BY <1>1, <1>2, <1>3, <3>1 DEF Named
  <2>4. ASSUME NEW x \in t.runs PROVE x.id <= n + 1
    <3>1. x.id \in Nat
      BY <1>1, <1>2, <1>3 DEF Runs
    <3> QED BY <1>1, <1>2, <1>3, <3>1 DEF Named
  <2> QED BY <2>1, <2>2, <2>3, <2>4 DEF Named
<1>7. Claims(t.datasets, t.runs)
  BY <1>1, <1>2, <1>3 DEF Claims
<1>8. Whole(t.datasets, t.runs)
  <2>1. ASSUME NEW x \in t.runs, NEW id \in x.datasets PROVE Member(t.datasets, x, id)
    BY <1>1, <1>2, <1>3, <2>1 DEF Whole, Member
  <2> QED BY <1>1, <1>2, <1>3, <2>1 DEF Whole
<1>9. \A r \in Reports : Backed(t.outputs[r], r, t.datasets, t.runs)
  <2>1. ASSUME NEW r \in Reports PROVE Backed(t.outputs[r], r, t.datasets, t.runs)
    <3>1. CASE r = report
      BY <1>1, <1>2, <1>3, <3>1
    <3>2. CASE r # report
      <4>1. t.outputs[r] = s.outputs[r] /\ Backed(s.outputs[r], r, s.datasets, s.runs)
        BY <1>1, <1>2, <1>3, <3>2
      <4> QED BY <1>1, <4>1 DEF Backed, IsBacked
    <3> QED BY <3>1, <3>2
  <2> QED BY <2>1
<1>10. Good(t, n + 1)
  BY <1>4, <1>5, <1>6, <1>7, <1>8, <1>9 DEF Good
<1> QED BY <1>10 DEF t

(* What is good stays good as the stamps go on. *)
LEMMA GoodLater ==
    ASSUME NEW s, NEW n \in Nat, NEW m \in Nat, n <= m, Good(s, n)
    PROVE  Good(s, m)
<1>1. /\ \A d \in s.datasets : d.id.stamp \in Nat
      /\ \A x \in s.runs : x.id \in Nat
  BY DEF Good, Sessions, Datasets, DatasetIds, Runs
<1>2. Named(s.datasets, s.runs, n)
  BY DEF Good
<1>3. \A d \in s.datasets : d.id.stamp <= m
  BY <1>1, <1>2 DEF Named
<1>4. \A x \in s.runs : x.id <= m
  BY <1>1, <1>2 DEF Named
<1>5. Named(s.datasets, s.runs, m)
  BY <1>2, <1>3, <1>4 DEF Named
<1> QED BY <1>5 DEF Good

(* An empty session is good. *)
LEMMA NoSessionIsGood == ASSUME NEW n \in Nat PROVE Good(NoSession, n)
<1>1. NoSession \in Sessions
  BY DEF NoSession, Sessions
<1>2. NoSession.datasets = {} /\ NoSession.runs = {}
      /\ \A r \in Reports : NoSession.outputs[r] = None
  BY DEF NoSession
<1>3. IsFiniteSet({})
  BY FS_EmptySet
<1> QED BY <1>1, <1>2, <1>3 DEF Good, Named, Claims, Whole, Backed

(* The names of a session that grew. *)
LEMMA GrownIds ==
    ASSUME NEW s, NEW report, NEW ds, NEW xs, NEW output
    PROVE  Ids(Grown(s, report, ds, xs, output).datasets) = Ids(s.datasets) \cup Ids(ds)
BY DEF Grown, Ids

(* An upload is shown by itself. *)
LEMMA ImportedIsGood ==
    ASSUME NEW s, NEW n \in Nat, Good(s, n), NEW report \in Reports
    PROVE  /\ Good(Imported(s, report, n + 1), n + 1)
           /\ Ids(Imported(s, report, n + 1).datasets)
                 = Ids(s.datasets) \cup {UploadId(n + 1)}
<1> DEFINE id == UploadId(n + 1)
           d == [id |-> id, run |-> None, source |-> Upload, report |-> report, role |-> None]
           output == [BlankOutput EXCEPT !.stamp = n + 1, !.shown = {id}]
<1>1. s \in Sessions
  BY DEF Good
<1>2. id \in DatasetIds /\ id.stamp = n + 1 /\ UploadId(id.stamp) = id
  BY DEF UploadId, DatasetIds
<1>3. Imported(s, report, n + 1) = Grown(s, report, {d}, {}, output)
  <2>1. s = [datasets |-> s.datasets, runs |-> s.runs, outputs |-> s.outputs]
    BY <1>1 DEF Sessions
  <2>2. Imported(s, report, n + 1)
           = [s EXCEPT !.datasets = s.datasets \cup {d},
                       !.outputs = [s.outputs EXCEPT ![report] = output]]
    BY DEF Imported
  <2> HIDE DEF d, output
  <2> QED BY <2>1, <2>2 DEF Grown
<1>4. output \in [source : {Upload}, stamp : {n + 1}, current : {None},
                  comparison : {None}, shown : {{id}}, compared : {{}}]
  <2> HIDE DEF id
  <2>1. BlankOutput \in [source : {Upload}, stamp : {0}, current : {None},
                         comparison : {None}, shown : {{}}, compared : {{}}]
    BY DEF BlankOutput
  <2> QED BY <2>1
<1> HIDE DEF id
<1>5. d \in Datasets /\ d.id = id /\ d.run = None /\ d.source = Upload /\ d.report = report
  BY <1>2 DEF Datasets, Upload
<1> HIDE DEF d, output
<1>6. output \in Outputs
  BY <1>2, <1>4 DEF Outputs, Upload
<1>7. {d} \in SUBSET Datasets /\ IsFiniteSet({d}) /\ Ids({d}) = {id}
  <2>1. IsFiniteSet({d})
    BY FS_Singleton
  <2>2. Ids({d}) = {d.id}
    BY DEF Ids
  <2> QED BY <1>5, <2>1, <2>2
<1>8. Claims({d}, {}) /\ Whole({d}, {})
  BY <1>2, <1>5 DEF Claims, Whole
<1>9. Fresh(n + 1, {d}, {})
  BY <1>2, <1>5, <1>7, <1>8 DEF Fresh
<1>10. Backed(output, report, s.datasets \cup {d}, s.runs \cup {})
  BY <1>2, <1>4, <1>5 DEF Backed, Matching, IsBacked
<1>11. Good(Grown(s, report, {d}, {}, output), n + 1)
  BY <1>6, <1>9, <1>10, GrownIsGood
<1>12. Ids(Grown(s, report, {d}, {}, output).datasets) = Ids(s.datasets) \cup Ids({d})
  BY GrownIds
<1> QED BY <1>3, <1>7, <1>11, <1>12 DEF id

(* The datasets of a run and the run itself are new and whole. *)
NewRun(report, role, n) ==
    [id |-> n, report |-> report, role |-> role, datasets |-> RunIds(n)]

RunDatasets(report, role, n) ==
    {[id |-> id, run |-> n, source |-> "live", report |-> report, role |-> role] :
        id \in RunIds(n)}

LEMMA RunIsFresh ==
    ASSUME NEW report \in Reports, NEW role \in Roles, NEW n \in Nat
    PROVE  /\ Fresh(n, RunDatasets(report, role, n), {NewRun(report, role, n)})
           /\ Ids(RunDatasets(report, role, n)) = RunIds(n)
<1> DEFINE ds == RunDatasets(report, role, n)
           x == NewRun(report, role, n)
           Data(id) == [id |-> id, run |-> n, source |-> "live", report |-> report, role |-> role]
<1>1. \A id \in RunIds(n) : id \in DatasetIds /\ id.stamp = n
  BY DEF RunIds, DatasetIds
<1>2. \A id \in RunIds(n) : /\ Data(id) \in Datasets /\ Data(id).id = id /\ Data(id).run = n
                            /\ Data(id).source = "live" /\ Data(id).report = report
                            /\ Data(id).role = role
  BY <1>1 DEF Datasets
<1>3. ds = {Data(id) : id \in RunIds(n)}
  BY DEF RunDatasets
<1>4. IsFiniteSet(ds)
  <2> DEFINE g == [name \in Names |-> Data([stamp |-> n, name |-> name])]
  <2>1. \A name \in Names : [stamp |-> n, name |-> name] \in RunIds(n)
    BY DEF RunIds
  <2>2. \A id \in RunIds(n) : id.name \in Names /\ id = [stamp |-> n, name |-> id.name]
    BY DEF RunIds
  <2> HIDE DEF Data
  <2>3. g \in [Names -> ds]
    BY <1>3, <2>1
  <2>4. ASSUME NEW d \in ds PROVE \E name \in Names : g[name] = d
    <3>1. PICK id \in RunIds(n) : d = Data(id)
      BY <1>3
    <3> QED BY <2>2, <3>1
  <2> HIDE DEF g
  <2>5. g \in Surjection(Names, ds)
    BY <2>3, <2>4 DEF Surjection
  <2> QED BY <2>5, FS_Surjection, SessionAssumption
<1>5. /\ x \in Runs /\ x.id = n /\ x.datasets = RunIds(n)
      /\ x.report = report /\ x.role = role
  BY <1>1 DEF NewRun, Runs
<1> HIDE DEF ds, x, Data
<1>6. Claims(ds, {x})
  BY <1>2, <1>3, <1>5 DEF Claims, Upload
<1>7. Whole(ds, {x})
  BY <1>2, <1>3, <1>5 DEF Whole, Member
<1>8. /\ \A d, e \in ds : d.id = e.id => d = e
      /\ \A d \in ds : d.id.stamp = n
      /\ ds \in SUBSET Datasets /\ {x} \in SUBSET Runs
      /\ \A y, z \in {x} : y = z
      /\ \A y \in {x} : y.id = n
  BY <1>1, <1>2, <1>3, <1>5
<1>9. Ids(ds) = RunIds(n)
  BY <1>2, <1>3 DEF Ids
<1> QED BY <1>4, <1>6, <1>7, <1>8, <1>9 DEF Fresh, ds, x

\* The runs of an output are there, and a comparison is shown with its run.
Sides(output, report, runs) ==
    /\ output.current # None => \E x \in runs : /\ x.id = output.current
                                                /\ x.report = report /\ x.role = "current"
    /\ output.comparison # None => \E x \in runs : /\ x.id = output.comparison
                                                   /\ x.report = report
                                                   /\ x.role = "comparison"
    /\ output.compared = IF output.comparison = None THEN {} ELSE RunIds(output.comparison)

OldOutput(s, report) ==
    IF s.outputs[report] = None THEN BlankOutput ELSE s.outputs[report]

(* The output that a run goes into. *)
LEMMA OldOutputSides ==
    ASSUME NEW s, NEW n, Good(s, n), NEW report \in Reports
    PROVE  LET old == OldOutput(s, report)
           IN old \in Outputs /\ Sides(old, report, s.runs) /\ LiveShown(old)
<1>1. /\ BlankOutput \in Outputs /\ BlankOutput.current = None
      /\ BlankOutput.comparison = None
      /\ BlankOutput.shown = {} /\ BlankOutput.compared = {}
  BY DEF BlankOutput, Outputs, Upload
<1>2. /\ s.outputs[report] \in Outputs \cup {None}
      /\ Backed(s.outputs[report], report, s.datasets, s.runs)
  BY DEF Good, Sessions
<1>3. CASE s.outputs[report] = None
  BY <1>1, <1>3 DEF OldOutput, Sides, LiveShown
<1>4. CASE s.outputs[report] # None
  <2>1. s.outputs[report] \in Outputs /\ Matching(s.outputs[report])
    BY <1>2, <1>4 DEF Backed
  <2>2. IsBacked(s.outputs[report], report, s.datasets, s.runs)
    BY <1>2, <1>4 DEF Backed
  <2>3. OldOutput(s, report) = s.outputs[report]
    BY <1>4 DEF OldOutput
  <2>4. LiveShown(s.outputs[report])
    <3>1. CASE s.outputs[report].source = Upload
      <4>1. /\ s.outputs[report].current = None
            /\ s.outputs[report].shown = {UploadId(s.outputs[report].stamp)}
        BY <2>1, <3>1 DEF Matching
      <4> QED BY <4>1 DEF LiveShown, UploadId
    <3>2. CASE s.outputs[report].source # Upload
      BY <2>1, <3>2 DEF Matching
    <3> QED BY <3>1, <3>2
  <2>5. Sides(s.outputs[report], report, s.runs)
    BY <2>1, <2>2 DEF Sides, Matching, IsBacked
  <2> QED BY <2>1, <2>3, <2>4, <2>5
<1> QED BY <1>3, <1>4

(* A run that is loaded is shown in its role, and the other role keeps what it
   shows. *)
LEMMA LoadedIsGood ==
    ASSUME NEW s, NEW n \in Nat, Good(s, n), NEW report \in Reports, NEW role \in Roles
    PROVE  /\ Good(Loaded(s, report, role, n + 1), n + 1)
           /\ Ids(Loaded(s, report, role, n + 1).datasets) = Ids(s.datasets) \cup RunIds(n + 1)
<1> DEFINE ids == RunIds(n + 1)
           old == OldOutput(s, report)
           live == [old EXCEPT !.source = "live", !.stamp = n + 1]
           output == IF role = "current" THEN [live EXCEPT !.current = n + 1, !.shown = ids]
                     ELSE [live EXCEPT !.comparison = n + 1, !.compared = ids]
           ds == RunDatasets(report, role, n + 1)
           x == NewRun(report, role, n + 1)
<1>1. s \in Sessions /\ report \in DOMAIN s.outputs
  BY DEF Good, Sessions
<1>2. n + 1 \in Nat /\ n + 1 # None /\ ids \in SUBSET DatasetIds
  BY SessionAssumption DEF RunIds, DatasetIds
<1>3. Loaded(s, report, role, n + 1) = Grown(s, report, ds, {x}, output)
  <2>1. s = [datasets |-> s.datasets, runs |-> s.runs, outputs |-> s.outputs]
    BY <1>1 DEF Sessions
  <2>2. Loaded(s, report, role, n + 1)
           = [s EXCEPT !.datasets = s.datasets \cup ds, !.runs = s.runs \cup {x},
                       !.outputs = [s.outputs EXCEPT ![report] = output]]
    BY DEF Loaded, RunDatasets, NewRun, RunIds, OldOutput
  <2> HIDE DEF ds, x, output
  <2> QED BY <2>1, <2>2 DEF Grown
<1>4. Fresh(n + 1, ds, {x}) /\ Ids(ds) = ids
  BY <1>2, RunIsFresh
<1>5. x.id = n + 1 /\ x.report = report /\ x.role = role
  BY DEF NewRun
<1>6. old \in Outputs /\ Sides(old, report, s.runs) /\ LiveShown(old)
  BY OldOutputSides
<1> HIDE DEF old, ds, x
<1>7. ASSUME role = "current"
      PROVE  /\ output \in Outputs /\ output.source = "live"
             /\ Matching(output)
             /\ IsBacked(output, report, s.datasets \cup ds, s.runs \cup {x})
  <2>1. /\ output \in Outputs /\ output.source = "live" /\ output.current = n + 1
        /\ output.shown = ids /\ output.comparison = old.comparison
        /\ output.compared = old.compared
    BY <1>2, <1>6, <1>7 DEF Outputs
  <2> HIDE DEF output
  <2>2. Matching(output)
    BY <1>2, <1>6, <2>1 DEF Matching, LiveShown, Sides, Upload
  <2>3. IsBacked(output, report, s.datasets \cup ds, s.runs \cup {x})
    BY <1>2, <1>5, <1>6, <1>7, <2>1 DEF IsBacked, Sides, Upload
  <2> QED BY <2>1, <2>2, <2>3
<1>8. ASSUME role = "comparison"
      PROVE  /\ output \in Outputs /\ output.source = "live"
             /\ Matching(output)
             /\ IsBacked(output, report, s.datasets \cup ds, s.runs \cup {x})
  <2>1. /\ output \in Outputs /\ output.source = "live" /\ output.comparison = n + 1
        /\ output.compared = ids /\ output.current = old.current
        /\ output.shown = old.shown
    BY <1>2, <1>6, <1>8 DEF Outputs
  <2> HIDE DEF output
  <2>2. Matching(output)
    BY <1>2, <1>6, <2>1 DEF Matching, LiveShown, Sides, Upload
  <2>3. IsBacked(output, report, s.datasets \cup ds, s.runs \cup {x})
    BY <1>2, <1>5, <1>6, <1>8, <2>1 DEF IsBacked, Sides, Upload
  <2> QED BY <2>1, <2>2, <2>3
<1>9. role = "current" \/ role = "comparison"
  BY DEF Roles
<1>10. /\ output \in Outputs /\ output.source = "live"
       /\ Matching(output) /\ IsBacked(output, report, s.datasets \cup ds, s.runs \cup {x})
  BY <1>7, <1>8, <1>9
<1> HIDE DEF output
<1>11. Backed(output, report, s.datasets \cup ds, s.runs \cup {x})
  BY <1>10 DEF Backed
<1>12. Good(Grown(s, report, ds, {x}, output), n + 1)
  BY <1>4, <1>10, <1>11, GrownIsGood
<1>13. Ids(Grown(s, report, ds, {x}, output).datasets) = Ids(s.datasets) \cup Ids(ds)
  BY GrownIds
<1> QED BY <1>3, <1>4, <1>12, <1>13

(* The runs that a removal breaks are those of the dataset that is removed. *)
Broken(s, d) == {x \in s.runs : d.id \in x.datasets}

LEMMA BrokenIs ==
    ASSUME NEW s, NEW n, Good(s, n), NEW d \in s.datasets
    PROVE  /\ \A x \in s.runs : x \in Broken(s, d) <=> x.id = d.run
           /\ {x.id : x \in Broken(s, d)} = {d.run} \ {None}
<1>1. /\ s.datasets \in SUBSET Datasets /\ s.runs \in SUBSET Runs
      /\ Named(s.datasets, s.runs, n) /\ Claims(s.datasets, s.runs)
      /\ Whole(s.datasets, s.runs)
  BY DEF Good, Sessions
<1>2. \A x \in s.runs : x.id \in Nat /\ x.id # None
  BY <1>1, SessionAssumption DEF Runs
<1>3. ASSUME NEW x \in s.runs, d.id \in x.datasets PROVE x.id = d.run
  <2>1. Member(s.datasets, x, d.id)
    BY <1>1, <1>3 DEF Whole
  <2> QED BY <1>1, <2>1 DEF Member, Named
<1>4. ASSUME NEW x \in s.runs, x.id = d.run PROVE d.id \in x.datasets
  <2>1. PICK y \in s.runs : y.id = d.run /\ d.id \in y.datasets
    BY <1>1, <1>2, <1>4 DEF Claims
  <2>2. y = x
    BY <1>1, <1>4, <2>1 DEF Named
  <2> QED BY <2>1, <2>2
<1>5. \A x \in s.runs : x \in Broken(s, d) <=> x.id = d.run
  BY <1>3, <1>4 DEF Broken
<1>6. d.run # None => \E x \in s.runs : x.id = d.run
  BY <1>1 DEF Claims
<1>7. \A x \in Broken(s, d) : x \in s.runs
  BY DEF Broken
<1> QED BY <1>2, <1>5, <1>6, <1>7

(* A report shows what is left of its runs. *)
LEMMA OutputWithoutIsBacked ==
    ASSUME NEW report, NEW ds, NEW xs, NEW es, NEW ys, NEW d \in ds, d \in Datasets,
           Claims(ds, xs), NEW output, Backed(output, report, ds, xs),
           output \in Outputs \cup {None},
           \A x \in xs : x.id # d.run => x \in ys,
           \A e \in ds : e # d => \E f \in es : /\ f.id = e.id /\ f.source = e.source
                                                /\ f.report = e.report
    PROVE  /\ Backed(RemovedFromOutput(output, d), report, es, ys)
           /\ RemovedFromOutput(output, d) \in Outputs \cup {None}
<1> DEFINE runs == {d.run} \ {None}
           new == RemovedFromOutput(output, d)
<1>1. CASE new = None
  BY <1>1 DEF Backed
<1>2. ASSUME new # None
      PROVE  /\ output # None /\ output \in Outputs /\ Matching(output)
             /\ IsBacked(output, report, ds, xs)
             /\ ~(d.source = Upload /\ output.source = Upload /\ output.shown = {d.id})
             /\ new = WithoutRuns(output, runs)
  BY <1>2 DEF RemovedFromOutput, Backed
<1>3. CASE new # None /\ output.source = Upload
  <2>1. output.current = None /\ output.comparison = None
        /\ output.shown = {UploadId(output.stamp)}
    BY <1>2, <1>3 DEF Matching
  <2>2. new = output
    BY <1>2, <1>3, <2>1 DEF WithoutRuns
  <2>3. PICK e \in ds : e.source = Upload /\ e.report = report /\ e.id.stamp = output.stamp
    BY <1>2, <1>3 DEF IsBacked
  <2>4. e.id = UploadId(output.stamp)
    BY <2>3 DEF Claims
  <2>5. e # d
    BY <1>2, <1>3, <2>1, <2>3, <2>4
  <2>6. PICK f \in es : f.id = e.id /\ f.source = e.source /\ f.report = e.report
    BY <2>5
  <2>7. IsBacked(output, report, es, ys)
    BY <1>3, <2>3, <2>6 DEF IsBacked
  <2> QED BY <1>2, <1>3, <2>2, <2>7 DEF Backed
<1>4. CASE new # None /\ output.source # Upload
  <2> DEFINE current == output.current \in runs
             comparison == output.comparison \in runs
  <2>1. /\ output.current # None \/ output.comparison # None
        /\ output.current # None =>
              \E x \in xs : x.id = output.current /\ x.report = report /\ x.role = "current"
        /\ output.comparison # None =>
              \E x \in xs : /\ x.id = output.comparison /\ x.report = report
                            /\ x.role = "comparison"
    BY <1>2, <1>4 DEF IsBacked
  <2>2. /\ LiveShown(output)
        /\ output.compared = IF output.comparison = None THEN {}
                             ELSE RunIds(output.comparison)
    BY <1>2, <1>4 DEF Matching
  <2>3. CASE ~current /\ ~comparison
    <3>1. new = output
      BY <1>2, <1>4, <2>3 DEF WithoutRuns
    <3>2. output.current # None => output.current # d.run
      BY <2>3
    <3>3. output.comparison # None => output.comparison # d.run
      BY <2>3
    <3>4. IsBacked(output, report, es, ys)
      BY <1>4, <2>1, <3>2, <3>3 DEF IsBacked
    <3> QED BY <1>2, <1>4, <3>1, <3>4 DEF Backed
  <2>4. CASE current
    <3>1. /\ new = [output EXCEPT !.current = None, !.shown = {}]
          /\ output.comparison # None /\ output.comparison # d.run
      BY <1>2, <1>4, <2>4 DEF WithoutRuns
    <3>2. /\ new \in Outputs /\ new.source = output.source /\ new.current = None
          /\ new.shown = {} /\ new.comparison = output.comparison
          /\ new.compared = output.compared
      BY <1>2, <1>4, <3>1 DEF Outputs
    <3> HIDE DEF new
    <3>3. Matching(new)
      BY <1>4, <2>2, <3>1, <3>2 DEF Matching, LiveShown
    <3>4. IsBacked(new, report, es, ys)
      BY <1>4, <2>1, <3>1, <3>2 DEF IsBacked
    <3> QED BY <3>2, <3>3, <3>4 DEF Backed, new
  <2>5. CASE ~current /\ comparison
    <3>1. /\ new = [output EXCEPT !.comparison = None, !.compared = {}]
          /\ output.current # None /\ output.current # d.run
      BY <1>2, <1>4, <2>5 DEF WithoutRuns
    <3>2. /\ new \in Outputs /\ new.source = output.source /\ new.comparison = None
          /\ new.compared = {} /\ new.current = output.current
          /\ new.shown = output.shown
      BY <1>2, <1>4, <3>1 DEF Outputs
    <3> HIDE DEF new
    <3>3. Matching(new)
      BY <1>4, <2>2, <3>1, <3>2 DEF Matching, LiveShown
    <3>4. IsBacked(new, report, es, ys)
      BY <1>4, <2>1, <3>1, <3>2 DEF IsBacked
    <3> QED BY <3>2, <3>3, <3>4 DEF Backed, new
  <2> QED BY <2>3, <2>4, <2>5
<1> QED BY <1>1, <1>3, <1>4

(* A removal takes one name out of the session, breaks the run of the dataset
   and leaves the other datasets of that run by themselves. *)
LEMMA RemovedIsGood ==
    ASSUME NEW s, NEW n, Good(s, n), NEW d \in s.datasets
    PROVE  /\ Good(Removed(s, d), n)
           /\ Ids(Removed(s, d).datasets) = Ids(s.datasets) \ {d.id}
<1> DEFINE runs == {x.id : x \in Broken(s, d)}
           rest == s.datasets \ {d}
           Turn(e) == IF e.run \in runs THEN [e EXCEPT !.run = None] ELSE e
           es == Detached(rest, runs)
           ys == s.runs \ Broken(s, d)
           t == Removed(s, d)
<1>1. /\ s.datasets \in SUBSET Datasets /\ s.runs \in SUBSET Runs
      /\ s.outputs \in [Reports -> Outputs \cup {None}] /\ IsFiniteSet(s.datasets)
      /\ Named(s.datasets, s.runs, n) /\ Claims(s.datasets, s.runs)
      /\ Whole(s.datasets, s.runs)
      /\ \A r \in Reports : Backed(s.outputs[r], r, s.datasets, s.runs)
  BY DEF Good, Sessions
<1>2. /\ \A x \in s.runs : x \in Broken(s, d) <=> x.id = d.run
      /\ runs = {d.run} \ {None}
  BY BrokenIs
<1>3. es = {Turn(e) : e \in rest}
  BY DEF Detached
<1>4. /\ t = [datasets |-> es, runs |-> ys,
              outputs |-> [r \in Reports |-> RemovedFromOutput(s.outputs[r], d)]]
      /\ t.datasets = es /\ t.runs = ys
      /\ \A r \in Reports : t.outputs[r] = RemovedFromOutput(s.outputs[r], d)
  BY DEF Removed, Broken
<1>5. \A e \in rest : /\ Turn(e) \in Datasets /\ Turn(e).id = e.id
                      /\ Turn(e).source = e.source /\ Turn(e).report = e.report
                      /\ Turn(e).role = e.role
                      /\ Turn(e).run = e.run \/ Turn(e).run = None
                      /\ Turn(e).run # None => Turn(e).run \notin runs
                      /\ e.run \notin runs => Turn(e).run = e.run
  BY <1>1, <1>2 DEF Datasets
<1> HIDE DEF es, runs, Turn, t
<1>6. IsFiniteSet(es)
  <2> DEFINE g == [e \in rest |-> Turn(e)]
  <2>1. g \in [rest -> es]
    BY <1>3
  <2>2. ASSUME NEW f \in es PROVE \E e \in rest : g[e] = f
    BY <1>3
  <2> HIDE DEF g
  <2>3. g \in Surjection(rest, es)
    BY <2>1, <2>2 DEF Surjection
  <2>4. IsFiniteSet(rest)
    BY <1>1, FS_Subset
  <2> HIDE DEF rest
  <2> QED BY <2>3, <2>4, FS_Surjection
<1>7. \A f \in es : \E e \in rest : f = Turn(e)
  BY <1>3
<1>8. \A e \in rest : Turn(e) \in es
  BY <1>3
<1>9. Named(es, ys, n)
  <2>1. ASSUME NEW f \in es, NEW g \in es, f.id = g.id PROVE f = g
    <3>1. PICK e \in rest : f = Turn(e)
      BY <1>7
    <3>2. PICK h \in rest : g = Turn(h)
      BY <1>7
    <3>3. e.id = h.id
      BY <1>5, <2>1, <3>1, <3>2
    <3>4. e = h
      BY <1>1, <3>3 DEF Named
    <3> QED BY <3>1, <3>2, <3>4
  <2>2. ASSUME NEW f \in es PROVE f.id.stamp <= n
    <3>1. PICK e \in rest : f = Turn(e)
      BY <1>7
    <3>2. f.id = e.id
      BY <1>5, <3>1
    <3> QED BY <1>1, <3>2 DEF Named
  <2> QED BY <1>1, <2>1, <2>2 DEF Named
<1>10. Claims(es, ys)
  <2>1. ASSUME NEW f \in es
        PROVE  /\ f.run # None => \E x \in ys : x.id = f.run /\ f.id \in x.datasets
               /\ f.source = Upload => f.run = None /\ f.id = UploadId(f.id.stamp)
    <3>1. PICK e \in rest : f = Turn(e)
      BY <1>7
    <3>2. /\ f.id = e.id /\ f.source = e.source
          /\ f.run = e.run \/ f.run = None
          /\ f.run # None => f.run \notin runs
      BY <1>5, <3>1
    <3>3. ASSUME f.run # None PROVE \E x \in ys : x.id = f.run /\ f.id \in x.datasets
      <4>1. PICK x \in s.runs : x.id = e.run /\ e.id \in x.datasets
        BY <1>1, <3>2, <3>3 DEF Claims
      <4>2. x.id # d.run
        BY <1>2, <3>2, <3>3, <4>1
      <4> QED BY <1>2, <3>2, <3>3, <4>1, <4>2
    <3>4. ASSUME f.source = Upload PROVE f.run = None /\ f.id = UploadId(f.id.stamp)
      <4>1. e.source = Upload
        BY <3>2, <3>4
      <4>2. e.run = None /\ e.id = UploadId(e.id.stamp)
        BY <1>1, <4>1 DEF Claims
      <4>3. f.run = None
        BY <3>2, <4>2
      <4>4. f.id = UploadId(f.id.stamp)
        BY <3>2, <4>2
      <4> QED BY <4>3, <4>4
    <3> QED BY <3>3, <3>4
  <2> QED BY <2>1 DEF Claims
<1>11. Whole(es, ys)
  <2>1. ASSUME NEW x \in ys, NEW id \in x.datasets PROVE Member(es, x, id)
    <3>1. PICK e \in s.datasets : /\ e.id = id /\ e.source = "live" /\ e.run = x.id
                                  /\ e.report = x.report /\ e.role = x.role
      BY <1>1 DEF Whole, Member
    <3>2. e \in rest
      BY <1>1, <3>1 DEF Broken
    <3>3. e.run \notin runs
      BY <1>2, <3>1
    <3>4. /\ Turn(e).id = id /\ Turn(e).source = "live" /\ Turn(e).run = x.id
          /\ Turn(e).report = x.report /\ Turn(e).role = x.role
      BY <1>5, <3>1, <3>2, <3>3
    <3> QED BY <1>8, <3>2, <3>4 DEF Member
  <2> QED BY <1>1, <2>1 DEF Whole
<1>12. ASSUME NEW r \in Reports
       PROVE  /\ Backed(t.outputs[r], r, t.datasets, t.runs)
              /\ t.outputs[r] \in Outputs \cup {None}
  <2>1. \A x \in s.runs : x.id # d.run => x \in ys
    BY <1>2
  <2>2. \A e \in s.datasets : e # d => \E f \in es : /\ f.id = e.id /\ f.source = e.source
                                                     /\ f.report = e.report
    BY <1>5, <1>8
  <2>3. s.outputs[r] \in Outputs \cup {None} /\ d \in Datasets
    BY <1>1
  <2>4. Backed(s.outputs[r], r, s.datasets, s.runs)
    BY <1>1
  <2>5. /\ Backed(RemovedFromOutput(s.outputs[r], d), r, es, ys)
        /\ RemovedFromOutput(s.outputs[r], d) \in Outputs \cup {None}
    BY <1>1, <2>1, <2>2, <2>3, <2>4, OutputWithoutIsBacked
  <2> QED BY <1>4, <2>5
<1>13. t \in Sessions
  <2>1. es \in SUBSET Datasets
    BY <1>5, <1>7
  <2>2. [r \in Reports |-> RemovedFromOutput(s.outputs[r], d)]
           \in [Reports -> Outputs \cup {None}]
    BY <1>4, <1>12
  <2> QED BY <1>1, <1>4, <2>1, <2>2 DEF Sessions
<1>14. Ids(es) = Ids(s.datasets) \ {d.id}
  <2>1. ASSUME NEW id \in Ids(es) PROVE id \in Ids(s.datasets) \ {d.id}
    <3>1. PICK e \in rest : id = Turn(e).id
      BY <1>7 DEF Ids
    <3>2. id = e.id
      BY <1>5, <3>1
    <3> QED BY <1>1, <3>2 DEF Ids, Named
  <2>2. ASSUME NEW id \in Ids(s.datasets) \ {d.id} PROVE id \in Ids(es)
    <3>1. PICK e \in rest : id = e.id
      BY DEF Ids
    <3>2. id = Turn(e).id
      BY <1>5, <3>1
    <3> QED BY <1>8, <3>2 DEF Ids
  <2> QED BY <2>1, <2>2
<1>15. Good(t, n)
  BY <1>4, <1>6, <1>9, <1>10, <1>11, <1>12, <1>13 DEF Good
<1> QED BY <1>4, <1>14, <1>15 DEF t

(* What is stored of a good session is all of it. *)
LEMMA ParsedIsSame ==
    ASSUME NEW s, NEW n, Good(s, n)
    PROVE  Parsed(s) = s
<1>1. /\ s = [datasets |-> s.datasets, runs |-> s.runs, outputs |-> s.outputs]
      /\ s.outputs = [r \in Reports |-> s.outputs[r]]
      /\ Named(s.datasets, s.runs, n) /\ Claims(s.datasets, s.runs)
      /\ Whole(s.datasets, s.runs)
      /\ \A r \in Reports : Backed(s.outputs[r], r, s.datasets, s.runs)
  BY DEF Good, Sessions
<1>2. ASSUME NEW x \in s.runs PROVE IsWhole(x, s.datasets)
  <2> DEFINE members == {d \in s.datasets : d.id \in x.datasets}
  <2>1. \A id \in x.datasets : Member(s.datasets, x, id)
    BY <1>1 DEF Whole
  <2>2. Ids(members) = x.datasets
    BY <2>1 DEF Member, Ids
  <2>3. {id.name : id \in x.datasets} = Names
    <3>1. x.datasets = [stamp : {x.id}, name : Names]
      BY <1>1 DEF Whole, RunIds
    <3>2. \A name \in Names : [stamp |-> x.id, name |-> name] \in x.datasets
      BY <3>1
    <3>3. \A id \in x.datasets : id.name \in Names
      BY <3>1
    <3>4. ASSUME NEW name \in Names PROVE name \in {id.name : id \in x.datasets}
      <4>1. [stamp |-> x.id, name |-> name] \in x.datasets
        BY <3>2
      <4>2. [stamp |-> x.id, name |-> name].name = name
        OBVIOUS
      <4> QED BY <4>1, <4>2
    <3> QED BY <3>3, <3>4
  <2>4. ASSUME NEW d \in members
        PROVE  /\ d.source = "live" /\ d.run = x.id /\ d.report = x.report
               /\ d.role = x.role
    BY <1>1, <2>1 DEF Member, Named
  <2> QED BY <2>2, <2>3, <2>4 DEF IsWhole
<1> DEFINE runs == {x \in s.runs : IsWhole(x, s.datasets)}
           kept == UNION {x.datasets : x \in runs}
           claimed == UNION {x.datasets : x \in s.runs}
           datasets == {d \in s.datasets :
                           d.source = "live" /\ (d.run # None \/ d.id \in claimed)
                               => d.id \in kept}
           outputs == [r \in Reports |->
                          IF s.outputs[r] # None /\ IsBacked(s.outputs[r], r, datasets, runs)
                          THEN s.outputs[r] ELSE None]
<1>3. runs = s.runs
  BY <1>2
<1>4. Parsed(s) = [datasets |-> datasets, runs |-> runs, outputs |-> outputs]
  BY DEF Parsed
<1> HIDE DEF runs
<1>5. datasets = s.datasets
  <2>1. ASSUME NEW d \in s.datasets, d.source = "live", d.run # None \/ d.id \in claimed
        PROVE  d.id \in kept
    BY <1>1, <1>3, <2>1 DEF Claims
  <2> QED BY <2>1
<1> HIDE DEF datasets
<1>6. outputs = s.outputs
  <2>1. ASSUME NEW r \in Reports
        PROVE  s.outputs[r] = IF s.outputs[r] # None
                                 /\ IsBacked(s.outputs[r], r, datasets, runs)
                              THEN s.outputs[r] ELSE None
    BY <1>1, <1>3, <1>5 DEF Backed
  <2> QED BY <1>1, <2>1
<1> QED BY <1>1, <1>3, <1>4, <1>5, <1>6

(* A report of a good session shows nothing that the session has not, but for
   the uploads beside a comparison run. *)
LEMMA EverythingIsThere ==
    ASSUME NEW s, NEW n, Good(s, n)
    PROVE  Everything(s) \subseteq Ids(s.datasets) \cup UploadsBeside(s)
<1>1. /\ Claims(s.datasets, s.runs) /\ Whole(s.datasets, s.runs)
      /\ \A r \in Reports : Backed(s.outputs[r], r, s.datasets, s.runs)
      /\ s.outputs \in [Reports -> Outputs \cup {None}]
  BY DEF Good, Sessions
<1>2. ASSUME NEW x \in s.runs, NEW id \in RunIds(x.id) PROVE id \in Ids(s.datasets)
  <2>1. Member(s.datasets, x, id)
    BY <1>1 DEF Whole
  <2> QED BY <2>1 DEF Member, Ids
<1>3. ASSUME NEW r \in Reports, s.outputs[r] # None
      PROVE  s.outputs[r].shown \cup s.outputs[r].compared
                \subseteq Ids(s.datasets) \cup UploadsBeside(s)
  <2> DEFINE output == s.outputs[r]
  <2>1. Matching(output) /\ IsBacked(output, r, s.datasets, s.runs)
    BY <1>1, <1>3 DEF Backed
  <2> HIDE DEF output
  <2>2. CASE output.source = Upload
    <3>1. PICK d \in s.datasets : d.source = Upload /\ d.id.stamp = output.stamp
      BY <2>1, <2>2 DEF IsBacked
    <3>2. d.id = UploadId(output.stamp)
      BY <1>1, <3>1 DEF Claims
    <3>3. output.shown = {d.id} /\ output.compared = {}
      BY <2>1, <2>2, <3>2 DEF Matching
    <3> QED BY <3>3 DEF Ids, output
  <2>3. CASE output.source # Upload
    <3>1. output.shown \subseteq Ids(s.datasets) \cup UploadsBeside(s)
      <4>1. CASE output.current = None
        <5>1. \A id \in output.shown : id.name = Upload
          BY <2>1, <2>3, <4>1 DEF Matching, LiveShown, UploadId
        <5>2. output.source = "live"
          BY <1>1, <1>3, <2>3 DEF Outputs, output
        <5>3. output.shown \subseteq UploadsBeside(s)
          BY <1>3, <4>1, <5>1, <5>2 DEF UploadsBeside, output
        <5> QED BY <5>3
      <4>2. CASE output.current # None
        <5>1. PICK x \in s.runs : x.id = output.current
          BY <2>1, <2>3, <4>2 DEF IsBacked
        <5>2. output.shown = RunIds(x.id)
          BY <2>1, <2>3, <4>2, <5>1 DEF Matching, LiveShown
        <5> QED BY <1>2, <5>2
      <4> QED BY <4>1, <4>2
    <3>2. output.compared \subseteq Ids(s.datasets)
      <4>1. CASE output.comparison = None
        BY <2>1, <2>3, <4>1 DEF Matching
      <4>2. CASE output.comparison # None
        <5>1. PICK x \in s.runs : x.id = output.comparison
          BY <2>1, <2>3, <4>2 DEF IsBacked
        <5>2. output.compared = RunIds(x.id)
          BY <2>1, <2>3, <4>2, <5>1 DEF Matching
        <5> QED BY <1>2, <5>2
      <4> QED BY <4>1, <4>2
    <3> QED BY <3>1, <3>2 DEF output
  <2> QED BY <2>2, <2>3
<1> QED BY <1>3 DEF Everything

-----------------------------------------------------------------------------
(* The steps *)

(* What is stored of a good session is a good entry. *)
LEMMA StoredIsGood ==
    ASSUME NEW s, NEW n, Good(s, n), NEW report \in Reports
    PROVE  /\ StoredSession(s, report) \in Entries
           /\ GoodEntry(StoredSession(s, report), n)
<1>1. Parsed(s) = s /\ s \in Sessions
  BY ParsedIsSame DEF Good
<1>2. CASE HasContent(s)
  <2>1. StoredSession(s, report) = [data |-> s, selected |-> report]
    BY <1>1, <1>2 DEF StoredSession
  <2> QED BY <1>1, <2>1 DEF Entries, GoodEntry
<1>3. CASE ~HasContent(s)
  <2>1. StoredSession(s, report) = None
    BY <1>3 DEF StoredSession
  <2> QED BY <2>1 DEF Entries, GoodEntry
<1> QED BY <1>2, <1>3

(* An entry stays good as the stamps go on. *)
LEMMA EntryLater ==
    ASSUME NEW n \in Nat, NEW m \in Nat, n <= m, NEW entry, GoodEntry(entry, n)
    PROVE  GoodEntry(entry, m)
BY GoodLater DEF GoodEntry

(* The effect that follows a change keeps what is queued good. *)
LEMMA PersistedIsGood ==
    ASSUME Inv, NEW next, NEW report \in Reports, NEW nextPage \in Pages,
           nextPage.emptied => nextPage.changed,
           NEW m \in Nat, stamp <= m, Good(next, m), Persisted(next, report, nextPage)
    PROVE  /\ session' = next /\ selected' = report
           /\ page' \in Pages /\ (page'.emptied => page'.changed)
           /\ page'.changed = nextPage.changed
           /\ queue' \in Seq(Entries)
           /\ \A i \in 1..Len(queue') : GoodEntry(queue'[i], m)
<1> DEFINE entry == StoredSession(next, report)
<1>1. stamp \in Nat /\ queue \in Seq(Entries) /\ \A i \in 1..Len(queue) : GoodEntry(queue[i], stamp)
  BY DEF Inv
<1>2. \A i \in 1..Len(queue) : GoodEntry(queue[i], m)
  BY <1>1, EntryLater
<1>3. session' = next /\ selected' = report
  BY DEF Persisted
<1>4. page' = nextPage \/ page' = [nextPage EXCEPT !.suppress = FALSE]
  BY DEF Persisted
<1>5. page' \in Pages /\ (page'.emptied => page'.changed) /\ page'.changed = nextPage.changed
  BY <1>4 DEF Pages
<1>6. queue' = queue \/ queue' = Append(queue, entry)
  BY DEF Persisted
<1>7. entry \in Entries /\ GoodEntry(entry, m)
  BY StoredIsGood
<1> HIDE DEF entry
<1>8. CASE queue' = queue
  BY <1>1, <1>2, <1>3, <1>5, <1>8
<1>9. CASE queue' = Append(queue, entry)
  <2>1. /\ queue' \in Seq(Entries) /\ Len(queue') = Len(queue) + 1 /\ Len(queue) \in Nat
        /\ \A i \in 1..Len(queue) : queue'[i] = queue[i]
        /\ queue'[Len(queue) + 1] = entry
    BY <1>1, <1>7, <1>9, AppendProperties, LenProperties
  <2>2. ASSUME NEW i \in 1..Len(queue') PROVE GoodEntry(queue'[i], m)
    <3>1. i \in 1..Len(queue) \/ i = Len(queue) + 1
      BY <2>1
    <3> QED BY <1>2, <1>7, <2>1, <3>1
  <2> QED BY <1>3, <1>5, <2>1, <2>2
<1> QED BY <1>6, <1>8, <1>9

(* A step that changes the session of the page, its report or its state. *)
LEMMA SessionStep ==
    ASSUME Inv, NEW next, NEW report \in Reports, NEW nextPage \in Pages,
           nextPage.emptied => nextPage.changed,
           NEW m \in Nat, stamp <= m, Good(next, m), Persisted(next, report, nextPage),
           stamp' = m, disk' = disk, GoodWork(work', next.datasets, m),
           ~nextPage.changed => work' = NoWork
    PROVE  Inv'
<1>1. /\ session' = next /\ selected' = report
      /\ page' \in Pages /\ (page'.emptied => page'.changed)
      /\ page'.changed = nextPage.changed
  BY PersistedIsGood
<1>2. queue' \in Seq(Entries)
  BY PersistedIsGood
<1>3. \A i \in 1..Len(queue') : GoodEntry(queue'[i], m)
  BY PersistedIsGood
<1>4. disk \in Entries /\ GoodEntry(disk, m)
  <2>1. stamp \in Nat /\ disk \in Entries /\ GoodEntry(disk, stamp)
    BY DEF Inv
  <2> QED BY <2>1, EntryLater
<1>5. Good(session', stamp') /\ GoodWork(work', session'.datasets, stamp')
  BY <1>1
<1>6. ~page'.changed => work' = NoWork
  BY <1>1
<1>7. GoodEntry(disk', stamp') /\ \A i \in 1..Len(queue') : GoodEntry(queue'[i], stamp')
  BY <1>3, <1>4
<1> QED BY <1>1, <1>2, <1>4, <1>5, <1>6, <1>7 DEF Inv

(* A changed page knows that it changed. *)
LEMMA ChangedIs ==
    ASSUME Inv, NEW emptied, emptied = TRUE \/ emptied = FALSE
    PROVE  Changed(emptied) \in Pages /\ Changed(emptied).changed = TRUE
<1>1. page \in Pages
  BY DEF Inv
<1>2. CASE emptied = TRUE
  BY <1>1, <1>2 DEF Changed, Pages
<1>3. CASE emptied = FALSE
  BY <1>1, <1>3 DEF Changed, Pages
<1> QED BY <1>2, <1>3

(* Datasets with new names are added to what the user loaded. *)
LEMMA WorkGrows ==
    ASSUME NEW w, NEW ds, NEW n \in Nat, GoodWork(w, ds, n), NEW ids \in SUBSET DatasetIds,
           NEW m \in Nat, n <= m, \A id \in ids : id.stamp > n,
           NEW es, Ids(es) = Ids(ds) \cup ids
    PROVE  GoodWork([w EXCEPT !.mine = @ \cup ids], es, m)
<1> DEFINE v == [w EXCEPT !.mine = @ \cup ids]
<1>1. /\ w \in Works /\ w.mine \subseteq Ids(ds) /\ w.gone \cap Ids(ds) = {}
      /\ (w.emptied => Ids(ds) = w.mine) /\ \A id \in w.gone : id.stamp <= n
  BY DEF GoodWork
<1>2. v \in Works /\ v.mine = w.mine \cup ids /\ v.gone = w.gone /\ v.emptied = w.emptied
  BY <1>1 DEF Works
<1>3. \A id \in w.gone : id.stamp \in Nat /\ id.stamp <= n
  BY <1>1 DEF Works, DatasetIds
<1>4. \A id \in w.gone : id \notin ids /\ id.stamp <= m
  BY <1>3
<1> HIDE DEF v
<1>5. GoodWork(v, es, m)
  BY <1>1, <1>2, <1>4 DEF GoodWork
<1> QED BY <1>5 DEF v

(* A file is imported. *)
LEMMA ImportInv == ASSUME Inv, NEW report \in Reports, Import(report) PROVE Inv'
<1> DEFINE next == Imported(session, report, stamp + 1)
           ids == {UploadId(stamp + 1)}
<1>1. stamp \in Nat /\ Good(session, stamp) /\ GoodWork(work, session.datasets, stamp)
  BY DEF Inv
<1>2. /\ stamp' = stamp + 1 /\ Persisted(next, report, Changed(FALSE))
      /\ work' = [work EXCEPT !.mine = @ \cup ids] /\ disk' = disk
  BY DEF Import
<1>3. Good(next, stamp + 1)
  BY <1>1, ImportedIsGood
<1>4. Ids(next.datasets) = Ids(session.datasets) \cup ids
  BY <1>1, ImportedIsGood
<1>5. /\ ids \in SUBSET DatasetIds /\ (\A id \in ids : id.stamp > stamp)
      /\ stamp <= stamp + 1 /\ stamp + 1 \in Nat
  BY <1>1 DEF UploadId, DatasetIds
<1> HIDE DEF next, ids
<1>6. GoodWork(work', next.datasets, stamp + 1)
  BY <1>1, <1>2, <1>4, <1>5, WorkGrows
<1>7. Changed(FALSE) \in Pages /\ Changed(FALSE).changed
  BY ChangedIs
<1> QED BY <1>2, <1>3, <1>5, <1>6, <1>7, SessionStep

(* A report job hands over its run. *)
LEMMA RunLoadedInv ==
    ASSUME Inv, NEW report \in Reports, NEW role \in Roles, RunLoaded(report, role)
    PROVE  Inv'
<1> DEFINE next == Loaded(session, report, role, stamp + 1)
           ids == RunIds(stamp + 1)
<1>1. stamp \in Nat /\ Good(session, stamp) /\ GoodWork(work, session.datasets, stamp)
  BY DEF Inv
<1>2. /\ stamp' = stamp + 1 /\ Persisted(next, report, Changed(FALSE))
      /\ work' = [work EXCEPT !.mine = @ \cup ids] /\ disk' = disk
  BY DEF RunLoaded
<1>3. Good(next, stamp + 1)
  BY <1>1, LoadedIsGood
<1>4. Ids(next.datasets) = Ids(session.datasets) \cup ids
  BY <1>1, LoadedIsGood
<1>5. /\ ids \in SUBSET DatasetIds /\ (\A id \in ids : id.stamp > stamp)
      /\ stamp <= stamp + 1 /\ stamp + 1 \in Nat
  BY <1>1 DEF RunIds, DatasetIds
<1> HIDE DEF next, ids
<1>6. GoodWork(work', next.datasets, stamp + 1)
  BY <1>1, <1>2, <1>4, <1>5, WorkGrows
<1>7. Changed(FALSE) \in Pages /\ Changed(FALSE).changed
  BY ChangedIs
<1> QED BY <1>2, <1>3, <1>5, <1>6, <1>7, SessionStep

(* A report job hands over the runs of both periods. *)
LEMMA BothLoadedInv ==
    ASSUME Inv, NEW report \in Reports, BothLoaded(report)
    PROVE  Inv'
<1> DEFINE first == stamp + 1
           last == stamp + 2
           current == Loaded(session, report, "current", first)
           both == Loaded(current, report, "comparison", last)
           ids == RunIds(first) \cup RunIds(last)
<1>1. /\ stamp \in Nat /\ Good(session, stamp) /\ GoodWork(work, session.datasets, stamp)
      /\ first \in Nat /\ last \in Nat /\ first + 1 = last
      /\ stamp <= first /\ stamp <= last
  BY DEF Inv
<1>2. Good(current, first)
  BY <1>1, LoadedIsGood DEF Roles
<1>3. Ids(current.datasets) = Ids(session.datasets) \cup RunIds(first)
  BY <1>1, LoadedIsGood DEF Roles
<1>4. /\ disk' = disk /\ stamp' = last /\ Persisted(both, report, Changed(FALSE))
      /\ work' = [work EXCEPT !.mine = @ \cup RunIds(first) \cup RunIds(last)]
  BY DEF BothLoaded
<1>5. Changed(FALSE) \in Pages /\ Changed(FALSE).changed
  BY ChangedIs
<1>6. ids \in SUBSET DatasetIds /\ \A id \in ids : id.stamp > stamp
  BY <1>1 DEF RunIds, DatasetIds
<1> HIDE DEF current
<1>7. Good(both, first + 1)
  BY <1>1, <1>2, LoadedIsGood DEF Roles
<1>8. Ids(both.datasets) = Ids(current.datasets) \cup RunIds(first + 1)
  BY <1>1, <1>2, LoadedIsGood DEF Roles
<1>9. Good(both, last) /\ Ids(both.datasets) = Ids(session.datasets) \cup ids
  BY <1>1, <1>3, <1>7, <1>8
<1>10. work' = [work EXCEPT !.mine = @ \cup ids]
  BY <1>4
<1> HIDE DEF ids, first, both, last
<1>11. GoodWork([work EXCEPT !.mine = @ \cup ids], both.datasets, last)
  BY <1>1, <1>6, <1>9, WorkGrows
<1>12. GoodWork(work', both.datasets, last)
  BY <1>10, <1>11
<1> QED BY <1>1, <1>4, <1>5, <1>9, <1>12, SessionStep

(* A dataset is removed. *)
LEMMA RemoveDatasetInv == ASSUME Inv, NEW dataset, RemoveDataset(dataset) PROVE Inv'
<1> DEFINE next == Removed(session, dataset)
           last == Cardinality(session.datasets) = 1
           left == [mine |-> work.mine \ {dataset.id}, gone |-> work.gone \cup {dataset.id},
                    emptied |-> work.emptied \/ last]
<1>1. /\ stamp \in Nat /\ Good(session, stamp) /\ GoodWork(work, session.datasets, stamp)
      /\ stamp <= stamp /\ selected \in Reports
  BY DEF Inv
<1>2. /\ dataset \in session.datasets /\ Persisted(next, selected, Changed(last))
      /\ work' = left /\ disk' = disk /\ stamp' = stamp
  BY DEF RemoveDataset
<1>3. Good(next, stamp) /\ Ids(next.datasets) = Ids(session.datasets) \ {dataset.id}
  BY <1>1, <1>2, RemovedIsGood
<1>4. dataset.id \in DatasetIds /\ dataset.id.stamp <= stamp
      /\ IsFiniteSet(session.datasets) /\ dataset.id \in Ids(session.datasets)
  BY <1>1, <1>2 DEF Good, Sessions, Datasets, Named, Ids
<1>5. last => Ids(session.datasets) = {dataset.id}
  <2>1. last => session.datasets = {dataset}
    BY <1>2, <1>4, FS_Singleton
  <2> QED BY <2>1 DEF Ids
<1>6. /\ work \in Works /\ work.mine \subseteq Ids(session.datasets)
      /\ work.gone \cap Ids(session.datasets) = {}
      /\ (work.emptied => Ids(session.datasets) = work.mine)
      /\ \A id \in work.gone : id.stamp <= stamp
  BY <1>1 DEF GoodWork
<1>7. /\ left \in Works /\ left.mine = work.mine \ {dataset.id}
      /\ left.gone = work.gone \cup {dataset.id}
  BY <1>4, <1>6 DEF Works
<1>8. left.emptied => work.emptied \/ last
  OBVIOUS
<1> HIDE DEF left, last, next
<1>9. left.emptied => Ids(next.datasets) = left.mine
  BY <1>3, <1>5, <1>6, <1>7, <1>8
<1>10. GoodWork(left, next.datasets, stamp)
  BY <1>3, <1>4, <1>6, <1>7, <1>9 DEF GoodWork
<1>11. Changed(last) \in Pages /\ Changed(last).changed = TRUE
  <2>1. last = TRUE \/ last = FALSE
    BY DEF last
  <2> QED BY <2>1, ChangedIs
<1> QED BY <1>1, <1>2, <1>3, <1>10, <1>11, SessionStep

(* The datasets are flushed. *)
LEMMA FlushInv == Inv /\ Flush => Inv'
<1> SUFFICES ASSUME Inv, Flush PROVE Inv'
  OBVIOUS
<1> DEFINE left == [mine |-> {}, gone |-> work.gone \cup Ids(session.datasets), emptied |-> TRUE]
<1>1. /\ stamp \in Nat /\ Good(session, stamp) /\ GoodWork(work, session.datasets, stamp)
      /\ stamp <= stamp /\ selected \in Reports
  BY DEF Inv
<1>2. /\ Persisted(NoSession, selected, Changed(TRUE))
      /\ work' = left /\ disk' = disk /\ stamp' = stamp
  BY DEF Flush
<1>3. Good(NoSession, stamp) /\ Ids(NoSession.datasets) = {}
  BY <1>1, NoSessionIsGood DEF NoSession, Ids
<1>4. \A id \in Ids(session.datasets) : id \in DatasetIds /\ id.stamp <= stamp
  BY <1>1 DEF Good, Sessions, Datasets, Named, Ids
<1>5. left \in Works
  BY <1>1, <1>4 DEF GoodWork, Works
<1>6. GoodWork(left, NoSession.datasets, stamp)
  BY <1>1, <1>3, <1>4, <1>5 DEF GoodWork
<1>7. Changed(TRUE) \in Pages /\ Changed(TRUE).changed
  BY ChangedIs
<1> HIDE DEF left
<1> QED BY <1>1, <1>2, <1>3, <1>6, <1>7, SessionStep

(* A report is selected. *)
LEMMA SelectReportInv ==
    ASSUME Inv, NEW report \in Reports, SelectReport(report) PROVE Inv'
<1> DEFINE next == [page EXCEPT !.picked = TRUE]
<1>1. /\ stamp \in Nat /\ Good(session, stamp) /\ GoodWork(work, session.datasets, stamp)
      /\ stamp <= stamp /\ page \in Pages /\ (page.emptied => page.changed)
      /\ (~page.changed => work = NoWork)
  BY DEF Inv
<1>2. /\ Persisted(session, report, next)
      /\ work' = work /\ disk' = disk /\ stamp' = stamp
  BY DEF SelectReport
<1>3. next \in Pages /\ next.changed = page.changed /\ next.emptied = page.emptied
  BY <1>1 DEF Pages
<1> HIDE DEF next
<1> QED BY <1>1, <1>2, <1>3, SessionStep

(* The stored session is read: it fills a page that the user left as it was. *)
LEMMA LoadDoneInv == Inv /\ LoadDone => Inv'
<1> SUFFICES ASSUME Inv, LoadDone PROVE Inv'
  OBVIOUS
<1> DEFINE ready == [page EXCEPT !.ready = TRUE]
           quiet == [ready EXCEPT !.suppress = ~page.emptied]
<1>1. /\ stamp \in Nat /\ Good(session, stamp) /\ GoodWork(work, session.datasets, stamp)
      /\ stamp <= stamp /\ page \in Pages /\ (page.emptied => page.changed)
      /\ (~page.changed => work = NoWork) /\ selected \in Reports
      /\ disk \in Entries /\ GoodEntry(disk, stamp)
  BY DEF Inv
<1>2. /\ disk' = disk /\ stamp' = stamp /\ work' = work
      /\ \/ Persisted(session, selected, ready)
         \/ /\ disk # None /\ ~page.changed
            /\ \E report \in {selected, disk.selected} :
                  Persisted(Parsed(disk.data), report, ready)
         \/ Persisted(session, selected, quiet)
  BY DEF LoadDone, MayHydrate
<1>3. ready \in Pages /\ ready.changed = page.changed /\ ready.emptied = page.emptied
  BY <1>1 DEF Pages
<1>4. quiet \in Pages /\ quiet.changed = page.changed /\ quiet.emptied = page.emptied
  BY <1>1 DEF Pages
<1> HIDE DEF ready, quiet
<1>5. CASE Persisted(session, selected, ready)
  BY <1>1, <1>2, <1>3, <1>5, SessionStep
<1>6. CASE Persisted(session, selected, quiet)
  BY <1>1, <1>2, <1>4, <1>6, SessionStep
<1>7. CASE /\ disk # None /\ ~page.changed
           /\ \E report \in {selected, disk.selected} :
                 Persisted(Parsed(disk.data), report, ready)
  <2>1. Good(disk.data, stamp) /\ disk.selected \in Reports
    BY <1>1, <1>7 DEF Entries, GoodEntry
  <2>2. Parsed(disk.data) = disk.data
    BY <2>1, ParsedIsSame
  <2>3. PICK report \in Reports : Persisted(disk.data, report, ready)
    BY <1>1, <1>7, <2>1, <2>2
  <2>4. work = NoWork
    BY <1>1, <1>7
  <2>5. GoodWork(work, disk.data.datasets, stamp)
    BY <2>4 DEF NoWork, GoodWork, Works
  <2> QED BY <1>1, <1>2, <1>3, <1>7, <2>1, <2>3, <2>4, <2>5, SessionStep
<1> QED BY <1>2, <1>5, <1>6, <1>7

(* The stored session could not be read. *)
LEMMA LoadFailsInv == Inv /\ LoadFails => Inv'
<1> SUFFICES ASSUME Inv, LoadFails PROVE Inv'
  OBVIOUS
<1> DEFINE ready == [page EXCEPT !.ready = TRUE, !.warned = TRUE]
<1>1. /\ stamp \in Nat /\ Good(session, stamp) /\ GoodWork(work, session.datasets, stamp)
      /\ stamp <= stamp /\ page \in Pages /\ (page.emptied => page.changed)
      /\ (~page.changed => work = NoWork) /\ selected \in Reports
  BY DEF Inv
<1>2. /\ Persisted(session, selected, ready)
      /\ disk' = disk /\ stamp' = stamp /\ work' = work
  BY DEF LoadFails
<1>3. ready \in Pages /\ ready.changed = page.changed /\ ready.emptied = page.emptied
  BY <1>1 DEF Pages
<1> HIDE DEF ready
<1> QED BY <1>1, <1>2, <1>3, SessionStep

(* A write is taken off the queue: it is made or it fails. *)
LEMMA QueueShrinks ==
    ASSUME Inv, queue # <<>>
    PROVE  /\ Head(queue) \in Entries /\ GoodEntry(Head(queue), stamp)
           /\ Tail(queue) \in Seq(Entries)
           /\ \A i \in 1..Len(Tail(queue)) : GoodEntry(Tail(queue)[i], stamp)
<1>1. queue \in Seq(Entries) /\ \A i \in 1..Len(queue) : GoodEntry(queue[i], stamp)
  BY DEF Inv
<1>2. /\ Tail(queue) \in Seq(Entries) /\ Len(Tail(queue)) = Len(queue) - 1
      /\ (\A i \in 1..Len(Tail(queue)) : Tail(queue)[i] = queue[i + 1])
      /\ Len(queue) \in Nat \ {0} /\ Head(queue) = queue[1] /\ Head(queue) \in Entries
  BY <1>1, HeadTailProperties, LenProperties, EmptySeq
<1>3. \A i \in 1..Len(Tail(queue)) : i + 1 \in 1..Len(queue)
  BY <1>2
<1>4. 1 \in 1..Len(queue)
  BY <1>2
<1> QED BY <1>1, <1>2, <1>3, <1>4

(* A write is made. *)
LEMMA WriteDoneInv == Inv /\ WriteDone => Inv'
<1> SUFFICES ASSUME Inv, WriteDone PROVE Inv'
  OBVIOUS
<1>1. /\ queue # <<>> /\ disk' = Head(queue) /\ queue' = Tail(queue)
      /\ UNCHANGED <<session, selected, page, stamp, work>>
  BY DEF WriteDone
<1>2. disk' \in Entries /\ GoodEntry(disk', stamp')
  BY <1>1, QueueShrinks
<1>3. queue' \in Seq(Entries) /\ \A i \in 1..Len(queue') : GoodEntry(queue'[i], stamp')
  BY <1>1, QueueShrinks
<1> QED BY <1>1, <1>2, <1>3 DEF Inv

(* A write fails. *)
LEMMA WriteFailsInv == Inv /\ WriteFails => Inv'
<1> SUFFICES ASSUME Inv, WriteFails PROVE Inv'
  OBVIOUS
<1>1. /\ queue # <<>> /\ queue' = Tail(queue)
      /\ page' = [page EXCEPT !.warned = @ \/ Len(queue) = 1]
      /\ UNCHANGED <<disk, session, selected, stamp, work>>
  BY DEF WriteFails, Settled
<1>2. queue' \in Seq(Entries) /\ \A i \in 1..Len(queue') : GoodEntry(queue'[i], stamp')
  BY <1>1, QueueShrinks
<1>3. page \in Pages
  BY DEF Inv
<1>4. page' \in Pages /\ page'.changed = page.changed /\ page'.emptied = page.emptied
  BY <1>1, <1>3 DEF Pages
<1> QED BY <1>1, <1>2, <1>4 DEF Inv

(* The page opens, at first or again. *)
LEMMA NewPageIsGood ==
    ASSUME NEW n \in Nat
    PROVE  /\ NewPage \in Pages /\ ~NewPage.emptied
           /\ DefaultReport \in Reports /\ <<>> \in Seq(Entries) /\ Len(<<>>) = 0
           /\ GoodWork(NoWork, NoSession.datasets, n)
<1>1. NewPage \in Pages /\ ~NewPage.emptied
  BY DEF NewPage, Pages
<1>2. DefaultReport \in Reports
  BY SessionAssumption DEF DefaultReport
<1>3. NoWork \in Works /\ NoWork.mine = {} /\ NoWork.gone = {} /\ ~NoWork.emptied
  BY DEF NoWork, Works
<1> QED BY <1>1, <1>2, <1>3 DEF GoodWork

(* The page is closed and opened again. *)
LEMMA ReloadInv == Inv /\ Reload => Inv'
<1> SUFFICES ASSUME Inv, Reload PROVE Inv'
  OBVIOUS
<1>1. stamp \in Nat /\ disk \in Entries /\ GoodEntry(disk, stamp)
  BY DEF Inv
<1>2. /\ session' = NoSession /\ selected' = DefaultReport
      /\ page' = NewPage /\ queue' = <<>> /\ work' = NoWork
      /\ UNCHANGED <<disk, stamp>>
  BY DEF Reload
<1>3. Good(session', stamp')
  BY <1>1, <1>2, NoSessionIsGood
<1>4. /\ page' \in Pages /\ ~page'.emptied /\ selected' \in Reports
      /\ queue' \in Seq(Entries) /\ Len(queue') = 0
      /\ GoodWork(work', session'.datasets, stamp')
  BY <1>1, <1>2, NewPageIsGood
<1> QED BY <1>1, <1>2, <1>3, <1>4 DEF Inv

(* The first page opens on a browser that has nothing stored. *)
LEMMA InitInv == Init => Inv
<1> SUFFICES ASSUME Init PROVE Inv
  OBVIOUS
<1>1. /\ stamp = 0 /\ disk = None /\ session = NoSession /\ selected = DefaultReport
      /\ page = NewPage /\ queue = <<>> /\ work = NoWork
  BY DEF Init
<1>2. Good(session, stamp)
  BY <1>1, NoSessionIsGood
<1>3. /\ page \in Pages /\ ~page.emptied /\ selected \in Reports
      /\ queue \in Seq(Entries) /\ Len(queue) = 0
      /\ GoodWork(work, session.datasets, stamp)
  BY <1>1, NewPageIsGood
<1>4. disk \in Entries /\ GoodEntry(disk, stamp)
  BY <1>1 DEF Entries, GoodEntry
<1> QED BY <1>1, <1>2, <1>3, <1>4 DEF Inv

-----------------------------------------------------------------------------
(* The theorems *)

(* Every step keeps the invariant. *)
LEMMA NextInv == Inv /\ [Next]_vars => Inv'
<1> SUFFICES ASSUME Inv, [Next]_vars PROVE Inv'
  OBVIOUS
<1>1. CASE UserStep
  BY <1>1, ImportInv, SelectReportInv, RunLoadedInv, BothLoadedInv,
     RemoveDatasetInv, FlushInv DEF UserStep
<1>2. CASE BrowserStep
  BY <1>2, LoadDoneInv, LoadFailsInv, WriteDoneInv, WriteFailsInv DEF BrowserStep
<1>3. CASE Reload
  BY <1>3, ReloadInv
<1>4. CASE UNCHANGED vars
  BY <1>4 DEF vars, Inv
<1> QED BY <1>1, <1>2, <1>3, <1>4 DEF Next

(* The invariant holds of every behaviour. *)
LEMMA Invariant == Spec => []Inv
BY InitInv, NextInv, PTL DEF Spec

(* The variables keep their types, in the page, in the queue of writes and on
   the disk (sessionStore.ts). *)
THEOREM SessionTypes == Spec => []TypeOK
<1>1. ASSUME NEW s, NEW n, Good(s, n) PROVE IsSession(s)
  BY <1>1 DEF Good, Sessions, Datasets, Runs, Named, IsSession
<1>2. ASSUME Inv PROVE TypeOK
  <2>1. DOMAIN queue = 1..Len(queue) /\ \A i \in 1..Len(queue) : queue[i] \in Entries
    BY <1>2, LenProperties DEF Inv
  <2>2. \A i \in DOMAIN queue : queue[i] # None => IsSession(queue[i].data)
    BY <1>1, <1>2, <2>1 DEF Inv, GoodEntry
  <2>3. disk # None => IsSession(disk.data) /\ disk.selected \in Reports
    BY <1>1, <1>2 DEF Inv, GoodEntry, Entries
  <2>4. IsSession(session)
    BY <1>1, <1>2 DEF Inv
  <2>5. \A flag \in DOMAIN page : page[flag] \in BOOLEAN
    BY <1>2 DEF Inv, Pages
  <2> QED BY <1>2, <2>2, <2>3, <2>4, <2>5 DEF Inv, TypeOK
<1> QED BY <1>2, Invariant, PTL

(* What is stored of the session of the page gives back all of it
   (datasetPersistence.ts: the parser leaves out no run as one that is not
   whole, no dataset as one whose run is lost and no output as one whose run or
   upload is lost). *)
THEOREM StoredSessionIsWhole == Spec => []RestoredAsShown
<1>1. Inv => RestoredAsShown
  BY ParsedIsSame DEF Inv, RestoredAsShown
<1> QED BY <1>1, Invariant, PTL

(* What the user did to the datasets since the page opened is not undone by the
   stored session when it is read, however late (App.tsx, the effect that
   hydrates), and what the user removed is shown by no report, an upload beside
   a comparison run left out (sessionStore.ts, live/loaded and
   removeDatasetFromReportOutput). *)
THEOREM LoadUndoesNothing == Spec => []LoadKeepsWork
<1>1. ASSUME Inv PROVE LoadKeepsWork
  <2>1. Everything(session) \subseteq Ids(session.datasets) \cup UploadsBeside(session)
    BY <1>1, EverythingIsThere DEF Inv
  <2>2. /\ work.mine \subseteq Ids(session.datasets)
        /\ work.gone \cap Ids(session.datasets) = {}
        /\ work.emptied => Ids(session.datasets) = work.mine
    BY <1>1 DEF Inv, GoodWork
  <2> QED BY <2>1, <2>2 DEF LoadKeepsWork
<1> QED BY <1>1, Invariant, PTL
=============================================================================
