------------------------ MODULE UserGroupSyncProofs ------------------------
(***************************************************************************)
(* Theorems about the user group sync, for any files, users, groups and    *)
(* any number of requests at a time.                                       *)
(***************************************************************************)
EXTENDS UserGroupSync, PlacesLemmas, FiniteSetTheorems, TLAPS

(* The group that is worked on next is one of those that are left. *)
LEMMA FirstIsLeft ==
    ASSUME NEW groups, groups \subseteq Groups, groups # {}
    PROVE  First(groups) \in groups
<1> DEFINE places == {i \in DOMAIN Order : Order[i] \in groups}
<1>1. DOMAIN Order = 1..Len(Order) /\ Len(Order) \in Nat
  BY SyncAssumption
<1>2. places \subseteq Nat /\ places # {}
  BY <1>1 DEF Groups, ToSet
<1>3. PICK i \in places : \A j \in places : i <= j
  BY <1>2, Least
<1>4. \A j \in 1..(i - 1) : Order[j] \notin groups
  BY <1>1, <1>3
<1> QED BY <1>3, <1>4 DEF First

-----------------------------------------------------------------------------
(* Types *)

(* What is planned for a group consists of users that exist. *)
LEMMA PlannedGroupType ==
    ASSUME NEW desired \in (SUBSET Known) \ {{}}, NEW members \in {None} \cup SUBSET Known,
           NEW exact \in BOOLEAN
    PROVE  PlannedGroup(desired, members, exact) \in PlannedGroups
BY DEF PlannedGroup, PlannedGroups

(* The parts of what is planned for a group. *)
LEMMA PlannedParts ==
    ASSUME NEW desired, NEW members, NEW exact
    PROVE  LET planned == PlannedGroup(desired, members, exact)
           IN /\ planned.create <=> members = None
              /\ planned.desired = desired
              /\ members = None => planned.add = desired /\ planned.remove = {}
              /\ members # None => planned.add = desired \ members
              /\ members # None /\ exact => planned.remove = members \ desired
              /\ ~exact => planned.remove = {}
<1> DEFINE create == members = None
           add == desired \ (IF members = None THEN {} ELSE members)
           remove == IF exact /\ members # None THEN members \ desired ELSE {}
<1>1. PlannedGroup(desired, members, exact)
        = [create |-> create, desired |-> desired, add |-> add, remove |-> remove]
  BY Zenon DEF PlannedGroup
<1>2. members = None => add = desired /\ remove = {}
  OBVIOUS
<1>3. members # None => add = desired \ members
  OBVIOUS
<1>4. (members # None /\ exact => remove = members \ desired) /\ (~exact => remove = {})
  OBVIOUS
<1> HIDE DEF create, add, remove
<1>5. /\ PlannedGroup(desired, members, exact).create = create
      /\ PlannedGroup(desired, members, exact).desired = desired
      /\ PlannedGroup(desired, members, exact).add = add
      /\ PlannedGroup(desired, members, exact).remove = remove
  BY <1>1
<1> QED BY <1>2, <1>3, <1>4, <1>5, Zenon DEF create

(* Members are removed by an exact sync only, and only those in excess.    *)
LEMMA PlannedRemoval ==
    ASSUME NEW desired, NEW members, NEW exact,
           PlannedGroup(desired, members, exact).remove # {}
    PROVE  /\ exact /\ members # None
           /\ PlannedGroup(desired, members, exact).remove = members \ desired
BY PlannedParts

(* A plan has the type of a plan. *)
LEMMA PlanType ==
    ASSUME NEW input \in [file : Files, exact : BOOLEAN], NEW found \in SUBSET Known,
           group \in [Groups -> {None} \cup SUBSET Known]
    PROVE  Plan(input, found) \in Plans
<1> DEFINE desired == Desired(input, found)
           planned == {h \in Groups : desired[h] # {}}
           groups == [g \in planned |-> PlannedGroup(desired[g], group[g], input.exact)]
<1>1. \A g \in Groups : desired[g] = Wanted[input.file][g] \cap found
  BY DEF Desired
<1>2. \A g \in planned : PlannedGroup(desired[g], group[g], input.exact) \in PlannedGroups
  <2> TAKE g \in planned
  <2>1. desired[g] \in (SUBSET Known) \ {{}} /\ group[g] \in {None} \cup SUBSET Known
    BY <1>1
  <2> QED BY <2>1, PlannedGroupType
<1>3. groups \in UNION {[p -> PlannedGroups] : p \in SUBSET Groups}
  <2>1. groups \in [planned -> PlannedGroups] /\ planned \in SUBSET Groups
    BY <1>2
  <2> QED BY <2>1
<1>4. UNION {Wanted[input.file][g] : g \in Groups} \subseteq Users
  BY SyncAssumption
<1>5. Plan(input, found) = [exact |-> input.exact, blocked |-> input.file \in Blocked,
                            skipped |-> UNION {Wanted[input.file][g] : g \in Groups} \ found,
                            groups |-> groups]
  BY DEF Plan
<1> QED BY <1>3, <1>4, <1>5 DEF Plans

Previews == [plan : {None} \cup Plans, of : {None} \cup Inputs]

(* The retries of a call keep its type.                                    *)
LEMMA CallType ==
    /\ NewCall \in Calls
    /\ \A call \in Calls, refusal \in Refusals : Retried(call, refusal) \in Calls
<1>1. NewCall \in Calls
  BY DEF NewCall, Calls
<1>2. ASSUME NEW call \in Calls, NEW refusal \in Refusals
      PROVE  Retried(call, refusal) \in Calls
  <2> DEFINE noticed == call.noticed \/ (refusal.kind = "429" /\ refusal.delay > 0)
  <2>1. noticed \in BOOLEAN
    BY Zenon
  <2>2. call.retries + 1 \in Nat /\ call.waited + refusal.delay \in Nat
    <3>1. call.retries \in Nat /\ call.waited \in Nat
      BY DEF Calls
    <3>2. refusal.delay \in Nat
      BY BudgetAssumption DEF Refusals
    <3> QED BY <3>1, <3>2
  <2>3. Retried(call, refusal) = [retries |-> call.retries + 1,
                                  waited |-> call.waited + refusal.delay, noticed |-> noticed]
    BY Zenon DEF Retried
  <2> HIDE DEF noticed
  <2> QED BY <2>1, <2>2, <2>3 DEF Calls
<1> QED BY <1>1, <1>2

(* A slot without a request is typed.                                      *)
LEMMA FreeRequestType == FreeRequest \in Requests /\ FreeRequest.phase = "free"
BY CallType DEF FreeRequest, Requests, Input, Inputs

(* A panel without a plan is typed.                                        *)
LEMMA UnseenType == Unseen \in Previews
BY DEF Unseen, Previews

(* A panel whose results are cleared is typed.                             *)
LEMMA ClearResultsType == \A p \in Panels : ClearResults(p) \in Panels
BY UnseenType DEF ClearResults, Panels, Previews

(* A panel that has its answer is typed.                                   *)
LEMMA AnsweredType ==
    ASSUME panel \in Panels, NEW preview \in Previews
    PROVE  Answered(preview) \in Panels
BY DEF Answered, Panels, Previews

\* The part of the type invariant that is about the requests.
RequestsOK(requestsOf) ==
    /\ requestsOf \in [Slots -> Requests]
    /\ \A c \in Slots : requestsOf[c].phase = "write" =>
          /\ requestsOf[c].plan \in Plans
          /\ requestsOf[c].seen \in [Groups -> {None} \cup SUBSET Known]

(* Changing one request keeps the types of all. *)
LEMMA OneRequest ==
    ASSUME RequestsOK(req), NEW c \in Slots, NEW r \in Requests,
           r.phase = "write" =>
               r.plan \in Plans /\ r.seen \in [Groups -> {None} \cup SUBSET Known]
    PROVE  RequestsOK([req EXCEPT ![c] = r])
BY DEF RequestsOK

(* A reply ends its request. *)
LEMMA ReplyType ==
    ASSUME RequestsOK(req), panel \in Panels, NEW c \in Slots, NEW preview \in Previews,
           Reply(c, preview)
    PROVE  RequestsOK(req') /\ panel' \in Panels
<1>1. RequestsOK([req EXCEPT ![c] = FreeRequest])
  BY OneRequest, FreeRequestType
<1> QED BY <1>1, AnsweredType DEF Reply

(* A change by someone else is recorded for groups.                        *)
LEMMA DisturbedType ==
    ASSUME NEW slots, NEW g \in Groups, disturbed \in [Slots -> SUBSET Groups]
    PROVE  Disturbed(slots, g) \in [Slots -> SUBSET Groups]
BY DEF Disturbed

(* A write leaves a group with members that exist. *)
LEMMA WrittenType ==
    ASSUME TypeOK, NEW c \in Slots, NEW g \in Groups, NEW members \in SUBSET Known,
           NEW possible, NEW ok \in BOOLEAN, Written(c, g, members, possible, ok)
    PROVE  /\ group' \in [Groups -> {None} \cup SUBSET Known]
           /\ disturbed' \in [Slots -> SUBSET Groups]
<1>1. group \in [Groups -> {None} \cup SUBSET Known] /\ disturbed \in [Slots -> SUBSET Groups]
  BY DEF TypeOK
<1>2. CASE Made(c, g, members)
  BY <1>1, <1>2, DisturbedType DEF Made
<1>3. CASE UNCHANGED <<group, disturbed>>
  BY <1>1, <1>3
<1> QED BY <1>2, <1>3 DEF Written

(* What is typed follows from its parts. *)
LEMMA TypeParts ==
    TypeOK <=> /\ panel \in Panels
               /\ RequestsOK(req)
               /\ group \in [Groups -> {None} \cup SUBSET Known]
               /\ disturbed \in [Slots -> SUBSET Groups]
BY DEF TypeOK, RequestsOK

(* The plan of a request that writes, the group that is next in it and what *)
(* is planned for this group.                                               *)
LEMMA NextGroupType ==
    ASSUME TypeOK, NEW c \in Slots, req[c].phase = "write", req[c].left # {},
           req[c].left \subseteq DOMAIN req[c].plan.groups
    PROVE  /\ First(req[c].left) \in Groups
           /\ First(req[c].left) \in req[c].left
           /\ req[c].plan.groups[First(req[c].left)] \in PlannedGroups
<1>1. req[c].left \subseteq Groups /\ req[c].plan \in Plans
  BY DEF TypeOK, Requests
<1>2. First(req[c].left) \in req[c].left
  BY <1>1, FirstIsLeft
<1>3. \A g \in DOMAIN req[c].plan.groups : req[c].plan.groups[g] \in PlannedGroups
  BY <1>1 DEF Plans
<1> QED BY <1>1, <1>2, <1>3

(* The types hold at first.                                                *)
LEMMA InitTypes == Init => TypeOK
<1> SUFFICES ASSUME Init PROVE TypeOK
  OBVIOUS
<1>1. panel \in Panels
  BY DEF Init, Panels, Input, Inputs, Unseen
<1>2. RequestsOK(req)
  BY FreeRequestType DEF Init, RequestsOK
<1>3. group \in [Groups -> {None} \cup SUBSET Known] /\ disturbed \in [Slots -> SUBSET Groups]
  BY SyncAssumption DEF Init
<1> QED BY <1>1, <1>2, <1>3, TypeParts

(* Choosing a file keeps the types.                                        *)
LEMMA PickFileTypes == ASSUME TypeOK, NEW f \in Files, PickFile(f) PROVE TypeOK'
<1>1. panel' \in Panels
  <2> DEFINE p == [panel EXCEPT !.input.file = None, !.latest = f, !.reading = @ \cup {f}]
  <2>1. p \in Panels
    BY DEF TypeOK, Panels, Inputs
  <2>2. panel' = ClearResults(p)
    BY DEF PickFile
  <2> QED BY <2>1, <2>2, ClearResultsType
<1> QED BY <1>1 DEF TypeOK, PickFile

(* Choosing no file keeps the types.                                       *)
LEMMA PickNoFileTypes == ASSUME TypeOK, PickNoFile PROVE TypeOK'
<1>1. panel' \in Panels
  BY DEF TypeOK, PickNoFile, Panels, Inputs
<1> QED BY <1>1 DEF TypeOK, PickNoFile

(* Reading a file keeps the types.                                         *)
LEMMA FileReadTypes == ASSUME TypeOK, NEW f \in Files, FileRead(f) PROVE TypeOK'
<1>1. panel' \in Panels
  BY DEF TypeOK, FileRead, Panels, Inputs
<1> QED BY <1>1 DEF TypeOK, FileRead, counters

(* Changing the mode keeps the types.                                      *)
LEMMA ToggleExactTypes == ASSUME TypeOK, ToggleExact PROVE TypeOK'
<1>1. panel' \in Panels
  <2> DEFINE p == [panel EXCEPT !.input.exact = ~@]
  <2>1. p \in Panels
    BY DEF TypeOK, Panels, Inputs
  <2>2. panel' = ClearResults(p)
    BY DEF ToggleExact
  <2> QED BY <2>1, <2>2, ClearResultsType
<1> QED BY <1>1 DEF TypeOK, ToggleExact

(* Sending a request keeps the types.                                      *)
LEMMA SendTypes == ASSUME TypeOK, NEW action \in {"preview", "apply"}, Send(action) PROVE TypeOK'
<1> DEFINE c == CHOOSE d \in Slots : req[d].phase = "free"
           todo == UNION {Wanted[panel.input.file][g] : g \in Groups}
           r == [FreeRequest EXCEPT !.phase = "lookup", !.action = action, !.heard = TRUE,
                    !.input = panel.input, !.expected = panel.preview.plan, !.todo = todo]
<1>1. c \in Slots
  BY DEF Send
<1>2. todo \in SUBSET Users
  BY SyncAssumption DEF Send, TypeOK, Panels, Inputs
<1>3. panel.input \in Inputs /\ panel.preview.plan \in {None} \cup Plans
  BY DEF TypeOK, Panels
<1>4. r \in Requests /\ r.phase = "lookup"
  <2> HIDE DEF todo
  <2> QED BY <1>2, <1>3, FreeRequestType DEF Requests
<1>5. RequestsOK(req')
  <2>1. req' = [req EXCEPT ![c] = r]
    BY DEF Send
  <2> HIDE DEF r, c
  <2> QED BY <1>1, <1>4, <2>1, TypeParts, OneRequest
<1>6. panel' \in Panels
  <2> DEFINE p == IF action = "preview" THEN ClearResults(panel) ELSE panel
  <2>1. p \in Panels
    BY ClearResultsType DEF TypeOK
  <2>2. panel' = [p EXCEPT !.pending = action, !.sent = panel.input]
    BY DEF Send
  <2> HIDE DEF p
  <2> QED BY <1>3, <2>1, <2>2 DEF Panels
<1>7. UNCHANGED <<group, disturbed>>
  BY DEF Send
<1> QED BY <1>5, <1>6, <1>7 DEF TypeOK, RequestsOK

(* A lost connection keeps the types.                                      *)
LEMMA ConnectionLostTypes == ASSUME TypeOK, ConnectionLost PROVE TypeOK'
<1>1. panel' \in Panels
  BY UnseenType, AnsweredType DEF ConnectionLost, TypeOK
<1>2. RequestsOK(req')
  <2>1. \A r \in Requests :
           LET unheard == [r EXCEPT !.heard = FALSE]
           IN /\ unheard \in Requests /\ unheard.phase = r.phase
              /\ unheard.plan = r.plan /\ unheard.seen = r.seen
    BY DEF Requests
  <2>2. req' = [c \in Slots |-> [req[c] EXCEPT !.heard = FALSE]]
    BY DEF ConnectionLost
  <2> QED BY <2>1, <2>2 DEF TypeOK, RequestsOK
<1> QED BY <1>1, <1>2 DEF ConnectionLost, TypeOK, RequestsOK

(* The lookups find users that exist.                                      *)
LEMMA LookupTypes == ASSUME TypeOK, NEW c \in Slots, Lookup(c) PROVE TypeOK'
<1> DEFINE r == [req[c] EXCEPT !.todo = {}, !.call = NewCall,
                               !.found = @ \cup Resolved(req[c].todo)]
<1>1. r \in Requests /\ r.phase = "lookup"
  <2>1. req[c] \in Requests /\ req[c].phase = "lookup"
    BY DEF TypeOK, Lookup
  <2>2. Resolved(req[c].todo) \in SUBSET Known
    BY DEF Resolved
  <2>3. NewCall \in Calls
    BY CallType
  <2> QED BY <2>1, <2>2, <2>3 DEF Requests
<1>2. req' = [req EXCEPT ![c] = r]
  BY DEF Lookup
<1>3. RequestsOK(req')
  <2> HIDE DEF r
  <2> QED BY <1>1, <1>2, TypeParts, OneRequest
<1> QED BY <1>3 DEF Lookup, TypeOK, RequestsOK

(* A refused read is repeated or ends its request.                         *)
LEMMA ReadRefusedTypes ==
    ASSUME TypeOK, NEW c \in Slots, NEW refusal \in Refusals, ReadRefused(c, refusal)
    PROVE  TypeOK'
<1> DEFINE r == [req[c] EXCEPT !.call = Retried(@, refusal)]
<1>1. CASE MayRetry(req[c].call, refusal)
  <2>1. Retried(req[c].call, refusal) \in Calls
    BY CallType DEF TypeOK, Requests
  <2>2. r \in Requests /\ r.phase = "lookup"
    <3>1. req[c] \in Requests /\ req[c].phase = "lookup"
      BY DEF TypeOK, ReadRefused
    <3> QED BY <2>1, <3>1 DEF Requests
  <2>3. req' = [req EXCEPT ![c] = r] /\ UNCHANGED panel
    BY <1>1 DEF ReadRefused
  <2>4. RequestsOK(req')
    <3> HIDE DEF r
    <3> QED BY <2>2, <2>3, TypeParts, OneRequest
  <2> QED BY <2>3, <2>4 DEF ReadRefused, TypeOK, RequestsOK
<1>2. CASE ~MayRetry(req[c].call, refusal)
  <2>1. RequestsOK(req') /\ panel' \in Panels
    BY <1>2, ReplyType, UnseenType, TypeParts DEF ReadRefused, GiveUp
  <2> QED BY <2>1 DEF ReadRefused, TypeOK, RequestsOK
<1> QED BY <1>1, <1>2

(* What is planned for a file names users that exist.                      *)
LEMMA GroupsReadTypes ==
    ASSUME TypeOK, NEW c \in Slots, req[c].input.file \in Files, GroupsRead(c)
    PROVE  TypeOK'
<1> DEFINE plan == Plan(req[c].input, req[c].found)
<1>1. plan \in Plans /\ req[c].input \in Inputs
  <2>1. req[c].input \in [file : Files, exact : BOOLEAN] /\ req[c].found \in SUBSET Known
    BY DEF TypeOK, Requests, Inputs
  <2> QED BY <2>1, PlanType DEF TypeOK, Inputs
<1>2. [plan |-> plan, of |-> req[c].input] \in Previews
  BY <1>1 DEF Previews
<1>3. CASE Reply(c, [plan |-> plan, of |-> req[c].input]) /\ UNCHANGED disturbed
  <2>1. RequestsOK(req') /\ panel' \in Panels
    BY <1>2, <1>3, ReplyType, TypeParts
  <2> QED BY <1>3, <2>1 DEF GroupsRead, TypeOK, RequestsOK
<1>4. CASE Reply(c, Unseen) /\ UNCHANGED disturbed
  <2>1. RequestsOK(req') /\ panel' \in Panels
    BY <1>4, UnseenType, ReplyType, TypeParts
  <2> QED BY <1>4, <2>1 DEF GroupsRead, TypeOK, RequestsOK
<1> DEFINE left == IF plan.blocked THEN {} ELSE DOMAIN plan.groups
           r == [req[c] EXCEPT !.phase = "write", !.plan = plan, !.seen = group,
                               !.call = NewCall, !.left = left]
<1>5. CASE req' = [req EXCEPT ![c] = r] /\ UNCHANGED <<panel, disturbed>>
  <2>1. left \in SUBSET Groups
    BY <1>1 DEF Plans
  <2>2. /\ r \in Requests /\ r.plan \in Plans
        /\ r.seen \in [Groups -> {None} \cup SUBSET Known]
    <3>1. req[c] \in Requests /\ group \in [Groups -> {None} \cup SUBSET Known]
      BY DEF TypeOK
    <3>2. NewCall \in Calls
      BY CallType
    <3> HIDE DEF plan, left
    <3> QED BY <1>1, <2>1, <3>1, <3>2 DEF Requests
  <2>3. RequestsOK(req')
    <3> HIDE DEF r
    <3> QED BY <1>5, <2>2, TypeParts, OneRequest
  <2> QED BY <1>5, <2>3 DEF GroupsRead, TypeOK, RequestsOK
<1> QED BY <1>3, <1>4, <1>5 DEF GroupsRead

-----------------------------------------------------------------------------
(* The inductive invariant *)

\* The users that a file wants.
AllWanted(file) == UNION {Wanted[file][g] : g \in Groups}

\* The lookups of a request have not been made, or all of them have.
LookupInv(r) ==
    r.phase = "lookup" => \/ r.todo = AllWanted(r.input.file) /\ r.found = {}
                          \/ r.todo = {} /\ r.found = AllWanted(r.input.file) \cap Known

\* What an apply expects was shown to the user.
ExpectedInv(r) ==
    r.phase # "free" /\ r.action = "apply" =>
        <<r.input, r.expected>> \in shown /\ ~r.expected.blocked

\* A request that writes follows the plan that was expected; this is the plan
\* for its inputs and for the groups as they were read.
PlanInv(r) ==
    /\ r.phase # "free" => r.input.file \in Files
    /\ r.phase = "write" =>
          /\ r.action = "apply" /\ r.plan = r.expected
          /\ r.plan.exact = r.input.exact
          /\ \A g \in DOMAIN r.plan.groups :
                r.plan.groups[g] = PlannedGroup(Wanted[r.input.file][g] \cap Known,
                                                r.seen[g], r.plan.exact)
          /\ r.left \subseteq DOMAIN r.plan.groups
          /\ \A g \in DOMAIN r.plan.groups : ~r.plan.groups[g].create => group[g] \in SUBSET Known
    /\ r.phase # "write" => r.operations = {}
    /\ r.removing # {} => /\ r.phase = "write"
                          /\ r.at \in DOMAIN r.plan.groups \ r.left
                          /\ r.removing \subseteq r.plan.groups[r.at].remove

\* The members of a group that are still to be removed.
Pending(r, g) == IF r.at = g THEN r.removing ELSE {}

Ops(r, g) == {op \in r.operations : op.group = g}
Writes(r, g) == {op \in Ops(r, g) : op.kind # "remove-member"}
Removals(r, g) == {op \in Ops(r, g) : op.kind = "remove-member"}

\* The users that operations name.
UsersOf(ops) == UNION {op.users : op \in ops}

\* What was tried in a group: nothing yet, or its write, and its removals as
\* far as they go.
TriedInv(r, g) ==
    LET planned == r.plan.groups[g]
        added == \A op \in Writes(r, g) : op.ok
    IN IF g \in r.left THEN Ops(r, g) = {}
       ELSE /\ planned.create \/ planned.add # {} => \E op \in Operations : Writes(r, g) = {op}
            /\ added => UsersOf(Removals(r, g)) = planned.remove \ Pending(r, g)
            /\ ~added => Pending(r, g) = {}

\* What a group contains that nobody else has changed.
ContentInv(r, g) ==
    LET planned == r.plan.groups[g]
    IN IF g \in r.left THEN group[g] = r.seen[g]
       ELSE /\ r.seen[g] # None => r.seen[g] \subseteq group[g] \/ planned.desired \subseteq group[g]
            /\ Pending(r, g) # {} => planned.desired \subseteq group[g]
            /\ (\A op \in Ops(r, g) : op.ok) =>
                  IF r.plan.exact THEN group[g] = planned.desired \cup Pending(r, g)
                                  ELSE planned.desired \subseteq group[g]

PreviewInv == panel.preview.plan # None => <<panel.preview.of, panel.preview.plan>> \in shown

RequestInv(c) ==
    /\ LookupInv(req[c]) /\ ExpectedInv(req[c]) /\ PlanInv(req[c])
    /\ req[c].phase = "write" =>
          \A g \in DOMAIN req[c].plan.groups :
             /\ TriedInv(req[c], g)
             /\ g \notin disturbed[c] => ContentInv(req[c], g)

Inv == TypeOK /\ PreviewInv /\ \A c \in Slots : RequestInv(c)

(* A request after a write is still one, whichever of the writes it was.   *)
LEMMA AfterWriteType ==
    ASSUME NEW r \in Requests, r.plan \in Plans, NEW g \in DOMAIN r.plan.groups,
           NEW operation \in Operations
    PROVE  LET after == AfterWrite(r, g, operation)
           IN /\ after \in Requests /\ after.phase = r.phase
              /\ after.plan = r.plan /\ after.seen = r.seen
<1>1. r.plan.groups[g].remove \in SUBSET Known /\ g \in Groups
  BY DEF Plans, PlannedGroups
<1> QED BY <1>1 DEF AfterWrite, Requests

(* A group is created with users that exist.                               *)
LEMMA CreateGroupTypes ==
    ASSUME TypeOK, NEW c \in Slots, PlanInv(req[c]), CreateGroup(c)
    PROVE  TypeOK'
<1> DEFINE r == req[c]
           g == First(r.left)
           users == r.plan.groups[g].desired
<1>0. r \in Requests /\ r.plan \in Plans /\ r.phase = "write"
      /\ r.seen \in [Groups -> {None} \cup SUBSET Known]
  BY DEF TypeOK, CreateGroup
<1>1. g \in Groups /\ g \in DOMAIN r.plan.groups /\ users \in SUBSET Known
  <2>1. r.left # {} /\ r.left \subseteq DOMAIN r.plan.groups
    BY <1>0 DEF CreateGroup, PlanInv
  <2> QED BY <1>0, <2>1, NextGroupType DEF PlannedGroups
<1>2. PICK ok \in BOOLEAN :
         /\ Written(c, g, users, group[g] = None, ok)
         /\ req' = [req EXCEPT ![c] = AfterWrite(r, g, Operation("create-group", g, users, ok))]
  BY DEF CreateGroup
<1> DEFINE operation == Operation("create-group", g, users, ok)
<1>3. operation \in Operations
  BY <1>1 DEF Operation, Operations
<1>4. RequestsOK(req')
  <2> DEFINE after == AfterWrite(r, g, operation)
  <2>1. req' = [req EXCEPT ![c] = after]
    BY <1>2
  <2>2. after \in Requests /\ after.plan = r.plan /\ after.seen = r.seen
    <3> HIDE DEF operation, g, r
    <3> QED BY <1>0, <1>1, <1>3, AfterWriteType
  <2> HIDE DEF after, r
  <2> QED BY <1>0, <2>1, <2>2, OneRequest, TypeParts
<1>5. panel' = panel
  BY DEF CreateGroup
<1>6. /\ group' \in [Groups -> {None} \cup SUBSET Known]
      /\ disturbed' \in [Slots -> SUBSET Groups]
  <2>1. Written(c, g, users, group[g] = None, ok)
    BY <1>2
  <2> HIDE DEF g, users
  <2> QED BY <1>1, <2>1, WrittenType
<1> QED BY <1>4, <1>5, <1>6 DEF TypeOK, RequestsOK

(* Users that exist are added to a group that was there.                   *)
LEMMA AddMembersTypes ==
    ASSUME TypeOK, NEW c \in Slots, PlanInv(req[c]), AddMembers(c)
    PROVE  TypeOK'
<1> DEFINE r == req[c]
           g == First(r.left)
           users == r.plan.groups[g].add
<1>0. r \in Requests /\ r.plan \in Plans /\ r.phase = "write"
      /\ r.seen \in [Groups -> {None} \cup SUBSET Known]
  BY DEF TypeOK, AddMembers
<1>1. g \in Groups /\ g \in DOMAIN r.plan.groups /\ users \in SUBSET Known
  <2>1. r.left # {} /\ r.left \subseteq DOMAIN r.plan.groups
    BY <1>0 DEF AddMembers, PlanInv
  <2> QED BY <1>0, <2>1, NextGroupType DEF PlannedGroups
<1>2. PICK ok \in BOOLEAN :
         /\ Written(c, g, group[g] \cup users, TRUE, ok)
         /\ req' = [req EXCEPT ![c] = AfterWrite(r, g, Operation("add-members", g, users, ok))]
  BY DEF AddMembers
<1>3. group[g] \cup users \in SUBSET Known
  BY <1>0, <1>1 DEF AddMembers, PlanInv
<1> DEFINE operation == Operation("add-members", g, users, ok)
<1>4. operation \in Operations
  BY <1>1 DEF Operation, Operations
<1>5. RequestsOK(req')
  <2> DEFINE after == AfterWrite(r, g, operation)
  <2>1. req' = [req EXCEPT ![c] = after]
    BY <1>2
  <2>2. after \in Requests /\ after.plan = r.plan /\ after.seen = r.seen
    <3> HIDE DEF operation, g, r
    <3> QED BY <1>0, <1>1, <1>4, AfterWriteType
  <2> HIDE DEF after, r
  <2> QED BY <1>0, <2>1, <2>2, OneRequest, TypeParts
<1>6. panel' = panel
  BY DEF AddMembers
<1>7. /\ group' \in [Groups -> {None} \cup SUBSET Known]
      /\ disturbed' \in [Slots -> SUBSET Groups]
  BY <1>1, <1>2, <1>3, WrittenType
<1> QED BY <1>5, <1>6, <1>7 DEF TypeOK, RequestsOK

(* A group to which nobody is added keeps the types.                       *)
LEMMA NothingToAddTypes ==
    ASSUME TypeOK, NEW c \in Slots, PlanInv(req[c]), NothingToAdd(c)
    PROVE  TypeOK'
<1> DEFINE r == req[c]
           g == First(r.left)
           remove == r.plan.groups[g].remove
           after == [r EXCEPT !.left = @ \ {g}, !.at = g, !.removing = remove]
<1>0. r \in Requests /\ r.plan \in Plans /\ r.phase = "write"
      /\ r.seen \in [Groups -> {None} \cup SUBSET Known]
  BY DEF TypeOK, NothingToAdd
<1>1. g \in Groups /\ remove \in SUBSET Known
  <2>1. r.left # {} /\ r.left \subseteq DOMAIN r.plan.groups
    BY <1>0 DEF NothingToAdd, PlanInv
  <2> QED BY <1>0, <2>1, NextGroupType DEF PlannedGroups
<1>2. after \in Requests /\ after.plan = r.plan /\ after.seen = r.seen
  <2> HIDE DEF g, r, remove
  <2> QED BY <1>0, <1>1 DEF Requests
<1>3. req' = [req EXCEPT ![c] = after]
  BY DEF NothingToAdd
<1>4. RequestsOK(req')
  <2> HIDE DEF after, r
  <2> QED BY <1>0, <1>2, <1>3, OneRequest, TypeParts
<1> QED BY <1>4 DEF NothingToAdd, TypeOK, RequestsOK

(* The members of a group can be removed only from one that was there.     *)
LEMMA RemovalType ==
    ASSUME TypeOK, NEW c \in Slots, PlanInv(req[c]), NEW user \in req[c].removing
    PROVE  /\ req[c].phase = "write"
           /\ req[c].at \in Groups /\ req[c].at \in DOMAIN req[c].plan.groups \ req[c].left
           /\ user \in req[c].plan.groups[req[c].at].remove
           /\ user \in Known
           /\ ~req[c].plan.groups[req[c].at].create
           /\ group[req[c].at] \in SUBSET Known
<1> DEFINE r == req[c]
           g == r.at
<1>1. r.phase = "write" /\ g \in DOMAIN r.plan.groups \ r.left /\ user \in r.plan.groups[g].remove
  BY DEF PlanInv
<1>2. r.plan \in Plans /\ r.removing \subseteq Known
  BY <1>1 DEF TypeOK, Requests
<1>3. g \in Groups
  BY <1>1, <1>2 DEF Plans
<1>4. ~r.plan.groups[g].create
  <2> DEFINE planned == r.plan.groups[g]
             wanted == Wanted[r.input.file][g] \cap Known
             seen == r.seen[g]
             exact == r.plan.exact
  <2>1. planned = PlannedGroup(wanted, seen, exact)
    BY <1>1 DEF PlanInv
  <2>2. planned.remove # {}
    BY <1>1
  <2> HIDE DEF planned, wanted, seen, exact
  <2>3. (planned.create <=> seen = None) /\ (seen = None => planned.remove = {})
    BY <2>1, PlannedParts
  <2>4. ~planned.create
    BY <2>2, <2>3
  <2> QED BY <2>4 DEF planned
<1>5. group[g] \in SUBSET Known
  <2>1. \A h \in DOMAIN r.plan.groups : ~r.plan.groups[h].create => group[h] \in SUBSET Known
    BY <1>1 DEF PlanInv
  <2> QED BY <1>1, <1>4, <2>1
<1>6. user \in Known
  BY <1>2
<1> QED BY <1>1, <1>3, <1>4, <1>5, <1>6

(* A group without one of its members is typed.                            *)
LEMMA RemoveMemberTypes ==
    ASSUME TypeOK, NEW c \in Slots, PlanInv(req[c]), NEW user \in Users, RemoveMember(c, user)
    PROVE  TypeOK'
<1> DEFINE r == req[c]
           g == r.at
<1>0. user \in r.removing /\ panel' = panel
  BY DEF RemoveMember
<1>1. /\ g \in Groups /\ user \in Known
      /\ r.phase = "write" /\ group[g] \in SUBSET Known
  BY <1>0, RemovalType
<1>2. PICK ok \in BOOLEAN :
         /\ Written(c, g, group[g] \ {user}, TRUE, ok)
         /\ req' = [req EXCEPT ![c].removing = @ \ {user},
                       ![c].operations = @ \cup {Operation("remove-member", g, {user}, ok)}]
  BY DEF RemoveMember
<1> DEFINE operation == Operation("remove-member", g, {user}, ok)
           after == [r EXCEPT !.removing = @ \ {user}, !.operations = @ \cup {operation}]
<1>3. operation \in Operations
  BY <1>1 DEF Operation, Operations
<1>4. r \in Requests /\ r.plan \in Plans /\ r.seen \in [Groups -> {None} \cup SUBSET Known]
  BY <1>1 DEF TypeOK
<1>5. after \in Requests /\ after.plan = r.plan /\ after.seen = r.seen
  <2> HIDE DEF operation, r
  <2> QED BY <1>3, <1>4 DEF Requests
<1>6. req' = [req EXCEPT ![c] = after]
  BY <1>2
<1>7. RequestsOK(req')
  <2> HIDE DEF after, r
  <2> QED BY <1>4, <1>5, <1>6, OneRequest, TypeParts
<1>8. group[g] \ {user} \in SUBSET Known
  BY <1>1
<1>9. /\ group' \in [Groups -> {None} \cup SUBSET Known]
      /\ disturbed' \in [Slots -> SUBSET Groups]
  BY <1>1, <1>2, <1>8, WrittenType
<1> QED BY <1>0, <1>7, <1>9 DEF TypeOK, RequestsOK

(* The end of an apply keeps the types.                                    *)
LEMMA ApplyOverTypes == ASSUME TypeOK, NEW c \in Slots, ApplyOver(c) PROVE TypeOK'
<1>1. RequestsOK(req') /\ panel' \in Panels
  BY ReplyType, UnseenType, TypeParts DEF ApplyOver
<1> QED BY <1>1 DEF ApplyOver, TypeOK, RequestsOK

(* A change by someone else keeps the types.                               *)
LEMMA EditTypes ==
    ASSUME TypeOK, NEW g \in Groups, NEW user \in Known, Edit(g, user) PROVE TypeOK'
<1>1. group' \in [Groups -> {None} \cup SUBSET Known]
  BY DEF TypeOK, Edit
<1>2. disturbed' \in [Slots -> SUBSET Groups]
  BY DisturbedType DEF TypeOK, Edit
<1> QED BY <1>1, <1>2 DEF Edit, TypeOK

(* Every step keeps the types, relative to the invariant of the plans.     *)
LEMMA NextTypes ==
    ASSUME TypeOK, \A c \in Slots : PlanInv(req[c]), [Next]_vars
    PROVE  TypeOK'
<1>1. ASSUME NEW c \in Slots, ServerStep(c) PROVE TypeOK'
  <2>1. PlanInv(req[c])
    OBVIOUS
  <2>2. ASSUME GroupsRead(c) PROVE TypeOK'
    <3>1. req[c].input.file \in Files
      BY <2>1, <2>2 DEF PlanInv, GroupsRead
    <3> QED BY <2>2, <3>1, GroupsReadTypes
  <2> QED BY <1>1, <2>1, <2>2, RemoveMemberTypes, LookupTypes, CreateGroupTypes,
             AddMembersTypes, NothingToAddTypes, ApplyOverTypes DEF ServerStep
<1>2. ASSUME UserStep PROVE TypeOK'
  BY <1>2, PickFileTypes, PickNoFileTypes, FileReadTypes, ToggleExactTypes, SendTypes
     DEF UserStep
<1>3. ASSUME UNCHANGED vars PROVE TypeOK'
  BY <1>3 DEF vars, TypeOK
<1> QED BY <1>1, <1>2, <1>3, ConnectionLostTypes, ReadRefusedTypes, EditTypes DEF Next

-----------------------------------------------------------------------------
(* The invariant is kept by a request that does not go on in a step        *)

\* Nothing of a request has changed but who listens and what it waited for.
SameWork(r, s) ==
    /\ r.phase = s.phase /\ r.action = s.action /\ r.input = s.input /\ r.expected = s.expected
    /\ r.todo = s.todo /\ r.found = s.found /\ r.plan = s.plan /\ r.seen = s.seen
    /\ r.left = s.left /\ r.at = s.at /\ r.removing = s.removing /\ r.operations = s.operations

(* What was tried depends on nothing else of a request.                    *)
LEMMA SameTries ==
    ASSUME NEW r, NEW s, SameWork(r, s), NEW g
    PROVE  TriedInv(r, g) <=> TriedInv(s, g)
<1>1. Ops(r, g) = Ops(s, g)
  BY DEF SameWork, Ops
<1>2. Writes(r, g) = Writes(s, g) /\ Removals(r, g) = Removals(s, g)
  BY <1>1 DEF Writes, Removals
<1>3. Pending(r, g) = Pending(s, g)
  BY DEF SameWork, Pending
<1>4. r.plan = s.plan /\ r.left = s.left
  BY DEF SameWork
<1> QED BY <1>1, <1>2, <1>3, <1>4 DEF TriedInv

(* A request that does not go on keeps its invariant when a group that     *)
(* changes counts as disturbed for it.                                     *)
LEMMA KeptInv ==
    ASSUME TypeOK, NEW d \in Slots, RequestInv(d), SameWork(req[d], req'[d]), shown \subseteq shown',
           req[d].phase = "write" => \A g \in Groups :
              /\ group[g] \in SUBSET Known => group'[g] \in SUBSET Known
              /\ g \in disturbed[d] => g \in disturbed'[d]
              /\ group'[g] = group[g] \/ g \in disturbed'[d]
    PROVE  RequestInv(d)'
<1> DEFINE r == req[d]
<1>1. LookupInv(r)'
  BY DEF RequestInv, LookupInv, SameWork
<1>2. ExpectedInv(r)'
  BY DEF RequestInv, ExpectedInv, SameWork
<1>3. r.phase = "write" => DOMAIN r.plan.groups \subseteq Groups
  BY DEF TypeOK, Plans
<1>4. PlanInv(r)'
  <2>1. PlanInv(r)
    BY DEF RequestInv
  <2> QED BY <1>3, <2>1 DEF PlanInv, SameWork
<1>5. ASSUME req'[d].phase = "write", NEW g \in DOMAIN req'[d].plan.groups
      PROVE  TriedInv(r, g)' /\ (g \notin disturbed'[d] => ContentInv(r, g)')
  <2>1. r.phase = "write" /\ r.plan = req'[d].plan /\ g \in Groups
    BY <1>3, <1>5 DEF SameWork
  <2>2. TriedInv(r, g) /\ (g \notin disturbed[d] => ContentInv(r, g))
    BY <1>5, <2>1 DEF RequestInv
  <2>3. TriedInv(r, g)'
    BY <2>2, SameTries
  <2>4. ASSUME g \notin disturbed'[d] PROVE ContentInv(r, g)'
    <3>1. group'[g] = group[g] /\ ContentInv(r, g)
      BY <2>1, <2>2, <2>4
    <3>2. Ops(r, g)' = Ops(r, g)
      BY DEF SameWork, Ops
    <3>3. Pending(r, g)' = Pending(r, g)
      BY DEF SameWork, Pending
    <3>4. r.left = req'[d].left /\ r.seen = req'[d].seen
      BY DEF SameWork
    <3>5. /\ Ops(req[d], g)' = Ops(req[d], g) /\ Pending(req[d], g)' = Pending(req[d], g)
          /\ req'[d].plan = req[d].plan /\ req'[d].left = req[d].left /\ req'[d].seen = req[d].seen
      BY <2>1, <3>2, <3>3, <3>4
    <3>6. ContentInv(req[d], g)
      BY <3>1
    <3> HIDE DEF r
    <3>7. ContentInv(req[d], g)'
      BY <3>1, <3>5, <3>6 DEF ContentInv
    <3> QED BY <3>7 DEF r
  <2> QED BY <2>3, <2>4
<1> QED BY <1>1, <1>2, <1>4, <1>5 DEF RequestInv

(* A request that is over has nothing left to keep.                        *)
LEMMA FreeInv ==
    ASSUME NEW c \in Slots, req'[c] = FreeRequest
    PROVE  RequestInv(c)'
BY DEF FreeRequest, RequestInv, LookupInv, ExpectedInv, PlanInv

(* A panel shows a plan that is recorded.                                  *)
LEMMA AnsweredInv ==
    ASSUME PreviewInv, panel \in Panels, shown \subseteq shown', NEW preview \in Previews,
           panel' = Answered(preview),
           panel.sent = panel.input /\ preview.plan # None =>
               <<preview.of, preview.plan>> \in shown'
    PROVE  PreviewInv'
BY DEF PreviewInv, Answered, Panels

(* The other requests keep their invariant in a write, made or not.        *)
LEMMA OthersKept ==
    ASSUME TypeOK, NEW c \in Slots, NEW g \in Groups, NEW members \in SUBSET Known,
           Made(c, g, members) \/ UNCHANGED <<group, disturbed>>,
           NEW r, req' = [req EXCEPT ![c] = r], shown' = shown,
           NEW d \in Slots, d # c, RequestInv(d)
    PROVE  RequestInv(d)'
<1>1. SameWork(req[d], req'[d])
  BY DEF SameWork, TypeOK
<1>2. group \in [Groups -> {None} \cup SUBSET Known] /\ disturbed \in [Slots -> SUBSET Groups]
  BY DEF TypeOK
<1>3. CASE Made(c, g, members)
  <2>1. \A h \in Groups : group[h] \in SUBSET Known => group'[h] \in SUBSET Known
    BY <1>2, <1>3 DEF Made
  <2>2. \A h \in Groups : group'[h] = group[h] \/ h = g
    BY <1>2, <1>3 DEF Made
  <2>3. req[d].phase = "write" => disturbed'[d] = disturbed[d] \cup {g}
    BY <1>3 DEF Made, Disturbed
  <2> QED BY <1>1, <2>1, <2>2, <2>3, KeptInv
<1>4. CASE UNCHANGED <<group, disturbed>>
  BY <1>1, <1>4, KeptInv
<1> QED BY <1>3, <1>4

(* Every request but one is kept when nothing happens to the groups.       *)
LEMMA StillKept ==
    ASSUME TypeOK, NEW c \in Slots, NEW r, req' = [req EXCEPT ![c] = r], shown \subseteq shown',
           group' = group, \A d \in Slots \ {c} : disturbed'[d] = disturbed[d],
           NEW d \in Slots, d # c, RequestInv(d)
    PROVE  RequestInv(d)'
<1>1. SameWork(req[d], req'[d])
  BY DEF SameWork, TypeOK
<1> QED BY <1>1, KeptInv

-----------------------------------------------------------------------------
(* Every step keeps the invariant                                          *)

\* What a step keeps beside the types.
KeptByStep == PreviewInv' /\ \A d \in Slots : RequestInv(d)'

(* The invariant holds at first.                                           *)
LEMMA InitInv == Init => Inv
<1> SUFFICES ASSUME Init PROVE Inv
  OBVIOUS
<1>1. PreviewInv
  BY DEF Init, PreviewInv, Unseen
<1>2. \A c \in Slots : RequestInv(c)
  BY DEF Init, FreeRequest, RequestInv, LookupInv, ExpectedInv, PlanInv
<1> QED BY <1>1, <1>2, InitTypes DEF Inv

(* The user changes the inputs: what is shown is cleared or stays.         *)
LEMMA InputsInv ==
    ASSUME Inv, UNCHANGED <<req, group, shown, disturbed>>,
           panel'.preview = panel.preview \/ panel'.preview = Unseen
    PROVE  KeptByStep
<1>1. PreviewInv'
  BY DEF Inv, PreviewInv, Unseen
<1>2. ASSUME NEW d \in Slots PROVE RequestInv(d)'
  <2>1. SameWork(req[d], req'[d])
    BY DEF SameWork
  <2> QED BY <2>1, KeptInv DEF Inv
<1> QED BY <1>1, <1>2 DEF KeptByStep

(* Choosing a file clears what is shown.                                   *)
LEMMA PickFileInv == ASSUME Inv, NEW f \in Files, PickFile(f) PROVE KeptByStep
<1>1. panel'.preview = Unseen
  BY DEF PickFile, ClearResults, Inv, TypeOK, Panels
<1> QED BY <1>1, InputsInv DEF PickFile

(* Choosing no file leaves what is shown.                                  *)
LEMMA PickNoFileInv == ASSUME Inv, PickNoFile PROVE KeptByStep
<1>1. panel'.preview = panel.preview
  BY DEF PickNoFile, Inv, TypeOK, Panels
<1> QED BY <1>1, InputsInv DEF PickNoFile

(* Reading a file leaves what is shown.                                    *)
LEMMA FileReadInv == ASSUME Inv, NEW f \in Files, FileRead(f) PROVE KeptByStep
<1>1. panel'.preview = panel.preview
  BY DEF FileRead, Inv, TypeOK, Panels
<1> QED BY <1>1, InputsInv DEF FileRead

(* Changing the mode clears what is shown.                                 *)
LEMMA ToggleExactInv == ASSUME Inv, ToggleExact PROVE KeptByStep
<1>1. panel'.preview = Unseen
  BY DEF ToggleExact, ClearResults, Inv, TypeOK, Panels
<1> QED BY <1>1, InputsInv DEF ToggleExact

(* A request names the inputs of the panel, and an apply the plan in it.   *)
LEMMA SendInv ==
    ASSUME Inv, NEW action \in {"preview", "apply"}, Send(action) PROVE KeptByStep
<1>1. PICK c \in Slots : c = CHOOSE d \in Slots : req[d].phase = "free"
  BY DEF Send
<1> DEFINE r == [FreeRequest EXCEPT !.phase = "lookup", !.action = action, !.heard = TRUE,
                    !.input = panel.input, !.expected = panel.preview.plan,
                    !.todo = UNION {Wanted[panel.input.file][g] : g \in Groups}]
<1>2. req' = [req EXCEPT ![c] = r] /\ UNCHANGED <<group, shown, disturbed>>
  BY <1>1 DEF Send
<1>3. PreviewInv'
  <2>1. panel'.preview = panel.preview \/ panel'.preview = Unseen
    BY DEF Send, ClearResults, Inv, TypeOK, Panels
  <2> QED BY <1>2, <2>1 DEF Inv, PreviewInv, Unseen
<1>4. ASSUME NEW d \in Slots, d # c PROVE RequestInv(d)'
  <2> HIDE DEF r
  <2> QED BY <1>2, <1>4, StillKept DEF Inv
<1>5. RequestInv(c)'
  <2>1. req'[c] = r
    BY <1>2 DEF Inv, TypeOK
  <2>2. /\ r.phase = "lookup" /\ r.action = action /\ r.input = panel.input
        /\ r.expected = panel.preview.plan /\ r.todo = AllWanted(panel.input.file)
        /\ r.found = {} /\ r.operations = {} /\ r.removing = {}
    BY DEF FreeRequest, AllWanted
  <2>3. panel.input.file \in Files
    BY DEF Send, Inv, TypeOK, Panels, Inputs
  <2>4. action = "apply" => <<panel.input, panel.preview.plan>> \in shown
                            /\ ~panel.preview.plan.blocked
    BY DEF Send, Applicable, Inv, PreviewInv
  <2> HIDE DEF r
  <2>5. LookupInv(req[c])'
    BY <2>1, <2>2 DEF LookupInv
  <2>6. ExpectedInv(req[c])'
    BY <1>2, <2>1, <2>2, <2>4 DEF ExpectedInv
  <2>7. PlanInv(req[c])'
    BY <2>1, <2>2, <2>3 DEF PlanInv
  <2> QED BY <2>1, <2>2, <2>5, <2>6, <2>7 DEF RequestInv
<1> QED BY <1>3, <1>4, <1>5 DEF KeptByStep

(* A lost connection shows nothing, and its request goes on.               *)
LEMMA ConnectionLostInv == ASSUME Inv, ConnectionLost PROVE KeptByStep
<1>1. PreviewInv'
  <2>1. panel' = Answered(Unseen) /\ shown' = shown /\ Unseen.plan = None
    BY DEF ConnectionLost, Unseen
  <2> QED BY <2>1, UnseenType, AnsweredInv DEF Inv, TypeOK
<1>2. ASSUME NEW d \in Slots PROVE RequestInv(d)'
  <2>1. SameWork(req[d], req'[d])
    <3>1. req'[d] = [req[d] EXCEPT !.heard = FALSE] /\ req[d] \in Requests
      BY DEF ConnectionLost, Inv, TypeOK
    <3> QED BY <3>1 DEF SameWork, Requests
  <2>2. UNCHANGED <<group, shown, disturbed>>
    BY DEF ConnectionLost
  <2> QED BY <2>1, <2>2, KeptInv DEF Inv
<1> QED BY <1>1, <1>2 DEF KeptByStep

(* The lookups find every user of the file that exists.                    *)
LEMMA LookupKeeps == ASSUME Inv, NEW c \in Slots, Lookup(c) PROVE KeptByStep
<1> DEFINE r == [req[c] EXCEPT !.todo = {}, !.call = NewCall,
                               !.found = @ \cup Resolved(req[c].todo)]
<1>1. req' = [req EXCEPT ![c] = r] /\ UNCHANGED <<panel, group, shown, disturbed>>
  BY DEF Lookup, counters
<1>2. ASSUME NEW d \in Slots, d # c PROVE RequestInv(d)'
  <2> HIDE DEF r
  <2> QED BY <1>1, <1>2, StillKept DEF Inv
<1>3. RequestInv(c)'
  <2>1. req'[c] = r /\ req[c] \in Requests
    BY <1>1 DEF Inv, TypeOK
  <2>2. /\ r.phase = "lookup" /\ r.action = req[c].action /\ r.input = req[c].input
        /\ r.expected = req[c].expected /\ r.todo = {}
        /\ r.found = req[c].found \cup Resolved(req[c].todo)
        /\ r.operations = req[c].operations /\ r.removing = req[c].removing
    BY <2>1 DEF Lookup, Requests
  <2>3. /\ req[c].todo = AllWanted(req[c].input.file) /\ req[c].found = {}
        /\ req[c].phase = "lookup"
    BY DEF Lookup, Inv, RequestInv, LookupInv
  <2> HIDE DEF r
  <2>4. LookupInv(req[c])'
    BY <2>1, <2>2, <2>3 DEF LookupInv, Resolved
  <2>5. ExpectedInv(req[c])'
    BY <1>1, <2>1, <2>2, <2>3 DEF ExpectedInv, Inv, RequestInv
  <2>6. PlanInv(req[c])'
    BY <1>1, <2>1, <2>2, <2>3 DEF PlanInv, Inv, RequestInv
  <2> QED BY <2>1, <2>2, <2>4, <2>5, <2>6 DEF RequestInv
<1>4. PreviewInv'
  BY <1>1 DEF Inv, PreviewInv
<1> QED BY <1>2, <1>3, <1>4 DEF KeptByStep

(* A reply ends its request, and shows no plan that is not recorded.       *)
LEMMA ReplyKeeps ==
    ASSUME Inv, NEW c \in Slots, NEW preview \in Previews, Reply(c, preview),
           shown \subseteq shown', group' = group,
           \A d \in Slots \ {c} : disturbed'[d] = disturbed[d],
           req[c].heard /\ panel.sent = panel.input /\ preview.plan # None =>
               <<preview.of, preview.plan>> \in shown'
    PROVE  KeptByStep
<1>1. req' = [req EXCEPT ![c] = FreeRequest]
  BY DEF Reply
<1>2. ASSUME NEW d \in Slots, d # c PROVE RequestInv(d)'
  BY <1>1, <1>2, StillKept DEF Inv
<1>3. RequestInv(c)'
  BY <1>1, FreeInv DEF Inv, TypeOK
<1>4. PreviewInv'
  <2>1. CASE req[c].heard
    BY <2>1, AnsweredInv DEF Inv, TypeOK, Reply
  <2>2. CASE ~req[c].heard
    BY <2>2 DEF Inv, PreviewInv, Reply
  <2> QED BY <2>1, <2>2
<1> QED BY <1>2, <1>3, <1>4 DEF KeptByStep

(* A refused read leaves its request as it was, or ends it.                *)
LEMMA ReadRefusedInv ==
    ASSUME Inv, NEW c \in Slots, NEW refusal \in Refusals, ReadRefused(c, refusal)
    PROVE  KeptByStep
<1> DEFINE r == [req[c] EXCEPT !.call = Retried(@, refusal)]
<1>1. UNCHANGED <<group, shown, disturbed>>
  BY DEF ReadRefused
<1>2. CASE MayRetry(req[c].call, refusal)
  <2>1. req' = [req EXCEPT ![c] = r] /\ UNCHANGED panel
    BY <1>2 DEF ReadRefused
  <2>2. SameWork(req[c], r)
    BY DEF SameWork, Inv, TypeOK, Requests
  <2>3. ASSUME NEW d \in Slots PROVE SameWork(req[d], req'[d])
    <3> HIDE DEF r
    <3> QED BY <2>1, <2>2 DEF SameWork, Inv, TypeOK
  <2>4. ASSUME NEW d \in Slots PROVE RequestInv(d)'
    BY <1>1, <2>3, KeptInv DEF Inv
  <2> QED BY <1>1, <2>1, <2>4 DEF Inv, PreviewInv, KeptByStep
<1>3. CASE ~MayRetry(req[c].call, refusal)
  <2>1. Reply(c, Unseen)
    BY <1>3 DEF ReadRefused, GiveUp
  <2> QED BY <1>1, <2>1, ReplyKeeps, UnseenType DEF Unseen
<1> QED BY <1>2, <1>3

(* The plan of an apply is the one that was expected, and its groups are   *)
(* planned from the groups as they are read.                               *)
LEMMA GroupsReadInv == ASSUME Inv, NEW c \in Slots, GroupsRead(c) PROVE KeptByStep
<1> DEFINE plan == Plan(req[c].input, req[c].found)
<1>1. /\ req[c] \in Requests /\ req[c].input \in [file : Files, exact : BOOLEAN]
      /\ req[c].found \in SUBSET Known /\ req[c].phase = "lookup"
      /\ req[c].input \in Inputs /\ req[c].todo = {}
  <2>1. req[c].phase = "lookup" /\ req[c].todo = {}
    BY DEF GroupsRead
  <2> QED BY <2>1 DEF Inv, TypeOK, RequestInv, PlanInv, Requests, Inputs
<1>2. plan \in Plans
  BY <1>1, PlanType DEF Inv, TypeOK
<1>3. group' = group
  BY DEF GroupsRead
<1>4. CASE /\ Reply(c, [plan |-> plan, of |-> req[c].input])
           /\ shown' = IF req[c].heard /\ panel.sent = panel.input
                       THEN shown \cup {<<req[c].input, plan>>} ELSE shown
           /\ UNCHANGED disturbed
  <2>1. [plan |-> plan, of |-> req[c].input] \in Previews
    BY <1>1, <1>2 DEF Previews
  <2> HIDE DEF plan
  <2> QED BY <1>3, <1>4, <2>1, ReplyKeeps
<1>5. CASE Reply(c, Unseen) /\ UNCHANGED <<shown, disturbed>>
  BY <1>3, <1>5, ReplyKeeps, UnseenType DEF Unseen
<1> DEFINE left == IF plan.blocked THEN {} ELSE DOMAIN plan.groups
           r == [req[c] EXCEPT !.phase = "write", !.plan = plan, !.seen = group,
                               !.call = NewCall, !.left = left]
<1>6. CASE /\ req[c].action = "apply" /\ plan = req[c].expected
           /\ req' = [req EXCEPT ![c] = r] /\ UNCHANGED <<panel, shown, disturbed>>
  <2>1. ASSUME NEW d \in Slots, d # c PROVE RequestInv(d)'
    <3> HIDE DEF r
    <3> QED BY <1>3, <1>6, <2>1, StillKept DEF Inv
  <2>2. RequestInv(c)'
    <3>1. req'[c] = r
      BY <1>6 DEF Inv, TypeOK
    <3>2. <<req[c].input, req[c].expected>> \in shown /\ ~req[c].expected.blocked
      BY <1>1, <1>6 DEF Inv, RequestInv, ExpectedInv
    <3>3. left = DOMAIN plan.groups
      BY <1>6, <3>2
    <3>4. /\ r.phase = "write" /\ r.action = "apply" /\ r.input = req[c].input
          /\ r.expected = req[c].expected /\ r.plan = plan /\ r.seen = group
          /\ r.left = DOMAIN plan.groups
          /\ r.removing = req[c].removing /\ r.operations = req[c].operations
      <4> HIDE DEF plan, left
      <4> QED BY <1>1, <1>6, <3>3 DEF Requests
    <3>5. r.removing = {} /\ r.operations = {}
      BY <1>1, <3>4 DEF Inv, RequestInv, PlanInv
    <3>6. \A g \in DOMAIN plan.groups :
             /\ plan.groups[g] = PlannedGroup(Wanted[r.input.file][g] \cap Known,
                                              group[g], plan.exact)
             /\ g \in Groups
      <4>1. \A g \in Groups : Wanted[req[c].input.file][g] \subseteq AllWanted(req[c].input.file)
        BY DEF AllWanted
      <4>2. \/ AllWanted(req[c].input.file) = {} /\ req[c].found = {}
            \/ req[c].found = AllWanted(req[c].input.file) \cap Known
        BY <1>1 DEF Inv, RequestInv, LookupInv
      <4>3. \A g \in Groups : Wanted[req[c].input.file][g] \cap req[c].found
                               = Wanted[req[c].input.file][g] \cap Known
        BY <4>1, <4>2
      <4>4. \A g \in DOMAIN plan.groups :
               /\ plan.groups[g] = PlannedGroup(Wanted[req[c].input.file][g] \cap req[c].found,
                                                group[g], req[c].input.exact)
               /\ g \in Groups
        BY DEF Plan, Desired
      <4>5. plan.exact = req[c].input.exact
        BY DEF Plan
      <4>6. r.input = req[c].input
        BY <3>4
      <4>7. ASSUME NEW g \in DOMAIN plan.groups
            PROVE  plan.groups[g] = PlannedGroup(Wanted[req[c].input.file][g] \cap Known,
                                                 group[g], plan.exact)
        <5>1. Wanted[req[c].input.file][g] \cap req[c].found = Wanted[req[c].input.file][g] \cap Known
          BY <4>3, <4>4
        <5> HIDE DEF plan
        <5> QED BY <4>4, <4>5, <5>1
      <4> HIDE DEF plan, r
      <4> QED BY <4>4, <4>6, <4>7
    <3>7. plan.exact = r.input.exact
      <4>1. plan.exact = req[c].input.exact
        BY DEF Plan
      <4> QED BY <3>4, <4>1
    <3>8. \A g \in DOMAIN plan.groups : ~plan.groups[g].create => group[g] \in SUBSET Known
      <4> HIDE DEF plan, r
      <4> TAKE g \in DOMAIN plan.groups
      <4>2. plan.groups[g].create <=> group[g] = None
        <5>1. plan.groups[g] = PlannedGroup(Wanted[r.input.file][g] \cap Known, group[g], plan.exact)
          BY <3>6
        <5> QED BY <5>1, PlannedParts
      <4>3. group[g] \in {None} \cup SUBSET Known
        BY <3>6 DEF Inv, TypeOK
      <4> QED BY <4>2, <4>3
    <3> HIDE DEF plan, r
    <3>9. PlanInv(req[c])'
      BY <1>1, <1>3, <1>6, <3>1, <3>4, <3>5, <3>6, <3>7, <3>8 DEF PlanInv
    <3>10. ExpectedInv(req[c])' /\ LookupInv(req[c])'
      BY <1>6, <3>1, <3>2, <3>4 DEF ExpectedInv, LookupInv
    <3>11. ASSUME NEW g \in DOMAIN plan.groups PROVE TriedInv(req[c], g)' /\ ContentInv(req[c], g)'
      BY <1>3, <3>1, <3>4, <3>5 DEF TriedInv, ContentInv, Ops
    <3> QED BY <3>1, <3>4, <3>9, <3>10, <3>11 DEF RequestInv
  <2> QED BY <1>6, <2>1, <2>2 DEF Inv, PreviewInv, KeptByStep
<1> QED BY <1>4, <1>5, <1>6 DEF GroupsRead, PlansMatch

-----------------------------------------------------------------------------
(* The writes                                                              *)

(* What is known of the group that is next in a plan.                      *)
LEMMA NextGroup ==
    ASSUME Inv, NEW c \in Slots, req[c].phase = "write", req[c].removing = {},
           req[c].left # {}, NEW g, g = First(req[c].left)
    PROVE  /\ req[c] \in Requests /\ req[c].plan \in Plans /\ g \in Groups
           /\ g \in req[c].left /\ g \in DOMAIN req[c].plan.groups
           /\ req[c].plan.groups[g] \in PlannedGroups
           /\ req[c].plan.groups[g] = PlannedGroup(Wanted[req[c].input.file][g] \cap Known,
                                                   req[c].seen[g], req[c].plan.exact)
           /\ ~req[c].plan.groups[g].create => group[g] \in SUBSET Known
           /\ Ops(req[c], g) = {}
           /\ g \notin disturbed[c] => group[g] = req[c].seen[g]
<1>1. req[c].left \subseteq DOMAIN req[c].plan.groups /\ PlanInv(req[c]) /\ RequestInv(c)
  BY DEF Inv, RequestInv, PlanInv
<1>2. /\ g \in Groups /\ g \in req[c].left /\ req[c].plan.groups[g] \in PlannedGroups
      /\ g \in DOMAIN req[c].plan.groups
  BY <1>1, NextGroupType DEF Inv
<1>3. req[c] \in Requests /\ req[c].plan \in Plans
  BY DEF Inv, TypeOK
<1>4. TriedInv(req[c], g) /\ (g \notin disturbed[c] => ContentInv(req[c], g))
  BY <1>1, <1>2 DEF RequestInv
<1>5. Ops(req[c], g) = {} /\ (g \notin disturbed[c] => group[g] = req[c].seen[g])
  BY <1>2, <1>4 DEF TriedInv, ContentInv
<1> QED BY <1>1, <1>2, <1>3, <1>5 DEF PlanInv

(* The parts of the invariant that a write to one group does not touch.    *)
LEMMA AroundWrite ==
    ASSUME Inv, NEW c \in Slots, NEW g \in Groups, NEW members \in SUBSET Known,
           Made(c, g, members) \/ UNCHANGED <<group, disturbed>>,
           NEW r, req' = [req EXCEPT ![c] = r], UNCHANGED <<panel, shown>>,
           RequestInv(c)'
    PROVE  KeptByStep
<1>1. ASSUME NEW d \in Slots, d # c PROVE RequestInv(d)'
  BY <1>1, OthersKept DEF Inv
<1>2. PreviewInv'
  BY DEF Inv, PreviewInv
<1> QED BY <1>1, <1>2 DEF KeptByStep

(* A write that is tried: its request goes on with the next group when the *)
(* rest of the invariant holds in this one.                                *)
LEMMA AfterWriteInv ==
    ASSUME Inv, NEW c \in Slots, req[c].phase = "write", req[c].removing = {},
           req[c].left # {}, NEW g, g = First(req[c].left),
           NEW members \in SUBSET Known, NEW operation \in Operations,
           operation.group = g, operation.kind # "remove-member",
           Made(c, g, members) \/ UNCHANGED <<group, disturbed>>,
           req' = [req EXCEPT ![c] = AfterWrite(req[c], g, operation)],
           UNCHANGED <<panel, shown>>,
           g \notin disturbed[c] => ContentInv(req[c], g)'
    PROVE  KeptByStep
<1> DEFINE r == req[c]
           after == AfterWrite(r, g, operation)
           planned == r.plan.groups[g]
<1>1. /\ r \in Requests /\ r.plan \in Plans /\ g \in Groups /\ g \in r.left
      /\ g \in DOMAIN r.plan.groups /\ Ops(r, g) = {} /\ planned \in PlannedGroups
  BY NextGroup
<1>2. /\ after.phase = "write" /\ after.action = r.action /\ after.input = r.input
      /\ after.expected = r.expected /\ after.plan = r.plan /\ after.seen = r.seen
      /\ after.left = r.left \ {g} /\ after.at = g
      /\ after.operations = r.operations \cup {operation}
      /\ after.removing = IF operation.ok THEN planned.remove ELSE {}
  BY <1>1 DEF AfterWrite, Requests
<1>3. req'[c] = after
  BY DEF Inv, TypeOK
<1>4. group \in [Groups -> {None} \cup SUBSET Known] /\ disturbed \in [Slots -> SUBSET Groups]
  BY DEF Inv, TypeOK
<1>5. /\ disturbed'[c] = disturbed[c]
      /\ \A h \in Groups : h # g => group'[h] = group[h]
      /\ group'[g] = members \/ group'[g] = group[g]
  BY <1>1, <1>4 DEF Made, Disturbed
<1>6. DOMAIN r.plan.groups \subseteq Groups
  BY <1>1 DEF Plans
<1>7. RequestInv(c)
  BY DEF Inv
<1> HIDE DEF after
<1>8. LookupInv(req[c])' /\ ExpectedInv(req[c])'
  BY <1>2, <1>3, <1>7 DEF RequestInv, LookupInv, ExpectedInv
<1>9. PlanInv(req[c])'
  <2>1. /\ req'[c].removing # {} => /\ req'[c].at \in DOMAIN r.plan.groups \ req'[c].left
                                     /\ req'[c].removing \subseteq r.plan.groups[req'[c].at].remove
        /\ req'[c].left \subseteq DOMAIN r.plan.groups
    BY <1>1, <1>2, <1>3, <1>7 DEF RequestInv, PlanInv
  <2>2. \A h \in DOMAIN r.plan.groups : ~r.plan.groups[h].create => group'[h] \in SUBSET Known
    BY <1>5, <1>6, <1>7 DEF RequestInv, PlanInv
  <2>3. /\ r.input.file \in Files /\ r.action = "apply" /\ r.plan = r.expected
        /\ r.plan.exact = r.input.exact
        /\ \A h \in DOMAIN r.plan.groups :
              r.plan.groups[h] = PlannedGroup(Wanted[r.input.file][h] \cap Known,
                                              r.seen[h], r.plan.exact)
    BY <1>2, <1>7 DEF RequestInv, PlanInv
  <2> HIDE DEF r, planned
  <2>4. /\ after.input.file \in Files /\ after.action = "apply" /\ after.plan = after.expected
        /\ after.plan.exact = after.input.exact
        /\ \A h \in DOMAIN after.plan.groups :
              /\ after.plan.groups[h] = PlannedGroup(Wanted[after.input.file][h] \cap Known,
                                                     after.seen[h], after.plan.exact)
              /\ ~after.plan.groups[h].create => group'[h] \in SUBSET Known
    BY <1>2, <2>2, <2>3
  <2>5. /\ after.left \subseteq DOMAIN after.plan.groups
        /\ after.removing # {} => /\ after.at \in DOMAIN after.plan.groups \ after.left
                                  /\ after.removing \subseteq after.plan.groups[after.at].remove
    BY <1>2, <1>3, <2>1
  <2>6. after.phase = "write"
    BY <1>2
  <2> QED BY <1>3, <2>4, <2>5, <2>6 DEF PlanInv
<1>10. Ops(after, g) = {operation}
  BY <1>1, <1>2 DEF Ops
<1>11. TriedInv(req[c], g)'
  <2>1. Writes(after, g) = {operation} /\ Removals(after, g) = {}
    BY <1>10 DEF Writes, Removals
  <2>2. Pending(after, g) = IF operation.ok THEN planned.remove ELSE {}
    BY <1>2 DEF Pending
  <2>3. g \notin after.left
    BY <1>2
  <2>4. UsersOf(Removals(after, g)) = {}
    BY <2>1 DEF UsersOf
  <2>5. (\A op \in Writes(after, g) : op.ok) <=> operation.ok
    BY <2>1
  <2>6. operation.ok => planned.remove \ Pending(after, g) = {}
    BY <2>2
  <2>7. ~operation.ok => Pending(after, g) = {}
    BY <2>2
  <2>8. after.plan.groups[g] = planned
    BY <1>2
  <2> HIDE DEF planned
  <2>9. TriedInv(after, g)
    BY <2>1, <2>3, <2>4, <2>5, <2>6, <2>7, <2>8 DEF TriedInv
  <2> QED BY <1>3, <2>9
<1>12. ASSUME NEW h \in DOMAIN r.plan.groups, h # g
       PROVE  TriedInv(req[c], h)' /\ (h \notin disturbed[c] => ContentInv(req[c], h)')
  <2>1. Ops(after, h) = Ops(r, h)
    BY <1>2, <1>12 DEF Ops
  <2>2. Writes(after, h) = Writes(r, h) /\ Removals(after, h) = Removals(r, h)
    BY <2>1 DEF Writes, Removals
  <2>3. Pending(after, h) = {} /\ Pending(r, h) = {}
    BY <1>2, <1>12 DEF Pending
  <2>4. h \in after.left <=> h \in r.left
    BY <1>2, <1>12
  <2>5. TriedInv(r, h) /\ (h \notin disturbed[c] => ContentInv(r, h)) /\ group'[h] = group[h]
    BY <1>5, <1>6, <1>7, <1>12 DEF RequestInv
  <2> HIDE DEF r
  <2>6. TriedInv(req[c], h)'
    <3>1. after.plan.groups[h] = r.plan.groups[h]
      BY <1>2
    <3>2. TriedInv(after, h)
      BY <2>1, <2>2, <2>3, <2>4, <2>5, <3>1 DEF TriedInv
    <3> QED BY <1>3, <3>2
  <2>7. h \notin disturbed[c] => ContentInv(req[c], h)'
    BY <1>2, <1>3, <2>1, <2>3, <2>4, <2>5 DEF ContentInv
  <2> QED BY <2>6, <2>7
<1>13. RequestInv(c)'
  BY <1>2, <1>3, <1>5, <1>8, <1>9, <1>11, <1>12 DEF RequestInv
<1> QED BY <1>1, <1>13, AroundWrite

(* A group is created with its members, of which none is to be removed.    *)
LEMMA CreateGroupInv == ASSUME Inv, NEW c \in Slots, CreateGroup(c) PROVE KeptByStep
<1>1. PICK g : g = First(req[c].left)
  OBVIOUS
<1> DEFINE planned == req[c].plan.groups[g]
           users == planned.desired
<1>2. /\ req[c].phase = "write" /\ req[c].removing = {} /\ req[c].left # {}
      /\ planned.create /\ UNCHANGED <<panel, shown>>
  BY <1>1 DEF CreateGroup
<1>3. /\ req[c] \in Requests /\ g \in Groups /\ planned \in PlannedGroups
      /\ planned = PlannedGroup(Wanted[req[c].input.file][g] \cap Known,
                                req[c].seen[g], req[c].plan.exact)
      /\ g \notin disturbed[c] => group[g] = req[c].seen[g]
      /\ Ops(req[c], g) = {}
  BY <1>1, <1>2, NextGroup
<1>4. PICK ok \in BOOLEAN :
         /\ Written(c, g, users, group[g] = None, ok)
         /\ req' = [req EXCEPT ![c] = AfterWrite(req[c], g, Operation("create-group", g, users, ok))]
  BY <1>1 DEF CreateGroup
<1> DEFINE operation == Operation("create-group", g, users, ok)
           after == AfterWrite(req[c], g, operation)
<1>5. operation \in Operations /\ operation.group = g /\ operation.kind # "remove-member"
      /\ operation.ok = ok
  BY <1>3 DEF Operation, Operations, PlannedGroups
<1>6. users \in SUBSET Known
  BY <1>3 DEF PlannedGroups
<1>7. Made(c, g, users) \/ (~ok /\ UNCHANGED <<group, disturbed>>)
  BY <1>4 DEF Written
<1>8. req[c].seen[g] = None /\ planned.remove = {}
  <2> HIDE DEF planned
  <2>1. planned.create <=> req[c].seen[g] = None
    BY <1>3, PlannedParts
  <2>2. req[c].seen[g] = None => planned.remove = {}
    BY <1>3, PlannedParts
  <2> QED BY <1>2, <2>1, <2>2
<1>9. ASSUME g \notin disturbed[c] PROVE ContentInv(req[c], g)'
  <2>1. req'[c] = after /\ after.plan = req[c].plan /\ after.seen = req[c].seen
        /\ g \notin after.left /\ after.at = g /\ after.removing = {}
        /\ after.operations = req[c].operations \cup {operation}
    BY <1>3, <1>4, <1>8 DEF AfterWrite, Requests, Inv, TypeOK
  <2>2. operation \in Ops(after, g)
    BY <1>5, <2>1 DEF Ops
  <2>3. Pending(after, g) = {}
    BY <2>1 DEF Pending
  <2>4. operation.ok => group'[g] = users
    BY <1>3, <1>5, <1>7 DEF Made, Inv, TypeOK
  <2> HIDE DEF after, operation
  <2> QED BY <1>8, <2>1, <2>2, <2>3, <2>4 DEF ContentInv
<1> HIDE DEF operation, planned
<1> QED BY <1>1, <1>2, <1>4, <1>5, <1>6, <1>7, <1>9, AfterWriteInv DEF operation

(* The members that are missing come first; those that are left over stay  *)
(* until then.                                                             *)
LEMMA AddMembersInv == ASSUME Inv, NEW c \in Slots, AddMembers(c) PROVE KeptByStep
<1>1. PICK g : g = First(req[c].left)
  OBVIOUS
<1> DEFINE planned == req[c].plan.groups[g]
           users == planned.add
           wanted == Wanted[req[c].input.file][g] \cap Known
           seen == req[c].seen[g]
<1>2. /\ req[c].phase = "write" /\ req[c].removing = {} /\ req[c].left # {}
      /\ ~planned.create /\ UNCHANGED <<panel, shown>>
  BY <1>1 DEF AddMembers
<1>3. /\ req[c] \in Requests /\ g \in Groups /\ planned \in PlannedGroups
      /\ planned = PlannedGroup(wanted, seen, req[c].plan.exact)
      /\ g \notin disturbed[c] => group[g] = seen
      /\ Ops(req[c], g) = {} /\ group[g] \in SUBSET Known
  BY <1>1, <1>2, NextGroup
<1>4. PICK ok \in BOOLEAN :
         /\ Written(c, g, group[g] \cup users, TRUE, ok)
         /\ req' = [req EXCEPT ![c] = AfterWrite(req[c], g, Operation("add-members", g, users, ok))]
  BY <1>1 DEF AddMembers
<1> DEFINE operation == Operation("add-members", g, users, ok)
           after == AfterWrite(req[c], g, operation)
<1>5. operation \in Operations /\ operation.group = g /\ operation.kind # "remove-member"
      /\ operation.ok = ok
  BY <1>3 DEF Operation, Operations, PlannedGroups
<1>6. group[g] \cup users \in SUBSET Known
  BY <1>3 DEF PlannedGroups
<1>7. Made(c, g, group[g] \cup users) \/ (~ok /\ UNCHANGED <<group, disturbed>>)
  BY <1>4 DEF Written
<1>8. ASSUME g \notin disturbed[c] PROVE ContentInv(req[c], g)'
  <2>1. /\ req'[c] = after /\ after.plan = req[c].plan /\ after.seen = req[c].seen
        /\ g \notin after.left /\ after.at = g
        /\ after.removing = IF operation.ok THEN planned.remove ELSE {}
        /\ after.operations = req[c].operations \cup {operation}
    BY <1>3, <1>4 DEF AfterWrite, Requests, Inv, TypeOK
  <2>2. operation \in Ops(after, g)
    BY <1>5, <2>1 DEF Ops
  <2>3. Pending(after, g) = IF operation.ok THEN planned.remove ELSE {}
    BY <2>1 DEF Pending
  <2>4. group[g] = seen /\ group \in [Groups -> {None} \cup SUBSET Known]
    BY <1>3, <1>8 DEF Inv, TypeOK
  <2>5. group'[g] = seen \cup users \/ (~operation.ok /\ group'[g] = seen)
    BY <1>3, <1>5, <1>7, <2>4 DEF Made
  <2> HIDE DEF planned, seen, wanted
  <2>6. /\ seen # None /\ planned.desired = wanted /\ planned.add = wanted \ seen
        /\ req[c].plan.exact => planned.remove = seen \ wanted
        /\ ~req[c].plan.exact => planned.remove = {}
    <3>1. planned.create <=> seen = None
      BY <1>3, PlannedParts
    <3>2. seen # None
      BY <1>2, <3>1
    <3>3. planned.desired = wanted /\ (seen # None => planned.add = wanted \ seen)
      BY <1>3, PlannedParts
    <3>4. /\ req[c].plan.exact => planned.remove = seen \ wanted
          /\ ~req[c].plan.exact => planned.remove = {}
      BY <1>3, <3>2, PlannedParts
    <3> QED BY <3>2, <3>3, <3>4
  <2>7. /\ seen \subseteq group'[g] \/ wanted \subseteq group'[g]
        /\ operation.ok => /\ wanted \subseteq group'[g]
                           /\ req[c].plan.exact => group'[g] = wanted \cup planned.remove
    BY <2>5, <2>6
  <2>8. after.plan.groups[g] = planned
    BY <2>1 DEF planned
  <2> HIDE DEF after, operation
  <2>9. /\ Pending(after, g) # {} => wanted \subseteq group'[g]
        /\ (\A op \in Ops(after, g) : op.ok) =>
              IF after.plan.exact THEN group'[g] = wanted \cup Pending(after, g)
                                  ELSE wanted \subseteq group'[g]
    BY <2>1, <2>2, <2>3, <2>7
  <2>10. after.seen[g] = seen
    BY <2>1 DEF seen
  <2> QED BY <2>1, <2>6, <2>7, <2>8, <2>9, <2>10 DEF ContentInv
<1> HIDE DEF operation, planned
<1> QED BY <1>1, <1>2, <1>4, <1>5, <1>6, <1>7, <1>8, AfterWriteInv DEF operation

(* A group with every member that it should have goes on to its removals.  *)
LEMMA NothingToAddInv == ASSUME Inv, NEW c \in Slots, NothingToAdd(c) PROVE KeptByStep
<1>1. PICK g : g = First(req[c].left)
  OBVIOUS
<1> DEFINE r == req[c]
           planned == r.plan.groups[g]
           wanted == Wanted[r.input.file][g] \cap Known
           seen == r.seen[g]
           after == [r EXCEPT !.left = @ \ {g}, !.at = g, !.removing = planned.remove]
<1>2. /\ r.phase = "write" /\ r.removing = {} /\ r.left # {}
      /\ ~planned.create /\ planned.add = {}
      /\ req' = [req EXCEPT ![c] = after] /\ UNCHANGED <<panel, shown, group, disturbed>>
  BY <1>1 DEF NothingToAdd
<1>3. /\ r \in Requests /\ r.plan \in Plans /\ g \in Groups /\ g \in r.left
      /\ g \in DOMAIN r.plan.groups /\ planned \in PlannedGroups
      /\ planned = PlannedGroup(wanted, seen, r.plan.exact)
      /\ g \notin disturbed[c] => group[g] = seen
      /\ Ops(r, g) = {}
  BY <1>1, <1>2, NextGroup
<1>4. /\ after.phase = "write" /\ after.action = r.action /\ after.input = r.input
      /\ after.expected = r.expected /\ after.plan = r.plan /\ after.seen = r.seen
      /\ after.left = r.left \ {g} /\ after.at = g
      /\ after.operations = r.operations /\ after.removing = planned.remove
  BY <1>2, <1>3 DEF Requests
<1>5. req'[c] = after
  BY <1>2 DEF Inv, TypeOK
<1>6. RequestInv(c)
  BY DEF Inv
<1>7. ASSUME NEW d \in Slots, d # c PROVE RequestInv(d)'
  <2> HIDE DEF after
  <2> QED BY <1>2, <1>7, StillKept DEF Inv
<1> HIDE DEF after
<1>8. LookupInv(req[c])' /\ ExpectedInv(req[c])' /\ PlanInv(req[c])'
  <2>1. LookupInv(req[c])' /\ ExpectedInv(req[c])'
    BY <1>2, <1>4, <1>5, <1>6 DEF RequestInv, LookupInv, ExpectedInv
  <2>2. /\ after.at \in DOMAIN r.plan.groups \ after.left
        /\ after.removing \subseteq r.plan.groups[after.at].remove
        /\ after.left \subseteq DOMAIN r.plan.groups
    BY <1>2, <1>3, <1>4, <1>6 DEF RequestInv, PlanInv
  <2>3. PlanInv(r) /\ group' = group
    BY <1>2, <1>6 DEF RequestInv
  <2> HIDE DEF r
  <2>4. /\ r.input.file \in Files /\ r.action = "apply" /\ r.plan = r.expected
        /\ r.plan.exact = r.input.exact
        /\ \A h \in DOMAIN r.plan.groups :
              /\ r.plan.groups[h] = PlannedGroup(Wanted[r.input.file][h] \cap Known,
                                                 r.seen[h], r.plan.exact)
              /\ ~r.plan.groups[h].create => group'[h] \in SUBSET Known
    BY <1>2, <2>3 DEF PlanInv
  <2> HIDE DEF planned
  <2>5. /\ after.input.file \in Files /\ after.action = "apply" /\ after.plan = after.expected
        /\ after.plan.exact = after.input.exact
        /\ \A h \in DOMAIN after.plan.groups :
              /\ after.plan.groups[h] = PlannedGroup(Wanted[after.input.file][h] \cap Known,
                                                     after.seen[h], after.plan.exact)
              /\ ~after.plan.groups[h].create => group'[h] \in SUBSET Known
    BY <1>4, <2>4
  <2>6. /\ after.phase = "write" /\ after.left \subseteq DOMAIN after.plan.groups
        /\ after.at \in DOMAIN after.plan.groups \ after.left
        /\ after.removing \subseteq after.plan.groups[after.at].remove
    BY <1>4, <2>2
  <2>7. PlanInv(req[c])'
    BY <1>5, <2>5, <2>6 DEF PlanInv
  <2> QED BY <2>1, <2>7
<1>9. Ops(after, g) = {} /\ Writes(after, g) = {} /\ Removals(after, g) = {}
  <2>1. Ops(after, g) = {}
    BY <1>3, <1>4 DEF Ops
  <2> QED BY <2>1 DEF Writes, Removals
<1>10. Pending(after, g) = planned.remove /\ g \notin after.left /\ after.plan.groups[g] = planned
  BY <1>4 DEF Pending
<1>11. TriedInv(req[c], g)'
  <2>1. UsersOf(Removals(after, g)) = {}
    BY <1>9 DEF UsersOf
  <2>2. \A op \in Writes(after, g) : op.ok
    BY <1>9
  <2>3. planned.remove \ Pending(after, g) = {}
    BY <1>10
  <2> HIDE DEF planned
  <2>4. TriedInv(after, g)
    BY <1>2, <1>10, <2>1, <2>2, <2>3 DEF TriedInv
  <2> QED BY <1>5, <2>4
<1>12. ASSUME g \notin disturbed[c] PROVE ContentInv(req[c], g)'
  <2>1. group[g] = seen
    BY <1>3, <1>12
  <2> HIDE DEF planned, seen, wanted
  <2>2. /\ seen # None /\ planned.desired = wanted /\ wanted \subseteq seen
        /\ r.plan.exact => planned.remove = seen \ wanted
        /\ ~r.plan.exact => planned.remove = {}
    <3>1. planned.create <=> seen = None
      BY <1>3, PlannedParts
    <3>2. seen # None
      BY <1>2, <3>1
    <3>3. planned.add = wanted \ seen
      BY <1>3, <3>2, PlannedParts
    <3>4. wanted \subseteq seen
      BY <1>2, <3>3
    <3>5. planned.desired = wanted
      BY <1>3, PlannedParts
    <3>6. /\ r.plan.exact => planned.remove = seen \ wanted
          /\ ~r.plan.exact => planned.remove = {}
      BY <1>3, <3>2, PlannedParts
    <3> QED BY <3>2, <3>4, <3>5, <3>6
  <2>3. r.plan.exact => seen = wanted \cup planned.remove
    BY <2>2
  <2> HIDE DEF r
  <2>4. ContentInv(req[c], g)'
    BY <1>2, <1>4, <1>5, <1>10, <2>1, <2>2, <2>3 DEF ContentInv, r, seen
  <2> QED BY <2>4
<1>13. ASSUME NEW h \in DOMAIN r.plan.groups, h # g
       PROVE  TriedInv(req[c], h)' /\ (h \notin disturbed[c] => ContentInv(req[c], h)')
  <2>1. Ops(after, h) = Ops(r, h)
    BY <1>4 DEF Ops
  <2>2. Writes(after, h) = Writes(r, h) /\ Removals(after, h) = Removals(r, h)
    BY <2>1 DEF Writes, Removals
  <2>3. Pending(after, h) = {} /\ Pending(r, h) = {}
    BY <1>2, <1>4, <1>13 DEF Pending
  <2>4. (h \in after.left <=> h \in r.left) /\ after.plan.groups[h] = r.plan.groups[h]
    BY <1>4, <1>13
  <2>5. TriedInv(r, h) /\ (h \notin disturbed[c] => ContentInv(r, h))
    BY <1>2, <1>6, <1>13 DEF RequestInv
  <2> HIDE DEF r
  <2>6. TriedInv(after, h)
    BY <2>1, <2>2, <2>3, <2>4, <2>5 DEF TriedInv
  <2>7. h \notin disturbed[c] => ContentInv(req[c], h)'
    BY <1>2, <1>4, <1>5, <2>1, <2>3, <2>4, <2>5 DEF ContentInv
  <2> QED BY <1>5, <2>6, <2>7
<1>14. RequestInv(c)'
  BY <1>2, <1>4, <1>5, <1>8, <1>11, <1>12, <1>13 DEF RequestInv
<1>15. PreviewInv'
  BY <1>2 DEF Inv, PreviewInv
<1> QED BY <1>7, <1>14, <1>15 DEF KeptByStep

(* One more operation adds its users to those of the others.               *)
LEMMA OneMoreRemoval ==
    ASSUME NEW ops, NEW op
    PROVE  UsersOf(ops \cup {op}) = UsersOf(ops) \cup op.users
<1>1. ASSUME NEW user
      PROVE  user \in UsersOf(ops \cup {op}) <=> user \in UsersOf(ops) \cup op.users
  <2>1. user \in UsersOf(ops \cup {op}) <=> \E o \in ops \cup {op} : user \in o.users
    BY Zenon DEF UsersOf
  <2>2. user \in UsersOf(ops) <=> \E o \in ops : user \in o.users
    BY Zenon DEF UsersOf
  <2> QED BY <2>1, <2>2
<1> QED BY <1>1

(* A member that is removed is not one that is wanted.                     *)
LEMMA RemoveMemberInv ==
    ASSUME Inv, NEW c \in Slots, NEW user \in Users, RemoveMember(c, user) PROVE KeptByStep
<1> DEFINE r == req[c]
<1>1. PICK g : g = r.at
  OBVIOUS
<1>2. /\ r.phase = "write" /\ user \in r.removing /\ UNCHANGED <<panel, shown>>
  BY DEF RemoveMember
<1>3. PICK ok \in BOOLEAN :
         /\ Written(c, g, group[g] \ {user}, TRUE, ok)
         /\ req' = [req EXCEPT ![c].removing = @ \ {user},
                       ![c].operations = @ \cup {Operation("remove-member", g, {user}, ok)}]
  BY <1>1 DEF RemoveMember
<1> DEFINE operation == Operation("remove-member", g, {user}, ok)
           after == [r EXCEPT !.removing = @ \ {user}, !.operations = @ \cup {operation}]
           planned == r.plan.groups[g]
           wanted == Wanted[r.input.file][g] \cap Known
           seen == r.seen[g]
<1>4. RequestInv(c) /\ PlanInv(r) /\ TypeOK
  BY DEF Inv, RequestInv
<1>5. /\ g \in Groups /\ g \in DOMAIN r.plan.groups \ r.left
      /\ user \in planned.remove /\ user \in Known /\ group[g] \in SUBSET Known
  BY <1>1, <1>2, <1>4, RemovalType
<1>6. /\ r \in Requests /\ r.plan \in Plans /\ planned = PlannedGroup(wanted, seen, r.plan.exact)
  BY <1>2, <1>4, <1>5 DEF TypeOK, PlanInv
<1>7. req' = [req EXCEPT ![c] = after]
  BY <1>3
<1>8. req'[c] = after
  BY <1>4, <1>7 DEF TypeOK
<1>9. /\ after.phase = "write" /\ after.action = r.action /\ after.input = r.input
      /\ after.expected = r.expected /\ after.plan = r.plan /\ after.seen = r.seen
      /\ after.left = r.left /\ after.at = r.at
      /\ after.operations = r.operations \cup {operation}
      /\ after.removing = r.removing \ {user}
  BY <1>2, <1>6 DEF Requests
<1>10. /\ operation.group = g /\ operation.kind = "remove-member"
       /\ operation.users = {user} /\ operation.ok = ok
  BY DEF Operation
<1>11. Made(c, g, group[g] \ {user}) \/ (~ok /\ UNCHANGED <<group, disturbed>>)
  BY <1>3 DEF Written
<1>12. group \in [Groups -> {None} \cup SUBSET Known] /\ disturbed \in [Slots -> SUBSET Groups]
  BY <1>4 DEF TypeOK
<1>13. /\ disturbed'[c] = disturbed[c]
       /\ \A h \in Groups : h # g => group'[h] = group[h]
       /\ group'[g] = group[g] \ {user} \/ (~operation.ok /\ group'[g] = group[g])
  BY <1>5, <1>10, <1>11, <1>12 DEF Made, Disturbed
<1> HIDE DEF operation, after
<1>14. LookupInv(req[c])' /\ ExpectedInv(req[c])'
  BY <1>2, <1>4, <1>8, <1>9 DEF RequestInv, LookupInv, ExpectedInv
<1>15. PlanInv(req[c])'
  <2>1. DOMAIN r.plan.groups \subseteq Groups
    BY <1>6 DEF Plans
  <2>2. \A h \in DOMAIN r.plan.groups :
           /\ r.plan.groups[h] = PlannedGroup(Wanted[r.input.file][h] \cap Known,
                                              r.seen[h], r.plan.exact)
           /\ ~r.plan.groups[h].create => group'[h] \in SUBSET Known
    BY <1>2, <1>4, <1>5, <1>13, <2>1 DEF PlanInv
  <2>3. /\ r.input.file \in Files /\ r.action = "apply" /\ r.plan = r.expected
        /\ r.plan.exact = r.input.exact /\ r.left \subseteq DOMAIN r.plan.groups
        /\ r.at \in DOMAIN r.plan.groups \ r.left
        /\ r.removing \subseteq r.plan.groups[r.at].remove
    BY <1>2, <1>4 DEF PlanInv
  <2> HIDE DEF r, planned
  <2> QED BY <1>8, <1>9, <2>2, <2>3 DEF PlanInv
<1>16. TriedInv(r, g) /\ (g \notin disturbed[c] => ContentInv(r, g))
  BY <1>2, <1>4, <1>5 DEF RequestInv
<1>17. /\ Pending(r, g) = r.removing /\ Pending(after, g) = r.removing \ {user}
       /\ g \notin r.left /\ after.plan.groups[g] = planned /\ user \in r.removing
       /\ r.removing \subseteq planned.remove
  BY <1>1, <1>2, <1>4, <1>5, <1>9 DEF Pending, PlanInv
<1>18. Ops(after, g) = Ops(r, g) \cup {operation}
  BY <1>9, <1>10 DEF Ops
<1>19. TriedInv(req[c], g)'
  <2>1. Writes(after, g) = Writes(r, g)
    BY <1>10, <1>18 DEF Writes
  <2>2. Removals(after, g) = Removals(r, g) \cup {operation}
    BY <1>10, <1>18 DEF Removals
  <2>3. UsersOf(Removals(after, g))
          = UsersOf(Removals(r, g)) \cup {user}
    BY <1>10, <2>2, OneMoreRemoval
  <2> HIDE DEF r, planned
  <2>4. \A op \in Writes(r, g) : op.ok
    BY <1>16, <1>17 DEF TriedInv
  <2>5. UsersOf(Removals(r, g)) = planned.remove \ r.removing
    <3>1. UsersOf(Removals(r, g)) = planned.remove \ Pending(r, g)
      BY <1>16, <1>17, <2>4, Zenon DEF TriedInv, planned
    <3> QED BY <1>17, <3>1
  <2>6. planned.create \/ planned.add # {} => \E op \in Operations : Writes(r, g) = {op}
    BY <1>16, <1>17 DEF TriedInv, planned
  <2>7. UsersOf(Removals(after, g)) = planned.remove \ Pending(after, g)
    BY <1>17, <2>3, <2>5
  <2>8. g \notin after.left
    BY <1>9, <1>17
  <2>9. TriedInv(after, g)
    BY <1>17, <2>1, <2>4, <2>6, <2>7, <2>8 DEF TriedInv
  <2> QED BY <1>8, <2>9
<1>20. ASSUME g \notin disturbed[c] PROVE ContentInv(req[c], g)'
  <2>1. /\ planned.desired = wanted /\ user \notin wanted
    <3> HIDE DEF r, planned
    <3>1. planned.desired = wanted
      BY <1>6, PlannedParts
    <3>2. planned.remove # {}
      BY <1>5
    <3>3. planned.remove = seen \ wanted
      BY <1>6, <3>2, PlannedRemoval
    <3> QED BY <1>5, <3>1, <3>3
  <2> HIDE DEF r, planned, wanted
  <2>2. ContentInv(r, g)
    BY <1>16, <1>20
  <2>3. /\ wanted \subseteq group[g]
        /\ (\A op \in Ops(r, g) : op.ok) /\ r.plan.exact => group[g] = wanted \cup r.removing
    BY <1>17, <2>1, <2>2 DEF ContentInv, planned
  <2>4. wanted \subseteq group'[g]
    BY <1>13, <2>1, <2>3
  <2>5. (\A op \in Ops(after, g) : op.ok) /\ after.plan.exact
           => group'[g] = wanted \cup Pending(after, g)
    <3>1. SUFFICES ASSUME \A op \in Ops(after, g) : op.ok, after.plan.exact
                   PROVE  group'[g] = wanted \cup Pending(after, g)
      OBVIOUS
    <3>2. operation.ok /\ \A op \in Ops(r, g) : op.ok
      BY <1>18, <3>1
    <3>3. group[g] = wanted \cup r.removing
      BY <1>9, <2>3, <3>1, <3>2
    <3> QED BY <1>13, <1>17, <2>1, <3>2, <3>3
  <2>6. g \notin after.left
    BY <1>9, <1>17
  <2> QED BY <1>8, <1>17, <2>1, <2>4, <2>5, <2>6 DEF ContentInv
<1>21. ASSUME NEW h \in DOMAIN r.plan.groups, h # g
       PROVE  TriedInv(req[c], h)' /\ (h \notin disturbed[c] => ContentInv(req[c], h)')
  <2>1. Ops(after, h) = Ops(r, h)
    BY <1>9, <1>10, <1>21 DEF Ops
  <2>2. Writes(after, h) = Writes(r, h) /\ Removals(after, h) = Removals(r, h)
    BY <2>1 DEF Writes, Removals
  <2>3. Pending(after, h) = {} /\ Pending(r, h) = {}
    BY <1>1, <1>9, <1>21 DEF Pending
  <2>4. (h \in after.left <=> h \in r.left) /\ after.plan.groups[h] = r.plan.groups[h]
    BY <1>9
  <2>5. TriedInv(r, h) /\ (h \notin disturbed[c] => ContentInv(r, h))
    BY <1>2, <1>4, <1>21 DEF RequestInv
  <2>6. group'[h] = group[h]
    BY <1>6, <1>13, <1>21 DEF Plans
  <2> HIDE DEF r
  <2>7. TriedInv(after, h)
    BY <2>1, <2>2, <2>3, <2>4, <2>5 DEF TriedInv
  <2>8. h \notin disturbed[c] => ContentInv(req[c], h)'
    BY <1>8, <1>9, <2>1, <2>3, <2>4, <2>5, <2>6 DEF ContentInv
  <2> QED BY <1>8, <2>7, <2>8
<1>22. RequestInv(c)'
  BY <1>8, <1>9, <1>13, <1>14, <1>15, <1>19, <1>20, <1>21 DEF RequestInv
<1>23. group[g] \ {user} \in SUBSET Known
  BY <1>5
<1> HIDE DEF r
<1> QED BY <1>2, <1>5, <1>7, <1>11, <1>22, <1>23, AroundWrite

(* An apply that is over leaves its slot.                                  *)
LEMMA ApplyOverInv == ASSUME Inv, NEW c \in Slots, ApplyOver(c) PROVE KeptByStep
<1>1. /\ Reply(c, Unseen) /\ UNCHANGED <<group, shown>> /\ Unseen.plan = None
      /\ disturbed' = [disturbed EXCEPT ![c] = {}]
  BY DEF ApplyOver, Unseen
<1>2. \A d \in Slots \ {c} : disturbed'[d] = disturbed[d]
  BY <1>1 DEF Inv, TypeOK
<1> QED BY <1>1, <1>2, ReplyKeeps, UnseenType

(* A change by someone else disturbs the requests that write.              *)
LEMMA EditInv == ASSUME Inv, NEW g \in Groups, NEW user \in Known, Edit(g, user) PROVE KeptByStep
<1>1. /\ UNCHANGED <<panel, req, shown>> /\ disturbed' = Disturbed(Slots, g)
      /\ \A h \in Groups : h # g => group'[h] = group[h]
      /\ TypeOK'
  BY EditTypes DEF Edit, Inv, TypeOK
<1>2. ASSUME NEW d \in Slots PROVE RequestInv(d)'
  <2>1. SameWork(req[d], req'[d])
    BY <1>1 DEF SameWork
  <2>2. \A h \in Groups : group[h] \in SUBSET Known => group'[h] \in SUBSET Known
    BY DEF Edit, Inv, TypeOK
  <2>3. req[d].phase = "write" => disturbed'[d] = disturbed[d] \cup {g}
    BY <1>1 DEF Disturbed
  <2> QED BY <1>1, <2>1, <2>2, <2>3, KeptInv DEF Inv
<1> QED BY <1>1, <1>2 DEF Inv, PreviewInv, KeptByStep

(* Every step keeps the invariant.                                         *)
LEMMA NextInv == Inv /\ [Next]_vars => Inv'
<1> SUFFICES ASSUME Inv, [Next]_vars PROVE Inv'
  OBVIOUS
<1>1. TypeOK'
  BY NextTypes DEF Inv, RequestInv
<1>2. ASSUME NEW c \in Slots, ServerStep(c) PROVE KeptByStep
  BY <1>2, RemoveMemberInv, LookupKeeps, GroupsReadInv, CreateGroupInv, AddMembersInv,
     NothingToAddInv, ApplyOverInv DEF ServerStep
<1>3. ASSUME UserStep PROVE KeptByStep
  BY <1>3, PickFileInv, PickNoFileInv, FileReadInv, ToggleExactInv, SendInv DEF UserStep
<1>4. ASSUME UNCHANGED vars PROVE KeptByStep
  BY <1>4, InputsInv DEF vars
<1>5. KeptByStep
  BY <1>2, <1>3, <1>4, ConnectionLostInv, ReadRefusedInv, EditInv DEF Next
<1> QED BY <1>1, <1>5 DEF Inv, KeptByStep

-----------------------------------------------------------------------------
(* Theorems                                                                *)

(* The invariant holds in every state.                                     *)
LEMMA Invariance == Spec => []Inv
BY InitInv, NextInv, PTL DEF Spec

(* Requests, panel and groups have their types: whatever is planned or     *)
(* written names users that the instance has.                              *)
THEOREM SyncTypes == Spec => []TypeOK
<1>1. Inv => TypeOK
  BY DEF Inv
<1> QED BY <1>1, Invariance, PTL

(* Whatever an apply writes, the user was shown for these inputs.          *)
THEOREM ShownBeforeWritten == Spec => []WritesWereShown
<1>1. Inv => WritesWereShown
  BY DEF Inv, RequestInv, PlanInv, ExpectedInv, WritesWereShown
<1> QED BY <1>1, Invariance, PTL

(* No user whom the file wants in a group is removed from it.              *)
THEOREM NoWantedRemoved == Spec => []WantedIsKept
<1>1. ASSUME Inv, NEW c \in Slots, req[c].removing # {}
      PROVE  req[c].removing \cap Wanted[req[c].input.file][req[c].at] \cap Known = {}
  <2> DEFINE r == req[c]
             planned == r.plan.groups[r.at]
             wanted == Wanted[r.input.file][r.at] \cap Known
  <2>1. /\ r.removing \subseteq planned.remove
        /\ planned = PlannedGroup(wanted, r.seen[r.at], r.plan.exact)
    BY <1>1 DEF Inv, RequestInv, PlanInv
  <2> HIDE DEF planned
  <2>2. planned.remove # {}
    BY <1>1, <2>1
  <2>3. planned.remove = r.seen[r.at] \ wanted
    BY <2>1, <2>2, PlannedRemoval
  <2> QED BY <2>1, <2>3
<1>2. Inv => WantedIsKept
  BY <1>1 DEF WantedIsKept
<1> QED BY <1>2, Invariance, PTL

(* A group that nobody else changes loses no member before it has those    *)
(* that it should have.                                                    *)
THEOREM AddedBeforeRemoved == Spec => []NoneLostBeforeAdded
<1>1. Inv => NoneLostBeforeAdded
  BY DEF Inv, RequestInv, ContentInv, NoneLostBeforeAdded
<1> QED BY <1>1, Invariance, PTL

(* An apply that is over has tried what its plan says, and nothing twice.  *)
THEOREM WholePlanTried == Spec => []EveryGroupTried
<1>1. ASSUME Inv, NEW c \in Slots, req[c].phase = "write", req[c].left = {},
             req[c].removing = {}, NEW g \in DOMAIN req[c].plan.groups,
             NEW writes, writes = Writes(req[c], g)
      PROVE  /\ req[c].plan.groups[g].create \/ req[c].plan.groups[g].add # {}
                    => Cardinality(writes) = 1
             /\ (\A op \in writes : op.ok) =>
                   UsersOf(Removals(req[c], g)) = req[c].plan.groups[g].remove
  <2>1. TriedInv(req[c], g) /\ g \notin req[c].left
    BY <1>1 DEF Inv, RequestInv
  <2>2. Pending(req[c], g) = {}
    BY <1>1 DEF Pending
  <2>3. \A op : Cardinality({op}) = 1
    BY FS_Singleton
  <2> QED BY <1>1, <2>1, <2>2, <2>3 DEF TriedInv
<1>2. ASSUME Inv, NEW c \in Slots, req[c].phase = "write", req[c].left = {},
             req[c].removing = {}, NEW g \in DOMAIN req[c].plan.groups
      PROVE  LET planned == req[c].plan.groups[g]
                 Of(kinds) == {op \in req[c].operations : op.group = g /\ op.kind \in kinds}
                 writes == Of({"create-group", "add-members"})
             IN /\ planned.create \/ planned.add # {} => Cardinality(writes) = 1
                /\ (\A op \in writes : op.ok) =>
                      UNION {op.users : op \in Of({"remove-member"})} = planned.remove
  <2> DEFINE Of(kinds) == {op \in req[c].operations : op.group = g /\ op.kind \in kinds}
             writes == Of({"create-group", "add-members"})
             removals == Of({"remove-member"})
  <2>1. req[c].operations \subseteq Operations
    BY <1>2 DEF Inv, TypeOK, Requests
  <2>2. writes = Writes(req[c], g) /\ removals = Removals(req[c], g)
    BY <2>1 DEF Operations, Writes, Removals, Ops
  <2> HIDE DEF writes, removals
  <2>3. /\ req[c].plan.groups[g].create \/ req[c].plan.groups[g].add # {}
              => Cardinality(writes) = 1
        /\ (\A op \in writes : op.ok) =>
              UsersOf(removals) = req[c].plan.groups[g].remove
    BY <1>1, <1>2, <2>2
  <2> QED BY <2>3 DEF writes, removals, UsersOf
<1>3. Inv => EveryGroupTried
  BY <1>2 DEF EveryGroupTried
<1> QED BY <1>3, Invariance, PTL

(* What an apply reports as done is done.                                  *)
THEOREM NoFailureMeansDone == Spec => []ReportedIsDone
<1>1. ASSUME Inv, NEW c \in Slots, req[c].phase = "write", req[c].left = {},
             req[c].removing = {}, \A op \in req[c].operations : op.ok,
             NEW g \in DOMAIN req[c].plan.groups \ disturbed[c]
      PROVE  LET wanted == Wanted[req[c].input.file][g] \cap Known
             IN IF req[c].plan.exact THEN group[g] = wanted ELSE wanted \subseteq group[g]
  <2> DEFINE wanted == Wanted[req[c].input.file][g] \cap Known
  <2>1. ContentInv(req[c], g) /\ g \notin req[c].left
    BY <1>1 DEF Inv, RequestInv
  <2>2. req[c].plan.groups[g] = PlannedGroup(wanted, req[c].seen[g], req[c].plan.exact)
    BY <1>1 DEF Inv, RequestInv, PlanInv
  <2>3. req[c].plan.groups[g].desired = wanted
    BY <2>2, PlannedParts
  <2>4. Pending(req[c], g) = {} /\ \A op \in Ops(req[c], g) : op.ok
    BY <1>1 DEF Pending, Ops
  <2> QED BY <2>1, <2>3, <2>4 DEF ContentInv
<1>2. Inv => ReportedIsDone
  BY <1>1 DEF ReportedIsDone
<1> QED BY <1>2, Invariance, PTL
=============================================================================
