--------------------------- MODULE UserGroupSync ---------------------------
(***************************************************************************)
(* User Group Sync: the panel in which a user loads a CSV file, previews   *)
(* and applies (src/components/UserGroupSyncPanel.tsx), the route that     *)
(* works on a request (src/server/userGroupSyncApi.ts), the planner        *)
(* (src/writeTools/userGroupSync.ts) and the runner that changes the       *)
(* groups one call at a time (src/writeTools/userGroupSyncRunner.ts).      *)
(*                                                                         *)
(* A browser that loses its connection may send another request while the  *)
(* server still works on the first, and other people change the groups     *)
(* meanwhile.  A file stands for the rows of a CSV text, and Wanted for    *)
(* the groups that its managers and the name template give.                *)
(***************************************************************************)
EXTENDS StackApiV3, Sequences, FiniteSets, SequencesExt

CONSTANTS
    Files,
    Wanted,      \* the members that a file wants: [Files -> [groups -> SUBSET Users]],
                 \* by the rows that are left when an email is taken once
    Blocked,     \* the files of which two managers give one group
    Users,
    Known,       \* the users of the instance; the lookup of another is a 404
    Order,       \* the groups in the order of a plan
    FirstGroups, \* the members of each group at first, None for no group
    Slots,       \* the requests that the server may work on at a time
    MaxChoices, MaxEdits, MaxRefusals, MaxFaults, MaxRequests,
    None

Groups == ToSet(Order)

ASSUME SyncAssumption ==
    /\ Wanted \in [Files -> [Groups -> SUBSET Users]]
    /\ Known \subseteq Users /\ Blocked \subseteq Files /\ None \notin Files
    /\ Order \in Seq(Groups)
    /\ FirstGroups \in [Groups -> {None} \cup SUBSET Known]

VARIABLES
    panel,     \* what the browser shows
    req,       \* the requests that the server works on
    group,     \* the members of each group at the instance
    choices, edits, refusals, faults, requests,   \* how often, up to the bounds
    shown,     \* history: the plans that the user was shown, with their inputs
    disturbed  \* history: the groups that someone else changed during a request

vars == <<panel, req, group, choices, edits, refusals, faults, requests, shown, disturbed>>
counters == <<choices, edits, refusals, faults, requests>>

-----------------------------------------------------------------------------
(* The plan *)

Desired(input, found) == [g \in Groups |-> Wanted[input.file][g] \cap found]

(* Mutant: a new group is created for the managers whose members are missing. *)
PlannedGroupEmpty(desired, members, exact) ==
    [create |-> members = None,
     desired |-> IF members = None THEN {} ELSE desired,
     add |-> desired \ (IF members = None THEN {} ELSE members),
     remove |-> IF exact /\ members # None THEN members \ desired ELSE {}]

PlannedGroup(desired, members, exact) ==
    [create |-> members = None,
     desired |-> desired,
     add |-> desired \ (IF members = None THEN {} ELSE members),
     remove |-> IF exact /\ members # None THEN members \ desired ELSE {}]

\* What a plan shows; a group that is left without members is not in it.
Plan(input, found) ==
    LET desired == Desired(input, found)
    IN [exact |-> input.exact,
        blocked |-> input.file \in Blocked,
        skipped |-> UNION {Wanted[input.file][g] : g \in Groups} \ found,
        groups |-> [g \in {h \in Groups : desired[h] # {}} |->
                        PlannedGroup(desired[g], group[g], input.exact)]]

-----------------------------------------------------------------------------
(* The panel *)

Input(file, exact) == [file |-> file, exact |-> exact]

Unseen == [plan |-> None, of |-> None]

ClearResults(p) == [p EXCEPT !.preview = Unseen]

\* A text that is read too late belongs to a file that was replaced.
PickFile(file) ==
    /\ choices < MaxChoices /\ choices' = choices + 1
    /\ panel' = ClearResults([panel EXCEPT !.input.file = None, !.latest = file,
                                           !.reading = @ \cup {file}])
    /\ UNCHANGED <<req, group, edits, refusals, faults, requests, shown, disturbed>>

\* A choice of no file is a choice too: what is being read comes too late.
PickNoFile ==
    /\ choices < MaxChoices /\ choices' = choices + 1
    /\ panel' = [panel EXCEPT !.latest = None]
    /\ UNCHANGED <<req, group, edits, refusals, faults, requests, shown, disturbed>>

FileRead(file) ==
    /\ file \in panel.reading
    /\ panel' = [panel EXCEPT !.reading = @ \ {file},
                              !.input.file = IF file = panel.latest THEN file ELSE @]
    /\ UNCHANGED <<req, group, counters, shown, disturbed>>

ToggleExact ==
    /\ choices < MaxChoices /\ choices' = choices + 1
    /\ panel' = ClearResults([panel EXCEPT !.input.exact = ~@])
    /\ UNCHANGED <<req, group, edits, refusals, faults, requests, shown, disturbed>>

FreeRequest == [phase |-> "free", action |-> "preview", input |-> Input(None, FALSE),
                expected |-> None, heard |-> FALSE, todo |-> {}, found |-> {},
                call |-> NewCall, plan |-> None, seen |-> <<>>,
                left |-> {}, at |-> None, removing |-> {}, operations |-> {}]

Applicable(p) == /\ p.preview.plan # None /\ p.preview.of = p.input
                 /\ ~p.preview.plan.blocked

\* A request names the inputs, and an apply also the plan that is shown.
Send(action) ==
    /\ requests < MaxRequests /\ requests' = requests + 1
    /\ panel.pending = "none" /\ panel.input.file # None
    /\ action = "apply" => Applicable(panel)
    /\ \E c \in Slots : req[c].phase = "free"
    /\ LET c == CHOOSE d \in Slots : req[d].phase = "free"
       IN req' = [req EXCEPT ![c] =
                [FreeRequest EXCEPT !.phase = "lookup", !.action = action, !.heard = TRUE,
                    !.input = panel.input, !.expected = panel.preview.plan,
                    !.todo = UNION {Wanted[panel.input.file][g] : g \in Groups}]]
    /\ panel' = [(IF action = "preview" THEN ClearResults(panel) ELSE panel)
                 EXCEPT !.pending = action, !.sent = panel.input]
    /\ UNCHANGED <<group, choices, edits, refusals, faults, shown, disturbed>>

(* Mutant: a reply that is not shown any more ends without its cleanup. *)
AnsweredIfCurrent(preview) ==
    IF panel.sent = panel.input
    THEN [panel EXCEPT !.pending = "none",
                       !.preview = IF panel.pending = "preview" THEN preview ELSE @]
    ELSE panel

\* A reply for inputs that are not shown any more is dropped.
Answered(preview) ==
    [panel EXCEPT !.pending = "none",
                  !.preview = IF panel.pending = "preview" /\ panel.sent = panel.input
                              THEN preview ELSE @]

ConnectionLost ==
    /\ panel.pending # "none"
    /\ faults < MaxFaults /\ faults' = faults + 1
    /\ panel' = Answered(Unseen)
    /\ req' = [c \in Slots |-> [req[c] EXCEPT !.heard = FALSE]]
    /\ UNCHANGED <<group, choices, edits, refusals, requests, shown, disturbed>>

-----------------------------------------------------------------------------
(* The route *)

Reply(c, preview) ==
    /\ req' = [req EXCEPT ![c] = FreeRequest]
    /\ panel' = IF req[c].heard THEN Answered(preview) ELSE panel

(* Mutant: a user that is not there is planned for all the same. *)
ResolvedAlways(users) == users

\* Only a 404 says that a user is not there.
Resolved(users) == users \cap Known

\* The lookups run side by side and none depends on another: they are over in
\* one step, unless one of them is refused first.
Lookup(c) ==
    LET r == req[c]
    IN /\ r.phase = "lookup" /\ r.todo # {}
       /\ req' = [req EXCEPT ![c].todo = {}, ![c].call = NewCall,
                             ![c].found = @ \cup Resolved(r.todo)]
       /\ UNCHANGED <<panel, group, counters, shown, disturbed>>

(* Mutant: a lookup that fails counts as a user that is not there. *)
GiveUpOpen(c) ==
    IF req[c].todo # {}
    THEN /\ \E user \in req[c].todo :
               req' = [req EXCEPT ![c].todo = @ \ {user}, ![c].call = NewCall]
         /\ UNCHANGED panel
    ELSE Reply(c, Unseen)

GiveUp(c) == Reply(c, Unseen)

\* Reads are repeated, and fail the request when they cannot be.
ReadRefused(c, refusal) ==
    /\ req[c].phase = "lookup"
    /\ refusals < MaxRefusals /\ refusals' = refusals + 1
    /\ IF MayRetry(req[c].call, refusal)
       THEN req' = [req EXCEPT ![c].call = Retried(@, refusal)] /\ UNCHANGED panel
       ELSE GiveUp(c)
    /\ UNCHANGED <<group, choices, edits, faults, requests, shown, disturbed>>

(* Mutant: an apply goes on with the plan that it has made. *)
PlansMatchAnyway(plan, expected) == TRUE

PlansMatch(plan, expected) == plan = expected

\* The groups are read when every lookup is over; an apply makes the plan
\* again and stops unless it is the one that was shown.
GroupsRead(c) ==
    LET r == req[c]
        plan == Plan(r.input, r.found)
        stale == r.action = "apply" /\ ~PlansMatch(plan, r.expected)
    IN /\ r.phase = "lookup" /\ r.todo = {}
       /\ \/ /\ r.action = "preview"
             /\ Reply(c, [plan |-> plan, of |-> r.input])
             /\ shown' = IF r.heard /\ panel.sent = panel.input
                         THEN shown \cup {<<r.input, plan>>} ELSE shown
             /\ UNCHANGED disturbed
          \/ /\ stale
             /\ Reply(c, Unseen)
             /\ UNCHANGED <<shown, disturbed>>
          \/ /\ r.action = "apply" /\ ~stale
             /\ req' = [req EXCEPT ![c].phase = "write", ![c].plan = plan, ![c].seen = group,
                    ![c].call = NewCall,
                    ![c].left = IF plan.blocked THEN {} ELSE DOMAIN plan.groups]
             /\ UNCHANGED <<panel, shown, disturbed>>
       /\ UNCHANGED <<group, counters>>

-----------------------------------------------------------------------------
(* The runner: each write is sent once, and the groups follow the plan's order *)

First(groups) ==
    LET IsFirst(i) == Order[i] \in groups /\ \A j \in 1..(i - 1) : Order[j] \notin groups
    IN Order[CHOOSE i \in DOMAIN Order : IsFirst(i)]

Operation(kind, g, users, ok) == [kind |-> kind, group |-> g, users |-> users, ok |-> ok]

Disturbed(slots, g) ==
    [c \in Slots |-> IF c \in slots /\ req[c].phase = "write" THEN disturbed[c] \cup {g}
                     ELSE disturbed[c]]

\* What a write can come to: it is made, it is made but its reply is lost, or
\* it is not made.
Made(c, g, members) ==
    /\ group' = [group EXCEPT ![g] = members]
    /\ disturbed' = Disturbed(Slots \ {c}, g)

Written(c, g, members, possible, ok) ==
    \/ ok /\ possible /\ Made(c, g, members) /\ UNCHANGED faults
    \/ ~ok /\ possible /\ Made(c, g, members) /\ faults < MaxFaults /\ faults' = faults + 1
    \/ ~ok /\ ~possible /\ UNCHANGED <<group, disturbed, faults>>
    \/ ~ok /\ faults < MaxFaults /\ faults' = faults + 1 /\ UNCHANGED <<group, disturbed>>

(* Mutant: members are removed although others could not be added. *)
AfterWriteAnyway(r, g, operation) ==
    [r EXCEPT !.operations = @ \cup {operation}, !.left = @ \ {g}, !.at = g,
              !.removing = IF r.plan.exact /\ operation.kind # "create-group"
                           THEN r.plan.groups[g].remove ELSE {}]

(* Mutant: the first group that fails ends the run. *)
AfterWriteOrStop(r, g, operation) ==
    [r EXCEPT !.operations = @ \cup {operation}, !.at = g,
              !.left = IF operation.ok THEN @ \ {g} ELSE {},
              !.removing = IF operation.ok THEN r.plan.groups[g].remove ELSE {}]

\* A group whose members could not be added keeps those it has; the others
\* go on.
AfterWrite(r, g, operation) ==
    [r EXCEPT !.operations = @ \cup {operation}, !.left = @ \ {g}, !.at = g,
              !.removing = IF operation.ok THEN r.plan.groups[g].remove ELSE {}]

\* A group is created with its members; one of that name that exists by now
\* is refused.
CreateGroup(c) ==
    LET r == req[c]
        g == First(r.left)
        users == r.plan.groups[g].desired
    IN /\ r.phase = "write" /\ r.removing = {} /\ r.left # {}
       /\ r.plan.groups[g].create
       /\ \E ok \in BOOLEAN :
             /\ Written(c, g, users, group[g] = None, ok)
             /\ req' = [req EXCEPT ![c] =
                           AfterWrite(r, g, Operation("create-group", g, users, ok))]
       /\ UNCHANGED <<panel, choices, edits, refusals, requests, shown>>

AddMembers(c) ==
    LET r == req[c]
        g == First(r.left)
        users == r.plan.groups[g].add
    IN /\ r.phase = "write" /\ r.removing = {} /\ r.left # {}
       /\ ~r.plan.groups[g].create /\ users # {}
       /\ \E ok \in BOOLEAN :
             /\ Written(c, g, group[g] \cup users, TRUE, ok)
             /\ req' = [req EXCEPT ![c] =
                           AfterWrite(r, g, Operation("add-members", g, users, ok))]
       /\ UNCHANGED <<panel, choices, edits, refusals, requests, shown>>

NothingToAdd(c) ==
    LET r == req[c]
        g == First(r.left)
    IN /\ r.phase = "write" /\ r.removing = {} /\ r.left # {}
       /\ ~r.plan.groups[g].create /\ r.plan.groups[g].add = {}
       /\ req' = [req EXCEPT ![c].left = @ \ {g}, ![c].at = g,
                             ![c].removing = r.plan.groups[g].remove]
       /\ UNCHANGED <<panel, group, counters, shown, disturbed>>

\* One call for each member, and a failure does not keep the next from it.
RemoveMember(c, user) ==
    LET r == req[c]
        g == r.at
    IN /\ r.phase = "write" /\ user \in r.removing
       /\ \E ok \in BOOLEAN :
             /\ Written(c, g, group[g] \ {user}, TRUE, ok)
             /\ req' = [req EXCEPT ![c].removing = @ \ {user},
                           ![c].operations = @ \cup {Operation("remove-member", g, {user}, ok)}]
       /\ UNCHANGED <<panel, choices, edits, refusals, requests, shown>>

\* The route answers when every group was tried.
ApplyOver(c) ==
    /\ req[c].phase = "write" /\ req[c].removing = {} /\ req[c].left = {}
    /\ Reply(c, Unseen)
    /\ disturbed' = [disturbed EXCEPT ![c] = {}]
    /\ UNCHANGED <<group, counters, shown>>

-----------------------------------------------------------------------------
\* Someone else adds or removes a member, or creates a group.
Edit(g, user) ==
    /\ edits < MaxEdits /\ edits' = edits + 1
    /\ group' = [group EXCEPT ![g] = IF @ = None THEN {user}
                                     ELSE IF user \in @ THEN @ \ {user} ELSE @ \cup {user}]
    /\ disturbed' = Disturbed(Slots, g)
    /\ UNCHANGED <<panel, req, choices, refusals, faults, requests, shown>>

Init ==
    /\ panel = [input |-> Input(None, FALSE), reading |-> {}, latest |-> None,
                preview |-> Unseen, pending |-> "none", sent |-> Input(None, FALSE)]
    /\ req = [c \in Slots |-> FreeRequest]
    /\ group = FirstGroups
    /\ choices = 0 /\ edits = 0 /\ refusals = 0 /\ faults = 0 /\ requests = 0
    /\ shown = {} /\ disturbed = [c \in Slots |-> {}]

ServerStep(c) ==
    \/ \E u \in Users : RemoveMember(c, u)
    \/ Lookup(c) \/ GroupsRead(c) \/ CreateGroup(c) \/ AddMembers(c) \/ NothingToAdd(c) \/ ApplyOver(c)

UserStep ==
    \/ \E f \in Files : PickFile(f) \/ FileRead(f)
    \/ PickNoFile \/ ToggleExact
    \/ \E action \in {"preview", "apply"} : Send(action)

Next ==
    \/ UserStep \/ ConnectionLost
    \/ \E c \in Slots : ServerStep(c) \/ \E refusal \in Refusals : ReadRefused(c, refusal)
    \/ \E g \in Groups, u \in Known : Edit(g, u)

\* The server works on by itself; users and faults need not.
Spec == Init /\ [][Next]_vars /\ \A c \in Slots : WF_vars(ServerStep(c))

-----------------------------------------------------------------------------
(* Properties *)

Inputs == [file : Files \cup {None}, exact : BOOLEAN]

PlannedGroups == [create : BOOLEAN, desired : (SUBSET Known) \ {{}},
                  add : SUBSET Known, remove : SUBSET Known]

Plans == [exact : BOOLEAN, blocked : BOOLEAN, skipped : SUBSET Users,
          groups : UNION {[planned -> PlannedGroups] : planned \in SUBSET Groups}]

Panels == [input : Inputs, reading : SUBSET Files, latest : Files \cup {None},
           preview : [plan : {None} \cup Plans, of : {None} \cup Inputs],
           pending : {"none", "preview", "apply"}, sent : Inputs]

Operations == [kind : {"create-group", "add-members", "remove-member"},
               group : Groups, users : SUBSET Known, ok : BOOLEAN]

Requests == [phase : {"free", "lookup", "write"}, action : {"preview", "apply"},
             input : Inputs, expected : {None} \cup Plans, heard : BOOLEAN,
             todo : SUBSET Users, found : SUBSET Known, call : Calls,
             plan : {None} \cup Plans, seen : {<<>>} \cup [Groups -> {None} \cup SUBSET Known],
             left : SUBSET Groups, at : {None} \cup Groups, removing : SUBSET Known,
             operations : SUBSET Operations]

\* The types of the variables; a request has a plan while it writes, and only
\* members that exist are written.
TypeOK ==
    /\ panel \in Panels
    /\ req \in [Slots -> Requests]
    /\ group \in [Groups -> {None} \cup SUBSET Known]
    /\ disturbed \in [Slots -> SUBSET Groups]
    /\ \A c \in Slots : req[c].phase = "write" =>
          req[c].plan \in Plans /\ req[c].seen \in [Groups -> {None} \cup SUBSET Known]

\* Whatever an apply writes is in a plan that the user was shown for the very
\* inputs of the request, although inputs, files and groups change meanwhile.
WritesWereShown ==
    \A c \in Slots : req[c].phase = "write" => <<req[c].input, req[c].plan>> \in shown

\* An exact sync does not remove a user whom the file wants in the group,
\* whichever lookups were refused.
WantedIsKept ==
    \A c \in Slots : req[c].removing # {} =>
        req[c].removing \cap Wanted[req[c].input.file][req[c].at] \cap Known = {}

\* As long as nobody else changes a group, it loses no member before it has
\* every member that it should have, whichever calls fail.
NoneLostBeforeAdded ==
    \A c \in Slots : req[c].phase = "write" =>
        \A g \in DOMAIN req[c].plan.groups \ disturbed[c] :
            req[c].seen[g] # None /\ ~(req[c].seen[g] \subseteq group[g])
                => req[c].plan.groups[g].desired \subseteq group[g]

\* An apply that is over has tried every group of its plan, and every removal
\* in the groups whose members it could add.
EveryGroupTried ==
    \A c \in Slots : req[c].phase = "write" /\ req[c].left = {} /\ req[c].removing = {} =>
        \A g \in DOMAIN req[c].plan.groups :
            LET planned == req[c].plan.groups[g]
                Of(kinds) == {op \in req[c].operations : op.group = g /\ op.kind \in kinds}
                writes == Of({"create-group", "add-members"})
            IN /\ planned.create \/ planned.add # {} => Cardinality(writes) = 1
               /\ (\A op \in writes : op.ok) =>
                     UNION {op.users : op \in Of({"remove-member"})} = planned.remove

\* An apply that reports no failure leaves the groups as the file wants them,
\* unless somebody else changed them.
ReportedIsDone ==
    \A c \in Slots :
        /\ req[c].phase = "write" /\ req[c].left = {} /\ req[c].removing = {}
        /\ \A op \in req[c].operations : op.ok
        => \A g \in DOMAIN req[c].plan.groups \ disturbed[c] :
              LET wanted == Wanted[req[c].input.file][g] \cap Known
              IN IF req[c].plan.exact THEN group[g] = wanted ELSE wanted \subseteq group[g]

\* The panel is never left waiting: its buttons come back after each request.
PanelAnswers == panel.pending # "none" ~> panel.pending = "none"
=============================================================================
