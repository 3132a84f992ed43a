----------------------------- MODULE SpawnLedger -----------------------------
(***************************************************************************)
(* Admission and budget accounting of child agents by the supervisor       *)
(* (crates/simulacra-runtime/src/supervisor).                              *)
(*                                                                         *)
(* The supervisor actor handles one Spawn message at a time: it authorizes *)
(* the request against the capability of the caller, validates the budget  *)
(* against what the caller has left, reserves it, appends SubAgentSpawned  *)
(* to the journal and only then accepts the child, or rolls the            *)
(* reservation back.  Meanwhile every accepted child is a task of its own: *)
(* it takes turns, ends, settles its reservation with its parent's account *)
(* and publishes its result; its owner may then close it.                  *)
(*                                                                         *)
(* Some definitions are preceded by a faulty variant of themselves that no *)
(* action uses; PROJECT.json substitutes it to show that a property can    *)
(* tell the difference.                                                    *)
(*                                                                         *)
(* Abstractions.  A CapabilityToken is the set of the rights it grants,    *)
(* the placements it may spawn among them.  A budget has the dimensions    *)
(* "tokens", "turns" and "sub_agents"; cost is kept like turns (reported   *)
(* by the loop from its copy of the shared budget) and is not repeated.    *)
(* Requests that are refused change nothing and have no action.  A child   *)
(* runs once: both hosts spawn with RestartStrategy::LetCrash; the retries *)
(* of the other strategies are in ChildResults.                            *)
(***************************************************************************)
EXTENDS Integers, FiniteSets

CONSTANTS
    Root,            \* root_agent_id, bound before the actor starts
    Children,        \* ids a Spawn message may carry
    Placements,      \* configured child placements
    Rights,          \* every other right a CapabilityToken can grant
    RootCapability,  \* parent_capability of the supervisor
    RootMax,         \* limits of the root's ResourceBudget, 0 = unlimited
    PlacementGrant,  \* build_child_placement_capability of each placement
    PlacementMax,    \* configured limits of each placement, 0 = none
    BudgetRequests,  \* budgets a Spawn message or a before-hook may ask for
    TurnTokens,      \* tokens one provider response may cost
    NoAgent,         \* parent of an id that was never reserved
    MaxOwnTurns      \* bound: turns one agent takes in a behaviour

Agents == {Root} \cup Children
Tokens == SUBSET (Rights \cup Placements)
Metered == {"tokens", "turns"}
Dims == Metered \cup {"sub_agents"}
Budgets == [Dims -> Nat]
Usages == [Metered -> Nat]

ASSUME IdsAssumption == Root \notin Children /\ NoAgent \notin Agents
ASSUME CapsAssumption ==
    /\ RootCapability \in Tokens
    /\ PlacementGrant \in [Placements -> Tokens]
ASSUME BudgetsAssumption ==
    /\ RootMax \in Budgets
    /\ PlacementMax \in [Placements -> Budgets]
    /\ BudgetRequests \subseteq Budgets
ASSUME TurnAssumption == TurnTokens \subseteq Nat /\ MaxOwnTurns \in Nat

VARIABLES
    reserving,    \* the child whose Spawn is between reservation and journal
    parent,       \* parent_id of the id, NoAgent before its reservation
    capability,   \* capability of the agent (ChildMetadata.capability)
    max,          \* limits of the agent's ResourceBudget
    used,         \* usage in the agent's shared ResourceBudget
    reserved,     \* AgentBudgetAccount.reserved_* of the agent
    reservations, \* keys of budget_reservations
    accounts,     \* agents with a reachable AgentBudgetAccount
    accepted,     \* accepted_child_ids
    cached,       \* keys of child_results
    task,         \* lifecycle of the child's task
    calling,      \* agents with a provider call in flight
    view,         \* used_turns in the loop's own copy of its budget
    own,          \* what the agent's own turns have cost
    counted,      \* tokens in the token_usage its loop would report
    charged       \* what settling the child added to its parent's usage

identity == <<parent, capability, max>>
ledger == <<used, reserved, reservations, accounts>>
loop == <<calling, view, own, counted>>
vars == <<reserving, identity, ledger, accepted, cached, task, loop, charged>>

NoUsage == [m \in Metered |-> 0]
NoBudget == [d \in Dims |-> 0]

Init ==
    /\ reserving = {}
    /\ parent = [c \in Children |-> NoAgent]
    /\ capability = [a \in Agents |-> IF a = Root THEN RootCapability ELSE {}]
    /\ max = [a \in Agents |-> IF a = Root THEN RootMax ELSE NoBudget]
    /\ used = [a \in Agents |-> NoBudget]
    /\ reserved = [a \in Agents |-> NoUsage]
    /\ reservations = {}
    /\ accounts = {Root}
    /\ accepted = {}
    /\ cached = {}
    /\ task = [c \in Children |-> "none"]
    /\ calling = {}
    /\ view = [a \in Agents |-> 0]
    /\ own = [a \in Agents |-> NoUsage]
    /\ counted = [a \in Agents |-> 0]
    /\ charged = [c \in Children |-> NoUsage]

-----------------------------------------------------------------------------
(* Budget arithmetic; a limit of 0 is unlimited.                           *)

SaturatingSub(x, y) == IF x >= y THEN x - y ELSE 0

check_budget(limit, usage) == limit = 0 \/ usage < limit


validate_supervisor_limit(requested, maximum, remaining) ==
    maximum = 0 \/ (requested # 0 /\ requested <= remaining)

Attenuates(requested, maximum) ==
    maximum = 0 \/ (requested # 0 /\ requested <= maximum)

Remaining(a, d) ==
    IF d = "sub_agents"
    THEN SaturatingSub(max[a][d], used[a][d])
    ELSE SaturatingSub(max[a][d], used[a][d] + reserved[a][d])

ValidateMeteredOnly(request, a) ==
    \A d \in Metered : validate_supervisor_limit(request[d], max[a][d], Remaining(a, d))

validate_budget_against_account(request, a) ==
    \A d \in Dims : validate_supervisor_limit(request[d], max[a][d], Remaining(a, d))

validate_placement_budget(request, p) ==
    \A d \in Dims : Attenuates(request[d], PlacementMax[p][d])

hook_budget_is_attenuation(hooked, request) ==
    \A d \in Dims : Attenuates(hooked[d], request[d])

AddUsage(budget, usage) ==
    [d \in Dims |-> IF d \in Metered THEN budget[d] + usage[d] ELSE budget[d]]

WithSubAgents(budget, n) == [d \in Dims |-> IF d = "sub_agents" THEN n ELSE budget[d]]

-----------------------------------------------------------------------------
(* Admission.                                                              *)

\* capability_for_caller finds the root or a child whose result is cached.
KnownCaller(a) == a = Root \/ a \in cached

RootCapabilityForAll(a) == RootCapability

capability_for_caller(a) == capability[a]


ensure_child_id_is_new(c) == c \notin accepted

validate_spawn_authorization(a, p, token) ==
    /\ KnownCaller(a)
    /\ p \in capability_for_caller(a)
    /\ token \subseteq capability_for_caller(a)

\* The first authorization sees the caller's optional override, if there is
\* one; the second sees the token the factory and its before-hook prepared.
effective_spawn_capability(a, p, override) ==
    PlacementGrant[p] \cap override \cap capability_for_caller(a)

validate_spawn_budget(a, request) ==
    /\ a \in accounts
    /\ validate_budget_against_account(request, a)
    /\ \A d \in Dims : check_budget(request[d], 0)

Reserve(request, a) == [m \in Metered |-> reserved[a][m] + request[m]]

\* Spawn, up to reserve_spawn_budget.  `override` is the capability argument of
\* the call (the caller's own capability when the call has none); `hooked` and
\* `token` are the budget and capability the before-hook leaves.
ReserveSpawn(a, c, p, override, request, hooked, token) ==
    /\ reserving = {}
    /\ ensure_child_id_is_new(c)
    /\ validate_spawn_authorization(a, p, override)
    /\ validate_placement_budget(request, p)
    /\ validate_spawn_budget(a, request)
    /\ hook_budget_is_attenuation(hooked, request)
    /\ token \subseteq effective_spawn_capability(a, p, override)
    /\ validate_placement_budget(hooked, p)
    /\ validate_spawn_authorization(a, p, token)
    /\ validate_spawn_budget(a, hooked)
    /\ reserving' = {c}
    /\ parent' = [parent EXCEPT ![c] = a]
    /\ capability' = [capability EXCEPT ![c] = token]
    /\ max' = [max EXCEPT ![c] = hooked]
    /\ reserved' = [reserved EXCEPT ![a] = Reserve(hooked, a), ![c] = NoUsage]
    /\ used' = [used EXCEPT ![a] = WithSubAgents(@, @["sub_agents"] + 1), ![c] = NoBudget]
    /\ accounts' = accounts \cup {c}
    /\ reservations' = reservations \cup {c}
    /\ UNCHANGED <<accepted, cached, task, loop, charged>>

\* prepare_spawn appended SubAgentSpawned: the id is accepted for good, the
\* result entry is cached and the child's task starts.
AcceptSpawn(c) ==
    /\ c \in reserving
    /\ reserving' = {}
    /\ accepted' = accepted \cup {c}
    /\ cached' = cached \cup {c}
    /\ task' = [task EXCEPT ![c] = "running"]
    /\ UNCHANGED <<identity, ledger, loop, charged>>


ReleaseNothing(c, a) == reserved[a]

Release(c, a) ==
    [m \in Metered |-> SaturatingSub(reserved[a][m], max[c][m])]

\* prepare_spawn failed: rollback_unaccepted_budget.
RollbackSpawn(c) ==
    /\ c \in reserving
    /\ LET a == parent[c] IN
       /\ reserved' = [reserved EXCEPT ![a] = Release(c, a)]
       /\ used' = [used EXCEPT ![a] = WithSubAgents(@, SaturatingSub(@["sub_agents"], 1))]
    /\ reserving' = {}
    /\ reservations' = reservations \ {c}
    /\ accounts' = accounts \ {c}
    /\ parent' = [parent EXCEPT ![c] = NoAgent]
    /\ capability' = [capability EXCEPT ![c] = {}]
    /\ max' = [max EXCEPT ![c] = NoBudget]
    /\ UNCHANGED <<accepted, cached, task, loop, charged>>

-----------------------------------------------------------------------------
(* The agents' own turns.                                                  *)

Looping(a) == a = Root \/ (a \in Children /\ task[a] = "running")

\* execute_turn refreshes the loop's budget from the shared one and checks
\* every dimension but sub_agents before it calls the provider.
BeginTurn(a) ==
    /\ Looping(a) /\ a \notin calling
    /\ own[a]["turns"] < MaxOwnTurns
    /\ \A m \in Metered : check_budget(max[a][m], used[a][m])
    /\ view' = [view EXCEPT ![a] = used[a]["turns"]]
    /\ calling' = calling \cup {a}
    /\ UNCHANGED <<reserving, identity, ledger, accepted, cached, task, own, counted, charged>>

OverwriteShared(a, cost) == [AddUsage(used[a], cost) EXCEPT !["turns"] = view[a] + cost["turns"]]

MergedBudget(a, cost) == AddUsage(used[a], cost)

KeepOldCopy(a, cost) == view[a]

CopyBack(a, cost) == MergedBudget(a, cost)["turns"]

\* The response arrived: merge_budget_into_mirror adds the turn's cost to the
\* shared budget and copies the sum back into the loop.
MergeTurn(a, cost) ==
    /\ used' = [used EXCEPT ![a] = MergedBudget(a, cost)]
    /\ view' = [view EXCEPT ![a] = CopyBack(a, cost)]
    /\ own' = [own EXCEPT ![a] = [m \in Metered |-> @[m] + cost[m]]]
    /\ calling' = calling \ {a}
    /\ UNCHANGED <<reserving, identity, reserved, reservations, accounts,
                   accepted, cached, charged>>

EndTurn(a, t) ==
    /\ Looping(a) /\ a \in calling
    /\ MergeTurn(a, [tokens |-> t, turns |-> 1])
    /\ counted' = [counted EXCEPT ![a] = @ + t]
    /\ UNCHANGED task

\* A policy kill of a spawn hook surfaces after the merge: the loop returns an
\* output without the tokens of the turn it was in.
KillTurn(c, t) ==
    /\ Looping(c) /\ c \in calling
    /\ MergeTurn(c, [tokens |-> t, turns |-> 1])
    /\ task' = [task EXCEPT ![c] = "output"]
    /\ UNCHANGED counted

-----------------------------------------------------------------------------
(* The end of a child.                                                     *)

\* The child's future resolves, with an output (any exit reason) or an error
\* (provider failure, denied turn, exhausted budget); a call in flight is lost.
Resolve(c, outcome) ==
    /\ task[c] = "running"
    /\ task' = [task EXCEPT ![c] = outcome]
    /\ calling' = calling \ {c}
    /\ UNCHANGED <<reserving, identity, ledger, accepted, cached, view, own, counted, charged>>

\* What AgentLoopOutput reports: the tokens of the turns its loop completed, and
\* the turns of its copy of the shared budget.
Reported(c) == [tokens |-> counted[c], turns |-> view[c]]

\* settle_budget_reservation: the reservation is released, and the usage of a
\* child that ended with an output is charged to its parent's account.
SettledUsage(c) == IF task[c] = "output" THEN Reported(c) ELSE NoUsage

Settle(c) ==
    /\ task[c] \in {"output", "error"}
    /\ task' = [task EXCEPT ![c] = "settled"]
    /\ reservations' = reservations \ {c}
    /\ IF c \in reservations
       THEN LET a == parent[c] IN
            /\ reserved' = [reserved EXCEPT ![a] = Release(c, a)]
            /\ used' = [used EXCEPT ![a] = AddUsage(@, SettledUsage(c))]
            /\ charged' = [charged EXCEPT ![c] = SettledUsage(c)]
       ELSE UNCHANGED <<reserved, used, charged>>
    /\ UNCHANGED <<reserving, identity, accounts, accepted, cached, loop>>

\* record_child_terminal_result: the result becomes visible to the owner.
Publish(c) ==
    /\ task[c] = "settled"
    /\ task' = [task EXCEPT ![c] = "published"]
    /\ UNCHANGED <<reserving, identity, ledger, accepted, cached, loop, charged>>

\* CloseChild by the owner of a child with a result.
CloseChild(c) ==
    /\ reserving = {}
    /\ c \in cached /\ KnownCaller(parent[c])
    /\ task[c] = "published"
    /\ cached' = cached \ {c}
    /\ accounts' = accounts \ {c}
    /\ reservations' = reservations \ {c}
    /\ UNCHANGED <<reserving, identity, used, reserved, accepted, task, loop, charged>>

-----------------------------------------------------------------------------
Spawn ==
    \E a \in Agents, c \in Children, p \in Placements, request \in BudgetRequests :
    \E override \in SUBSET capability_for_caller(a), hooked \in BudgetRequests :
    \E token \in SUBSET effective_spawn_capability(a, p, override) :
        ReserveSpawn(a, c, p, override, request, hooked, token)

ChildStep(c) ==
    \/ AcceptSpawn(c) \/ RollbackSpawn(c)
    \/ Resolve(c, "output") \/ Resolve(c, "error")
    \/ Settle(c) \/ Publish(c) \/ CloseChild(c)
    \/ \E t \in TurnTokens : KillTurn(c, t)

TurnStep(a) == BeginTurn(a) \/ \E t \in TurnTokens : EndTurn(a, t)

Next ==
    \/ Spawn
    \/ \E c \in Children : ChildStep(c)
    \/ \E a \in Agents : TurnStep(a)

Spec == Init /\ [][Next]_vars

-----------------------------------------------------------------------------
(* Properties.                                                             *)

TypeOK ==
    /\ reserving \subseteq Children
    /\ parent \in [Children -> Agents \cup {NoAgent}]
    /\ capability \in [Agents -> Tokens]
    /\ max \in [Agents -> Budgets]
    /\ used \in [Agents -> Budgets]
    /\ reserved \in [Agents -> Usages]
    /\ reservations \subseteq Children
    /\ accounts \subseteq Agents
    /\ accepted \subseteq Children
    /\ cached \subseteq Children
    /\ task \in [Children -> {"none", "running", "output", "error", "settled", "published"}]
    /\ calling \subseteq Agents
    /\ view \in [Agents -> Nat]
    /\ own \in [Agents -> Usages]
    /\ counted \in [Agents -> Nat]
    /\ charged \in [Children -> Usages]

ChildrenOf(a) == {c \in Children : parent[c] = a}

\* The sum of f over S, as the number of units that f gives the members of S:
\* no order of summation, and nothing to prove by induction.
Units(f, S) == UNION {{c} \X (1 .. f[c]) : c \in S}
Total(f, S) == Cardinality(Units(f, S))

\* Delegation never amplifies: whatever chain of spawns produced it, and
\* whichever of its ancestors have been closed since, an accepted child holds
\* only rights of the root, and of its own parent (S018 rule 25).
CapabilitiesAttenuated ==
    \A c \in accepted :
        capability[c] \subseteq capability[parent[c]] /\ capability[c] \subseteq RootCapability

\* A finite limit of the root binds the whole tree: no descendant has an
\* unlimited or a larger limit in that dimension (S018 rule 28).
LimitsAttenuated ==
    \A c \in accepted : \A d \in Dims : Attenuates(max[c][d], RootMax[d])

\* An account never promises its children more than its own limit, whatever
\* settlements, rollbacks and turns run between two reservations.
ReservedWithinLimit ==
    \A a \in Agents : \A m \in Metered : max[a][m] = 0 \/ reserved[a][m] <= max[a][m]

\* What an account holds reserved is what its unsettled children may still
\* spend: settling, rolling back and closing never leak or release twice.
ReservedMatchesOutstanding ==
    \A a \in Agents : \A m \in Metered :
        reserved[a][m] = Total([c \in Children |-> max[c][m]], ChildrenOf(a) \cap reservations)

\* used_sub_agents counts the accepted children (and the one being admitted),
\* closed or not, and never passes a finite max_sub_agents: concurrent spawns
\* cannot share the last slot (S060: "exactly one acknowledgement").
SubAgentsCounted ==
    \A a \in Agents :
        /\ used[a]["sub_agents"] = Cardinality(ChildrenOf(a))
        /\ max[a]["sub_agents"] = 0 \/ used[a]["sub_agents"] <= max[a]["sub_agents"]

\* Usage is conserved: an agent's shared budget shows its own turns and what
\* settling each of its children charged, once, even when turns and
\* settlements race for the budget (merge_budget_into_mirror adds deltas).
UsageConserved ==
    \A a \in Agents : \A m \in Metered :
        used[a][m] = own[a][m] + Total([c \in Children |-> charged[c][m]], ChildrenOf(a))

\* A child that ends with an output costs its parent at least the turns it took
\* itself and at most the turns its own budget shows, although the loop reports
\* from a copy that may miss children settled since its last turn.
ChargeBracketsUsage ==
    [][\A c \in Children :
          task[c] = "output" /\ task'[c] = "settled" =>
              charged'[c]["turns"] \in own[c]["turns"] .. used[c]["turns"]]_vars

\* An accepted id keeps its parent, capability and limits forever and is never
\* accepted again, not even after its child was closed.
AcceptedIsForever ==
    [][\A c \in accepted :
          /\ c \in accepted'
          /\ parent'[c] = parent[c] /\ capability'[c] = capability[c] /\ max'[c] = max[c]
          /\ c \notin cached => c \notin cached']_vars

\* The inductive invariant.  Ids that are accepted or being admitted have a
\* parent that is the root or was accepted before them ...
Admitted == accepted \cup reserving

Identities ==
    /\ reserving \cap accepted = {} /\ cached \subseteq accepted
    /\ \A c, k \in reserving : c = k
    /\ IsFiniteSet(Admitted)
    /\ \A c \in Children :
        IF c \in Admitted THEN parent[c] \in {Root} \cup accepted ELSE parent[c] = NoAgent
    /\ capability[Root] = RootCapability /\ max[Root] = RootMax

\* ... from whom they got their rights and limits.
Delegations ==
    \A c \in Admitted :
        /\ capability[c] \subseteq capability[parent[c]] /\ capability[c] \subseteq RootCapability
        /\ \A d \in Dims : Attenuates(max[c][d], RootMax[d])

IInv == TypeOK /\ Identities /\ Delegations /\ ReservedWithinLimit /\ SubAgentsCounted

\* A reservation lasts from admission to settlement, a child has no usage before
\* it is accepted and no charge before it is settled ...
Lifecycles ==
    /\ reserving \subseteq reservations /\ reservations \subseteq Admitted
    /\ \A c \in Children :
        /\ c \notin accepted => task[c] = "none" /\ own[c] = NoUsage /\ view[c] = 0
        /\ task[c] \in {"running", "output", "error"} => c \in reservations
        /\ task[c] \in {"settled", "published"} => c \notin reservations
        /\ task[c] \notin {"settled", "published"} => charged[c] = NoUsage

\* ... and the copy a loop reports from lags behind the shared budget, never
\* behind the loop's own turns.
ViewsLag == \A a \in Agents : own[a]["turns"] <= view[a] /\ view[a] <= used[a]["turns"]

\* The inductive invariant of the accounts, on top of IInv.
AccountsInv == Lifecycles /\ ViewsLag /\ ReservedMatchesOutstanding /\ UsageConserved
=============================================================================
