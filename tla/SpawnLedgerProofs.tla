-------------------------- MODULE SpawnLedgerProofs --------------------------
(* Proofs about SpawnLedger, for every set of ids, placements, rights and     *)
(* limits.                                                                    *)
EXTENDS SpawnLedger, FiniteSetTheorems, TLAPS

\* SaturatingSub (Rust's saturating_sub) stays in the naturals and never adds.
LEMMA SaturatingSubNat ==
    ASSUME NEW x \in Nat, NEW y \in Nat
    PROVE  SaturatingSub(x, y) \in Nat /\ SaturatingSub(x, y) <= x
    BY DEF SaturatingSub

\* Releasing a reservation leaves a well-typed account that holds no more than
\* before.
LEMMA ReleaseType ==
    ASSUME TypeOK, NEW c \in Children, NEW a \in Agents
    PROVE  /\ Release(c, a) \in Usages
           /\ \A m \in Metered : Release(c, a)[m] <= reserved[a][m]
    <1>1. \A m \in Metered : reserved[a][m] \in Nat /\ max[c][m] \in Nat
        BY DEF TypeOK, Usages, Budgets, Dims, Agents
    <1> QED BY <1>1, SaturatingSubNat DEF Release, Usages

\* The three ways a budget or an account is updated keep its type.
LEMMA AddUsageType ==
    ASSUME NEW b \in Budgets, NEW u \in Usages
    PROVE  AddUsage(b, u) \in Budgets
    BY DEF AddUsage, Budgets, Dims, Usages

\* reserve_spawn_budget's sub-agent counter keeps a usage record typed.
LEMMA WithSubAgentsType ==
    ASSUME NEW b \in Budgets, NEW n \in Nat
    PROVE  WithSubAgents(b, n) \in Budgets
    BY DEF WithSubAgents, Budgets

\* reserve_spawn_budget yields a well-typed reservation.
LEMMA ReserveType ==
    ASSUME TypeOK, NEW b \in Budgets, NEW a \in Agents
    PROVE  Reserve(b, a) \in Usages
    <1>1. reserved[a] \in Usages
        BY DEF TypeOK
    <1> QED BY <1>1 DEF Reserve, Usages, Budgets, Dims

\* What a finished loop reports in AgentLoopOutput is a usage record.
LEMMA ReportedType ==
    ASSUME TypeOK, NEW c \in Children
    PROVE  Reported(c) \in Usages
    BY DEF Reported, TypeOK, Usages, Metered, Agents

\* TypeOK is preserved by every step.
LEMMA TypeInductive == TypeOK /\ [Next]_vars => TypeOK'
    <1> SUFFICES ASSUME TypeOK, [Next]_vars PROVE TypeOK'
        OBVIOUS
    <1> USE IdsAssumption, CapsAssumption, BudgetsAssumption, TurnAssumption DEF Agents
    <1>a. NoUsage \in Usages /\ NoBudget \in Budgets
        BY DEF NoUsage, NoBudget, Usages, Budgets
    <1>1. ASSUME NEW a \in Agents, NEW c \in Children, NEW p \in Placements,
                 NEW request \in BudgetRequests, NEW hooked \in BudgetRequests,
                 NEW override \in SUBSET capability_for_caller(a),
                 NEW token \in SUBSET effective_spawn_capability(a, p, override),
                 ReserveSpawn(a, c, p, override, request, hooked, token)
          PROVE  TypeOK'
        <2>1. token \in Tokens
            BY <1>1 DEF TypeOK, effective_spawn_capability, capability_for_caller, Tokens
        <2>2. hooked \in Budgets
            BY <1>1
        <2>3. Reserve(hooked, a) \in Usages
            BY <2>2, ReserveType
        <2>4. used[a]["sub_agents"] + 1 \in Nat
            BY DEF TypeOK, Budgets, Dims
        <2>5. WithSubAgents(used[a], used[a]["sub_agents"] + 1) \in Budgets
            BY <2>4, WithSubAgentsType DEF TypeOK
        <2> QED BY <1>1, <1>a, <2>1, <2>2, <2>3, <2>5 DEF TypeOK, ReserveSpawn, loop
    <1>2. ASSUME NEW c \in Children, AcceptSpawn(c) PROVE TypeOK'
        BY <1>2 DEF TypeOK, AcceptSpawn, identity, ledger, loop
    <1>3. ASSUME NEW c \in Children, RollbackSpawn(c) PROVE TypeOK'
        <2> DEFINE a == parent[c]
        <2>1. CASE a \in Agents
            <3>1. Release(c, a) \in Usages
                BY <2>1, ReleaseType
            <3>2. SaturatingSub(used[a]["sub_agents"], 1) \in Nat
                <4>1. used[a]["sub_agents"] \in Nat
                    BY <2>1 DEF TypeOK, Budgets, Dims
                <4> QED BY <4>1, SaturatingSubNat
            <3>3. WithSubAgents(used[a], SaturatingSub(used[a]["sub_agents"], 1)) \in Budgets
                BY <2>1, <3>2, WithSubAgentsType DEF TypeOK
            <3> QED BY <1>3, <1>a, <2>1, <3>1, <3>3 DEF TypeOK, RollbackSpawn, loop, Tokens
        <2>2. CASE a \notin Agents
            <3>1. reserved' = reserved /\ used' = used
                BY <1>3, <2>2 DEF TypeOK, RollbackSpawn
            <3>2. capability' \in [Agents -> Tokens] /\ max' \in [Agents -> Budgets]
                BY <1>3, <1>a DEF TypeOK, RollbackSpawn, Tokens
            <3>3. parent' \in [Children -> Agents \cup {NoAgent}]
                BY <1>3 DEF TypeOK, RollbackSpawn
            <3> QED BY <1>3, <3>1, <3>2, <3>3 DEF TypeOK, RollbackSpawn, loop
        <2> QED BY <2>1, <2>2
    <1>4. ASSUME NEW c \in Children, NEW o \in {"output", "error"}, Resolve(c, o) PROVE TypeOK'
        BY <1>4 DEF TypeOK, Resolve, identity, ledger
    <1>5. ASSUME NEW c \in Children, Settle(c) PROVE TypeOK'
        <2> DEFINE a == parent[c]
        <2>1. SettledUsage(c) \in Usages
            BY <1>a, ReportedType DEF SettledUsage
        <2>2. CASE c \in reservations /\ a \in Agents
            <3>1. Release(c, a) \in Usages
                BY <2>2, ReleaseType
            <3>2. AddUsage(used[a], SettledUsage(c)) \in Budgets
                BY <2>1, <2>2, AddUsageType DEF TypeOK
            <3> QED BY <1>5, <2>1, <2>2, <3>1, <3>2 DEF TypeOK, Settle, identity, loop
        <2>3. CASE c \in reservations /\ a \notin Agents
            <3>1. reserved' = reserved /\ used' = used
                <4>1. PICK r, u : /\ reserved' = [reserved EXCEPT ![a] = r]
                                  /\ used' = [used EXCEPT ![a] = u]
                    BY <1>5, <2>3 DEF Settle
                <4> QED BY <4>1, <2>3 DEF TypeOK
            <3> QED BY <1>5, <2>1, <2>3, <3>1 DEF TypeOK, Settle, identity, loop
        <2>4. CASE c \notin reservations
            BY <1>5, <2>4 DEF TypeOK, Settle, identity, loop
        <2> QED BY <2>2, <2>3, <2>4
    <1>6. ASSUME NEW c \in Children, Publish(c) PROVE TypeOK'
        BY <1>6 DEF TypeOK, Publish, identity, ledger, loop
    <1>7. ASSUME NEW c \in Children, CloseChild(c) PROVE TypeOK'
        BY <1>7 DEF TypeOK, CloseChild, identity, loop
    <1>8. ASSUME NEW a \in Agents, BeginTurn(a) PROVE TypeOK'
        <2>1. used[a]["turns"] \in Nat
            BY DEF TypeOK, Budgets, Dims, Metered
        <2> QED BY <1>8, <2>1 DEF TypeOK, BeginTurn, identity, ledger
    <1>9. ASSUME NEW a \in Agents, NEW t \in TurnTokens, MergeTurn(a, [tokens |-> t, turns |-> 1]),
                 task' \in [Children -> {"none", "running", "output", "error", "settled", "published"}],
                 counted' \in [Agents -> Nat]
          PROVE  TypeOK'
        <2> DEFINE cost == [tokens |-> t, turns |-> 1]
        <2>1. cost \in Usages
            <3>1. t \in Nat
                BY <1>9
            <3> QED BY <3>1 DEF Usages, Metered
        <2>0. MergeTurn(a, cost)
            BY <1>9
        <2> HIDE DEF cost
        <2>2. MergedBudget(a, cost) \in Budgets
            BY <2>1, AddUsageType DEF TypeOK, MergedBudget
        <2>3. CopyBack(a, cost) \in Nat
            BY <2>2 DEF CopyBack, Budgets, Dims, Metered
        <2>4. [m \in Metered |-> own[a][m] + cost[m]] \in Usages
            BY <2>1 DEF TypeOK, Usages
        <2>5. /\ used' = [used EXCEPT ![a] = MergedBudget(a, cost)]
              /\ view' = [view EXCEPT ![a] = CopyBack(a, cost)]
              /\ own' = [own EXCEPT ![a] = [m \in Metered |-> own[a][m] + cost[m]]]
            BY <2>0 DEF MergeTurn, TypeOK
        <2> QED BY <1>9, <2>0, <2>2, <2>3, <2>4, <2>5 DEF TypeOK, MergeTurn, identity
    <1>e. ASSUME NEW a \in Agents, NEW t \in TurnTokens, EndTurn(a, t) PROVE TypeOK'
        <2>1. counted' \in [Agents -> Nat]
            <3>1. t \in Nat
                BY <1>e
            <3> QED BY <1>e, <3>1 DEF EndTurn, TypeOK
        <2> QED BY <1>9, <1>e, <2>1 DEF EndTurn, TypeOK
    <1>k. ASSUME NEW c \in Children, NEW t \in TurnTokens, KillTurn(c, t) PROVE TypeOK'
        BY <1>9, <1>k DEF KillTurn, TypeOK
    <1>10. CASE UNCHANGED vars
        BY <1>10 DEF TypeOK, vars, identity, ledger, loop
    <1> QED BY <1>1, <1>2, <1>3, <1>4, <1>5, <1>6, <1>7, <1>8, <1>e, <1>k, <1>10
            DEF Next, Spawn, ChildStep, TurnStep

\* Every reachable state of the ledger is well typed.
THEOREM TypeCorrect == Spec => []TypeOK
    <1>1. Init => TypeOK
        BY IdsAssumption, CapsAssumption, BudgetsAssumption
        DEF Init, TypeOK, Agents, Tokens, Budgets, Usages, NoBudget, NoUsage
    <1> QED BY <1>1, TypeInductive, PTL DEF Spec

-----------------------------------------------------------------------------
\* A step that leaves the identities alone, adds no reservation and counts no
\* sub-agent.
AdmitsNobody ==
    /\ UNCHANGED <<reserving, parent, capability, max, accepted>> /\ cached' \subseteq cached
    /\ \A a \in Agents : \A m \in Metered : reserved'[a][m] <= reserved[a][m]
    /\ \A a \in Agents : used'[a]["sub_agents"] = used[a]["sub_agents"]

\* Turns, settlements, publications and closes are such steps.
LEMMA OtherSteps ==
    ASSUME TypeOK, [Next]_vars, ~Spawn,
           \A c \in Children : ~AcceptSpawn(c) /\ ~RollbackSpawn(c)
    PROVE  AdmitsNobody
    <1> USE DEF AdmitsNobody
    <1>0. \A a \in Agents : \A m \in Metered : reserved[a][m] \in Nat
        BY DEF TypeOK, Usages
    <1>1. ASSUME UNCHANGED <<reserving, parent, capability, max, accepted, used, reserved>>,
                 cached' \subseteq cached
          PROVE  AdmitsNobody
        BY <1>0, <1>1
    <1>2. ASSUME NEW c \in Children, Resolve(c, "output") \/ Resolve(c, "error") PROVE AdmitsNobody
        BY <1>1, <1>2 DEF Resolve, identity, ledger
    <1>3. ASSUME NEW c \in Children, Settle(c) PROVE AdmitsNobody
        <2> DEFINE a == parent[c]
        <2>1. UNCHANGED <<reserving, parent, capability, max, accepted, cached>>
            BY <1>3 DEF Settle, identity
        <2>2. CASE c \in reservations /\ a \in Agents
            <3>1. /\ reserved' = [reserved EXCEPT ![a] = Release(c, a)]
                  /\ used' = [used EXCEPT ![a] = AddUsage(used[a], SettledUsage(c))]
                BY <1>3, <2>2 DEF Settle
            <3>2. \A m \in Metered : Release(c, a)[m] <= reserved[a][m]
                BY <2>2, ReleaseType
            <3>3. AddUsage(used[a], SettledUsage(c))["sub_agents"] = used[a]["sub_agents"]
                BY DEF AddUsage, Dims, Metered
            <3> QED BY <1>0, <2>1, <3>1, <3>2, <3>3 DEF TypeOK
        <2>3. CASE c \in reservations /\ a \notin Agents
            <3>1. reserved' = reserved /\ used' = used
                <4>1. PICK r, u : /\ reserved' = [reserved EXCEPT ![a] = r]
                                  /\ used' = [used EXCEPT ![a] = u]
                    BY <1>3, <2>3 DEF Settle
                <4> QED BY <4>1, <2>3 DEF TypeOK
            <3> QED BY <1>0, <2>1, <3>1
        <2>4. CASE c \notin reservations
            BY <1>0, <1>3, <2>1, <2>4 DEF Settle
        <2> QED BY <2>2, <2>3, <2>4
    <1>4. ASSUME NEW c \in Children, Publish(c) PROVE AdmitsNobody
        BY <1>1, <1>4 DEF Publish, identity, ledger
    <1>5. ASSUME NEW c \in Children, CloseChild(c) PROVE AdmitsNobody
        BY <1>1, <1>5 DEF CloseChild, identity
    <1>6. ASSUME NEW a \in Agents, BeginTurn(a) PROVE AdmitsNobody
        BY <1>1, <1>6 DEF BeginTurn, identity, ledger
    <1>7. ASSUME NEW a \in Agents, NEW cost, MergeTurn(a, cost) PROVE AdmitsNobody
        <2>1. /\ UNCHANGED <<reserving, parent, capability, max, accepted, cached, reserved>>
              /\ used' = [used EXCEPT ![a] = AddUsage(used[a], cost)]
            BY <1>7 DEF MergeTurn, MergedBudget, identity
        <2>2. AddUsage(used[a], cost)["sub_agents"] = used[a]["sub_agents"]
            BY DEF AddUsage, Dims, Metered
        <2> QED BY <1>0, <2>1, <2>2 DEF TypeOK
    <1>e. ASSUME NEW a \in Agents, NEW t \in TurnTokens, EndTurn(a, t) PROVE AdmitsNobody
        BY <1>7, <1>e DEF EndTurn
    <1>k. ASSUME NEW c \in Children, NEW t \in TurnTokens, KillTurn(c, t) PROVE AdmitsNobody
        BY <1>7, <1>k DEF KillTurn, Agents
    <1>8. CASE UNCHANGED vars
        BY <1>1, <1>8 DEF vars, identity, ledger
    <1> HIDE DEF AdmitsNobody
    <1> QED BY <1>2, <1>3, <1>4, <1>5, <1>6, <1>e, <1>k, <1>8 DEF Next, ChildStep, TurnStep

\* What a reservation changes, and what its checks have established.
Admits(a, c, hooked, token) ==
    /\ reserving = {} /\ c \notin accepted /\ a \in {Root} \cup accepted
    /\ token \subseteq capability[a]
    /\ \A d \in Dims : validate_supervisor_limit(hooked[d], max[a][d], Remaining(a, d))
    /\ reserving' = {c} /\ accepted' = accepted /\ cached' = cached
    /\ parent' = [parent EXCEPT ![c] = a]
    /\ capability' = [capability EXCEPT ![c] = token]
    /\ max' = [max EXCEPT ![c] = hooked]
    /\ reserved' = [reserved EXCEPT ![a] = Reserve(hooked, a), ![c] = NoUsage]
    /\ used' = [used EXCEPT ![a] = WithSubAgents(used[a], used[a]["sub_agents"] + 1),
                           ![c] = NoBudget]
    /\ reservations' = reservations \cup {c} /\ UNCHANGED <<task, view, own, charged>>

\* What the spawn validations let through: a known caller, a fresh id, an
\* attenuated capability and a budget that fits what the caller has left.
LEMMA SpawnAdmits ==
    ASSUME TypeOK, Identities, Spawn
    PROVE  \E a \in Agents, c \in Children, hooked \in Budgets, token \in Tokens :
               Admits(a, c, hooked, token)
    <1>1. PICK a \in Agents, c \in Children, p \in Placements, request \in BudgetRequests :
          \E override \in SUBSET capability_for_caller(a), hooked \in BudgetRequests :
          \E token \in SUBSET effective_spawn_capability(a, p, override) :
              ReserveSpawn(a, c, p, override, request, hooked, token)
        BY DEF Spawn
    <1>2. PICK override \in SUBSET capability_for_caller(a), hooked \in BudgetRequests :
          \E token \in SUBSET effective_spawn_capability(a, p, override) :
              ReserveSpawn(a, c, p, override, request, hooked, token)
        BY <1>1
    <1>3. PICK token \in SUBSET effective_spawn_capability(a, p, override) :
              ReserveSpawn(a, c, p, override, request, hooked, token)
        BY <1>2
    <1>4. token \subseteq capability[a] /\ token \in Tokens /\ hooked \in Budgets
        BY <1>3, BudgetsAssumption
        DEF effective_spawn_capability, capability_for_caller, TypeOK, Tokens
    <1>5. a \in {Root} \cup accepted /\ c \notin accepted
        BY <1>3 DEF ReserveSpawn, validate_spawn_authorization, KnownCaller, Identities,
                    ensure_child_id_is_new
    <1>6. Admits(a, c, hooked, token)
        BY <1>3, <1>4, <1>5 DEF ReserveSpawn, Admits, validate_spawn_budget,
                                validate_budget_against_account, TypeOK, loop
    <1> QED BY <1>4, <1>6

\* Accepting turns the id being admitted into an accepted one.
LEMMA AcceptMoves ==
    ASSUME Identities, NEW c \in Children, AcceptSpawn(c)
    PROVE  /\ c \notin accepted /\ reserving = {c} /\ reserving' = {}
           /\ accepted' = accepted \cup {c} /\ Admitted' = Admitted
           /\ UNCHANGED <<parent, capability, max, used, reserved>>
    BY DEF Identities, AcceptSpawn, Admitted, identity, ledger

\* Identities is preserved by every step.
LEMMA IdentitiesStep == ASSUME TypeOK, Identities, [Next]_vars PROVE Identities'
    <1> USE IdsAssumption DEF Agents
    <1>1. CASE Spawn
        <2>1. PICK a \in Agents, c \in Children, hooked \in Budgets, token \in Tokens :
                  Admits(a, c, hooked, token)
            BY <1>1, SpawnAdmits
        <2>2. Admitted' = Admitted \cup {c} /\ c \notin Admitted
            BY <2>1 DEF Admits, Admitted
        <2>3. IsFiniteSet(Admitted')
            BY <2>2, FS_AddElement DEF Identities
        <2>4. \A k \in Children :
                IF k \in Admitted' THEN parent'[k] \in {Root} \cup accepted' ELSE parent'[k] = NoAgent
            BY <2>1, <2>2 DEF Admits, Identities, TypeOK
        <2>5. capability'[Root] = RootCapability /\ max'[Root] = RootMax
            BY <2>1 DEF Admits, Identities, TypeOK
        <2> QED BY <2>1, <2>3, <2>4, <2>5 DEF Admits, Identities
    <1>2. ASSUME NEW c \in Children, AcceptSpawn(c) PROVE Identities'
        <2>1. cached' \subseteq accepted'
            BY <1>2 DEF Identities, AcceptSpawn
        <2> QED BY <1>2, <2>1, AcceptMoves DEF Identities
    <1>3. ASSUME NEW c \in Children, RollbackSpawn(c) PROVE Identities'
        <2>1. /\ reserving = {c} /\ reserving' = {} /\ c \notin accepted
              /\ UNCHANGED <<accepted, cached>>
            BY <1>3 DEF RollbackSpawn, Identities
        <2>2. Admitted' = accepted
            BY <2>1 DEF Admitted
        <2>3. IsFiniteSet(Admitted')
            <3>1. accepted \in SUBSET Admitted
                BY DEF Admitted
            <3> QED BY <2>2, <3>1, FS_Subset DEF Identities
        <2>4. \A k \in Children :
                IF k \in Admitted' THEN parent'[k] \in {Root} \cup accepted' ELSE parent'[k] = NoAgent
            BY <1>3, <2>1, <2>2 DEF RollbackSpawn, Identities, TypeOK, Admitted
        <2>5. capability'[Root] = RootCapability /\ max'[Root] = RootMax
            BY <1>3 DEF RollbackSpawn, Identities, TypeOK
        <2> QED BY <2>1, <2>3, <2>4, <2>5 DEF Identities
    <1>4. CASE AdmitsNobody
        <2>1. UNCHANGED <<reserving, parent, capability, max, accepted, Admitted>> /\ cached' \subseteq cached
            BY <1>4 DEF AdmitsNobody, Admitted
        <2> QED BY <2>1 DEF Identities
    <1> QED BY <1>1, <1>2, <1>3, <1>4, OtherSteps

-----------------------------------------------------------------------------
\* What is left of an account never exceeds its limit.
LEMMA RemainingBound ==
    ASSUME TypeOK, NEW a \in Agents, NEW d \in Dims
    PROVE  Remaining(a, d) \in Nat /\ Remaining(a, d) <= max[a][d]
    <1>1. max[a][d] \in Nat /\ used[a][d] \in Nat
        BY DEF TypeOK, Budgets
    <1>2. d \in Metered => reserved[a][d] \in Nat
        BY DEF TypeOK, Usages
    <1>3. d # "sub_agents" => d \in Metered
        BY DEF Dims
    <1> QED BY <1>1, <1>2, <1>3 DEF Remaining, SaturatingSub

\* Delegations is preserved by every step: the caller's own rights and limits
\* are within the root's, and the child's are within the caller's.
LEMMA DelegationsStep == ASSUME TypeOK, Identities, Delegations, [Next]_vars PROVE Delegations'
    <1> USE IdsAssumption DEF Agents
    <1>1. CASE Spawn
        <2>1. PICK a \in Agents, c \in Children, hooked \in Budgets, token \in Tokens :
                  Admits(a, c, hooked, token)
            BY <1>1, SpawnAdmits
        <2>2. Admitted' = Admitted \cup {c} /\ c \notin Admitted /\ a # c
            BY <2>1 DEF Admits, Admitted
        <2>3. /\ capability' = [capability EXCEPT ![c] = token]
              /\ max' = [max EXCEPT ![c] = hooked] /\ parent' = [parent EXCEPT ![c] = a]
            BY <2>1 DEF Admits
        <2>4. \A d \in Dims : a = Root \/ Attenuates(max[a][d], RootMax[d])
            BY <2>1 DEF Admits, Delegations, Admitted
        <2>5. token \subseteq capability[a] /\ token \subseteq RootCapability
            BY <2>1 DEF Admits, Delegations, Identities, Admitted
        <2>6. ASSUME NEW d \in Dims PROVE Attenuates(hooked[d], RootMax[d])
            <3>1. max[a][d] = 0 \/ (hooked[d] # 0 /\ hooked[d] <= max[a][d])
                <4>1. max[a][d] = 0 \/ (hooked[d] # 0 /\ hooked[d] <= Remaining(a, d))
                    BY <2>1 DEF Admits, validate_supervisor_limit
                <4>2. hooked[d] \in Nat /\ max[a][d] \in Nat
                    BY DEF TypeOK, Budgets
                <4> QED BY <4>1, <4>2, RemainingBound
            <3>2. hooked[d] \in Nat /\ max[a][d] \in Nat /\ RootMax[d] \in Nat
                BY BudgetsAssumption DEF TypeOK, Budgets
            <3> QED BY <2>4, <3>1, <3>2 DEF Attenuates, Identities
        <2>7. ASSUME NEW k \in Admitted
              PROVE  /\ k # c /\ k \in Children /\ parent[k] # c /\ parent[k] \in Agents
            BY <2>1, <2>2 DEF Identities, Admits, Admitted, TypeOK
        <2>8. ASSUME NEW k \in Admitted
              PROVE  /\ capability'[k] \subseteq capability'[parent'[k]]
                     /\ capability'[k] \subseteq RootCapability
                     /\ \A d \in Dims : Attenuates(max'[k][d], RootMax[d])
            <3>1. /\ capability'[k] = capability[k] /\ max'[k] = max[k] /\ parent'[k] = parent[k]
                  /\ capability'[parent[k]] = capability[parent[k]]
                BY <2>3, <2>7 DEF TypeOK
            <3> QED BY <3>1 DEF Delegations
        <2>9. /\ capability'[c] = token /\ max'[c] = hooked /\ parent'[c] = a
              /\ capability'[a] = capability[a]
            BY <2>2, <2>3 DEF TypeOK
        <2> QED BY <2>2, <2>5, <2>6, <2>8, <2>9 DEF Delegations
    <1>2. ASSUME NEW c \in Children, AcceptSpawn(c) PROVE Delegations'
        BY <1>2, AcceptMoves DEF Delegations
    <1>3. ASSUME NEW c \in Children, RollbackSpawn(c) PROVE Delegations'
        <2>1. Admitted' = accepted /\ c \notin accepted
            BY <1>3 DEF RollbackSpawn, Identities, Admitted
        <2>2. ASSUME NEW k \in accepted
              PROVE  /\ k \in Admitted /\ parent'[k] = parent[k]
                     /\ capability'[k] = capability[k] /\ max'[k] = max[k]
                     /\ capability'[parent[k]] = capability[parent[k]]
            <3>1. k \in Children /\ k # c /\ k \in Admitted
                BY <2>1 DEF Admitted, TypeOK
            <3>2. parent[k] # c /\ parent[k] \in Agents
                BY <2>1, <3>1 DEF Identities, TypeOK
            <3> QED BY <1>3, <3>1, <3>2 DEF RollbackSpawn, TypeOK
        <2> QED BY <2>1, <2>2 DEF Delegations
    <1>4. CASE AdmitsNobody
        <2>1. UNCHANGED <<parent, capability, max, Admitted>>
            BY <1>4 DEF AdmitsNobody, Admitted
        <2> QED BY <2>1 DEF Delegations
    <1> QED BY <1>1, <1>2, <1>3, <1>4, OtherSteps

-----------------------------------------------------------------------------
\* ReservedWithinLimit is preserved by every step: only a reservation raises
\* reserved, and validate_supervisor_limit has left room for it.
LEMMA ReservedStep ==
    ASSUME TypeOK, Identities, ReservedWithinLimit, [Next]_vars PROVE ReservedWithinLimit'
    <1> USE IdsAssumption DEF Agents
    <1>0. \A a \in Agents : \A m \in Metered : reserved[a][m] \in Nat /\ max[a][m] \in Nat /\ used[a][m] \in Nat
        BY DEF TypeOK, Usages, Budgets, Dims
    <1>1. CASE Spawn
        <2>1. PICK a \in Agents, c \in Children, hooked \in Budgets, token \in Tokens :
                  Admits(a, c, hooked, token)
            BY <1>1, SpawnAdmits
        <2>2. a # c
            BY <2>1 DEF Admits
        <2>3. /\ max' = [max EXCEPT ![c] = hooked]
              /\ reserved' = [reserved EXCEPT ![a] = Reserve(hooked, a), ![c] = NoUsage]
            BY <2>1 DEF Admits
        <2>4. ASSUME NEW m \in Metered PROVE max'[a][m] = 0 \/ reserved'[a][m] <= max'[a][m]
            <3>1. max'[a] = max[a] /\ reserved'[a] = Reserve(hooked, a)
                BY <2>2, <2>3 DEF TypeOK
            <3>2. reserved'[a][m] = reserved[a][m] + hooked[m]
                BY <3>1 DEF Reserve
            <3>3. max[a][m] = 0 \/ (hooked[m] # 0 /\ hooked[m] <= Remaining(a, m))
                BY <2>1 DEF Admits, Dims, validate_supervisor_limit
            <3>4. Remaining(a, m) = SaturatingSub(max[a][m], used[a][m] + reserved[a][m])
                BY DEF Remaining, Metered
            <3>5. hooked[m] \in Nat
                BY DEF Budgets, Dims
            <3> QED BY <1>0, <3>1, <3>2, <3>3, <3>4, <3>5 DEF SaturatingSub
        <2>5. ASSUME NEW m \in Metered PROVE max'[c][m] = 0 \/ reserved'[c][m] <= max'[c][m]
            <3>1. max'[c] = hooked /\ reserved'[c] = NoUsage
                BY <2>2, <2>3 DEF TypeOK
            <3>2. hooked[m] \in Nat /\ NoUsage[m] = 0
                BY DEF Budgets, Dims, NoUsage
            <3> QED BY <3>1, <3>2
        <2>6. ASSUME NEW b \in Agents, b # a, b # c
              PROVE  max'[b] = max[b] /\ reserved'[b] = reserved[b]
            BY <2>3, <2>6 DEF TypeOK
        <2> QED BY <2>4, <2>5, <2>6 DEF ReservedWithinLimit
    <1>2. ASSUME NEW c \in Children, AcceptSpawn(c) PROVE ReservedWithinLimit'
        BY <1>2, AcceptMoves DEF ReservedWithinLimit
    <1>3. ASSUME NEW c \in Children, RollbackSpawn(c) PROVE ReservedWithinLimit'
        <2> DEFINE a == parent[c]
        <2>1. a \in Agents /\ a # c
            BY <1>3 DEF RollbackSpawn, Identities, Admitted, TypeOK
        <2>2. reserved' = [reserved EXCEPT ![a] = Release(c, a)] /\ max' = [max EXCEPT ![c] = NoBudget]
            BY <1>3 DEF RollbackSpawn
        <2>3. \A m \in Metered : Release(c, a)[m] \in Nat /\ Release(c, a)[m] <= reserved[a][m]
            BY <2>1, ReleaseType DEF Usages
        <2> HIDE DEF a
        <2>4. ASSUME NEW m \in Metered PROVE max'[c][m] = 0
            BY <2>2 DEF TypeOK, NoBudget, Dims
        <2>5. ASSUME NEW b \in Agents, NEW m \in Metered
              PROVE  reserved'[b][m] \in Nat /\ reserved'[b][m] <= reserved[b][m]
            BY <1>0, <2>1, <2>2, <2>3 DEF TypeOK
        <2>6. ASSUME NEW b \in Agents, b # c PROVE max'[b] = max[b]
            BY <2>2, <2>6 DEF TypeOK
        <2>7. ASSUME NEW b \in Agents, NEW m \in Metered
              PROVE  max'[b][m] = 0 \/ reserved'[b][m] <= max'[b][m]
            BY <1>0, <2>4, <2>5, <2>6 DEF ReservedWithinLimit
        <2> QED BY <2>7 DEF ReservedWithinLimit
    <1>4. CASE AdmitsNobody
        <2>1. TypeOK'
            BY TypeInductive
        <2>2. \A a \in Agents : \A m \in Metered : reserved'[a][m] \in Nat
            BY <2>1 DEF TypeOK, Usages
        <2>3. max' = max /\ \A a \in Agents : \A m \in Metered : reserved'[a][m] <= reserved[a][m]
            BY <1>4 DEF AdmitsNobody
        <2> QED BY <1>0, <2>2, <2>3 DEF ReservedWithinLimit
    <1> QED BY <1>1, <1>2, <1>3, <1>4, OtherSteps

-----------------------------------------------------------------------------
\* The children of an agent are finitely many, and an id that was never
\* accepted has none.
LEMMA ChildrenFinite ==
    ASSUME TypeOK, Identities, NEW a \in Agents
    PROVE  /\ IsFiniteSet(ChildrenOf(a)) /\ Cardinality(ChildrenOf(a)) \in Nat
           /\ a \notin {Root} \cup accepted => ChildrenOf(a) = {}
    <1>1. ChildrenOf(a) \in SUBSET Admitted
        BY IdsAssumption DEF ChildrenOf, Identities
    <1>2. IsFiniteSet(ChildrenOf(a))
        BY <1>1, FS_Subset DEF Identities
    <1>3. a \notin {Root} \cup accepted => ChildrenOf(a) = {}
        BY IdsAssumption DEF ChildrenOf, Identities, Agents
    <1> QED BY <1>2, <1>3, FS_CardinalityType

\* One account is counted right and within its limit.
Counted(a) ==
    /\ used[a]["sub_agents"] = Cardinality(ChildrenOf(a))
    /\ max[a]["sub_agents"] = 0 \/ used[a]["sub_agents"] <= max[a]["sub_agents"]

\* An account whose count, limit and children a step leaves alone stays right.
LEMMA CountedKept ==
    ASSUME NEW a, Counted(a), ChildrenOf(a)' = ChildrenOf(a),
           used'[a]["sub_agents"] = used[a]["sub_agents"],
           max'[a]["sub_agents"] = max[a]["sub_agents"]
    PROVE  Counted(a)'
    BY DEF Counted

\* A reservation takes a slot that validate_budget_against_account found free.
LEMMA CountSpawn ==
    ASSUME TypeOK, Identities, SubAgentsCounted, Spawn PROVE SubAgentsCounted'
    <1> USE IdsAssumption DEF Agents
    <1>1. PICK a \in Agents, c \in Children, hooked \in Budgets, token \in Tokens :
              Admits(a, c, hooked, token)
        BY SpawnAdmits
    <1>2. a # c /\ c \notin Admitted /\ parent[c] = NoAgent
        BY <1>1 DEF Admits, Identities, Admitted
    <1>3. /\ max' = [max EXCEPT ![c] = hooked] /\ parent' = [parent EXCEPT ![c] = a]
          /\ used' = [used EXCEPT ![a] = WithSubAgents(used[a], used[a]["sub_agents"] + 1),
                                 ![c] = NoBudget]
        BY <1>1 DEF Admits
    <1>4. Counted(a)'
        <2>1. ChildrenOf(a)' = ChildrenOf(a) \cup {c} /\ c \notin ChildrenOf(a)
            BY <1>2, <1>3 DEF ChildrenOf, TypeOK
        <2>2. Cardinality(ChildrenOf(a)') = Cardinality(ChildrenOf(a)) + 1
            <3>1. IsFiniteSet(ChildrenOf(a))
                BY ChildrenFinite
            <3>2. /\ Cardinality(ChildrenOf(a) \cup {c})
                        = IF c \in ChildrenOf(a) THEN Cardinality(ChildrenOf(a)) ELSE Cardinality(ChildrenOf(a)) + 1
                BY <3>1, FS_AddElement
            <3> QED BY <2>1, <3>2
        <2>3. used'[a]["sub_agents"] = used[a]["sub_agents"] + 1 /\ max'[a] = max[a]
            BY <1>2, <1>3 DEF WithSubAgents, TypeOK, Dims
        <2>4. max[a]["sub_agents"] = 0 \/ (hooked["sub_agents"] # 0 /\ hooked["sub_agents"] <= Remaining(a, "sub_agents"))
            BY <1>1 DEF Admits, validate_supervisor_limit, Dims
        <2>5. Remaining(a, "sub_agents") = SaturatingSub(max[a]["sub_agents"], used[a]["sub_agents"])
            BY DEF Remaining
        <2>6. max[a]["sub_agents"] \in Nat /\ used[a]["sub_agents"] \in Nat /\ hooked["sub_agents"] \in Nat
            BY DEF TypeOK, Budgets, Dims
        <2>7. max[a]["sub_agents"] = 0 \/ used[a]["sub_agents"] + 1 <= max[a]["sub_agents"]
            BY <2>4, <2>5, <2>6 DEF SaturatingSub
        <2>8. used[a]["sub_agents"] = Cardinality(ChildrenOf(a))
            BY DEF SubAgentsCounted
        <2> QED BY <2>2, <2>3, <2>7, <2>8 DEF Counted
    <1>5. Counted(c)'
        <2>1. ChildrenOf(c) = {}
            BY <1>2, ChildrenFinite DEF Admitted
        <2>2. ChildrenOf(c)' = {}
            BY <1>2, <1>3, <2>1 DEF ChildrenOf, TypeOK
        <2>3. used'[c]["sub_agents"] = 0 /\ max'[c] = hooked
            BY <1>3 DEF TypeOK, NoBudget, Dims
        <2>4. hooked["sub_agents"] \in Nat
            BY DEF Budgets, Dims
        <2> QED BY <2>2, <2>3, <2>4, FS_EmptySet DEF Counted
    <1>6. ASSUME NEW b \in Agents, b # a, b # c PROVE Counted(b)'
        <2>1. used'[b] = used[b] /\ max'[b] = max[b]
            BY <1>3, <1>6 DEF TypeOK
        <2>2. ChildrenOf(b)' = ChildrenOf(b)
            BY <1>2, <1>3, <1>6 DEF ChildrenOf, TypeOK
        <2>3. Counted(b)
            BY DEF SubAgentsCounted, Counted
        <2> QED BY <2>1, <2>2, <2>3, CountedKept
    <1> QED BY <1>4, <1>5, <1>6 DEF SubAgentsCounted, Counted

\* A rollback gives the slot back.
LEMMA CountRollback ==
    ASSUME TypeOK, Identities, SubAgentsCounted, NEW c \in Children, RollbackSpawn(c)
    PROVE  SubAgentsCounted'
    <1> USE IdsAssumption DEF Agents
    <1>0. PICK a \in Agents : a = parent[c] /\ a # c /\ c \notin accepted
        BY DEF RollbackSpawn, Identities, Admitted, TypeOK
    <1>1. a \in Agents /\ a # c /\ c \notin accepted
        BY <1>0
    <1>2. /\ used' = [used EXCEPT ![a] = WithSubAgents(used[a], SaturatingSub(used[a]["sub_agents"], 1))]
          /\ max' = [max EXCEPT ![c] = NoBudget] /\ parent' = [parent EXCEPT ![c] = NoAgent]
        BY <1>0 DEF RollbackSpawn
    <1>c. c \in ChildrenOf(a)
        BY <1>0 DEF ChildrenOf
    <1>3. ChildrenOf(a)' = ChildrenOf(a) \ {c}
        BY <1>1, <1>2 DEF ChildrenOf, TypeOK
    <1>4. Counted(a)'
        <2>1. Cardinality(ChildrenOf(a)') = Cardinality(ChildrenOf(a)) - 1
            BY <1>1, <1>3, <1>c, ChildrenFinite, FS_RemoveElement
        <2>2. used'[a]["sub_agents"] = SaturatingSub(used[a]["sub_agents"], 1) /\ max'[a] = max[a]
            BY <1>1, <1>2 DEF WithSubAgents, TypeOK, Dims
        <2>3. used[a]["sub_agents"] = Cardinality(ChildrenOf(a)) /\ Cardinality(ChildrenOf(a)) # 0
            <3>1. ChildrenOf(a) # {} /\ IsFiniteSet(ChildrenOf(a))
                BY <1>1, <1>c, ChildrenFinite
            <3> QED BY <1>1, <3>1, FS_EmptySet DEF SubAgentsCounted
        <2>4. used[a]["sub_agents"] \in Nat /\ max[a]["sub_agents"] \in Nat
            BY <1>1 DEF TypeOK, Budgets, Dims
        <2>5. max[a]["sub_agents"] = 0 \/ used[a]["sub_agents"] <= max[a]["sub_agents"]
            BY <1>1 DEF SubAgentsCounted
        <2> QED BY <2>1, <2>2, <2>3, <2>4, <2>5 DEF Counted, SaturatingSub
    <1>5. ASSUME NEW b \in Agents, b # a PROVE Counted(b)'
        <2>1. used'[b] = used[b]
            BY <1>2, <1>5 DEF TypeOK
        <2>2. ChildrenOf(b)' = ChildrenOf(b)
            BY <1>0, <1>2, <1>5 DEF ChildrenOf, TypeOK
        <2>3. Counted(b)
            BY DEF SubAgentsCounted, Counted
        <2>4. max'[b] = max[b] \/ max'[b]["sub_agents"] = 0
            BY <1>2 DEF TypeOK, NoBudget, Dims
        <2> QED BY <2>1, <2>2, <2>3, <2>4 DEF Counted
    <1> QED BY <1>4, <1>5 DEF SubAgentsCounted, Counted

\* SubAgentsCounted is preserved by every step.
LEMMA CountStep ==
    ASSUME TypeOK, Identities, SubAgentsCounted, [Next]_vars PROVE SubAgentsCounted'
    <1>1. ASSUME NEW c \in Children, AcceptSpawn(c) PROVE SubAgentsCounted'
        BY <1>1, AcceptMoves DEF SubAgentsCounted, ChildrenOf
    <1>2. CASE AdmitsNobody
        <2>1. /\ parent' = parent /\ max' = max
              /\ \A a \in Agents : used'[a]["sub_agents"] = used[a]["sub_agents"]
            BY <1>2 DEF AdmitsNobody
        <2> QED BY <2>1 DEF SubAgentsCounted, ChildrenOf
    <1> QED BY <1>1, <1>2, CountSpawn, CountRollback, OtherSteps

-----------------------------------------------------------------------------
\* The initial state satisfies the inductive invariant ...
LEMMA InitInv == Init => Identities /\ Delegations /\ ReservedWithinLimit /\ SubAgentsCounted
    <1> SUFFICES ASSUME Init PROVE Identities /\ Delegations /\ ReservedWithinLimit /\ SubAgentsCounted
        OBVIOUS
    <1> USE IdsAssumption, CapsAssumption, BudgetsAssumption DEF Agents
    <1>1. Admitted = {}
        BY DEF Init, Admitted
    <1>2. Identities
        BY <1>1, FS_EmptySet DEF Init, Identities
    <1>3. Delegations
        BY <1>1 DEF Delegations
    <1>4. ReservedWithinLimit
        BY DEF Init, ReservedWithinLimit, NoUsage, NoBudget, Budgets, Dims
    <1>5. ASSUME NEW a \in Agents PROVE ChildrenOf(a) = {}
        BY DEF Init, ChildrenOf
    <1>6. SubAgentsCounted
        <2>1. ASSUME NEW a \in Agents
              PROVE  used[a]["sub_agents"] = 0 /\ max[a]["sub_agents"] \in Nat
            BY DEF Init, NoBudget, Budgets, Dims
        <2>2. ASSUME NEW a \in Agents PROVE Counted(a)
            <3>1. ChildrenOf(a) = {}
                BY <1>5
            <3>2. Cardinality(ChildrenOf(a)) = 0
                BY <3>1, FS_EmptySet
            <3>3. used[a]["sub_agents"] = 0 /\ max[a]["sub_agents"] \in Nat
                BY <2>1
            <3> QED BY <3>2, <3>3 DEF Counted
        <2> QED BY <2>2 DEF SubAgentsCounted, Counted
    <1> QED BY <1>2, <1>3, <1>4, <1>6

\* ... every step preserves it ...
LEMMA StepInv == IInv /\ [Next]_vars => IInv'
    <1> SUFFICES ASSUME IInv, [Next]_vars PROVE IInv'
        OBVIOUS
    <1> USE DEF IInv
    <1> QED BY TypeInductive, IdentitiesStep, DelegationsStep, ReservedStep, CountStep

\* ... so it holds in every reachable state.
THEOREM Invariant == Spec => []IInv
    <1>1. Spec => []TypeOK
        BY TypeCorrect
    <1>2. Init /\ TypeOK => IInv
        BY InitInv DEF IInv
    <1> QED BY <1>1, <1>2, StepInv, PTL DEF Spec

\* Delegation never amplifies, whatever tree of agents the spawns have built.
THEOREM CapabilitiesCorrect == Spec => []CapabilitiesAttenuated
    <1>1. IInv => CapabilitiesAttenuated
        BY DEF IInv, Delegations, CapabilitiesAttenuated, Admitted
    <1> QED BY <1>1, Invariant, PTL

\* The root's finite limits bind every descendant.
THEOREM LimitsCorrect == Spec => []LimitsAttenuated
    <1>1. IInv => LimitsAttenuated
        BY DEF IInv, Delegations, LimitsAttenuated, Admitted
    <1> QED BY <1>1, Invariant, PTL

\* No account over-promises: reserved_* never passes a finite limit.
THEOREM ReservedCorrect == Spec => []ReservedWithinLimit
    <1>1. IInv => ReservedWithinLimit
        BY DEF IInv
    <1> QED BY <1>1, Invariant, PTL

\* used_sub_agents is the number of children and respects max_sub_agents.
THEOREM SubAgentsCorrect == Spec => []SubAgentsCounted
    <1>1. IInv => SubAgentsCounted
        BY DEF IInv
    <1> QED BY <1>1, Invariant, PTL

\* The step property behind AcceptedIsForever.
KeepsAccepted ==
    \A c \in accepted :
        /\ c \in accepted'
        /\ parent'[c] = parent[c] /\ capability'[c] = capability[c] /\ max'[c] = max[c]
        /\ c \notin cached => c \notin cached'

\* Every step has it.
LEMMA StepKeeps == ASSUME IInv, [Next]_vars PROVE KeepsAccepted
    <1> USE IdsAssumption DEF IInv, KeepsAccepted
    <1>1. CASE Spawn
        <2>1. PICK a \in Agents, c \in Children, hooked \in Budgets, token \in Tokens :
                  Admits(a, c, hooked, token)
            BY <1>1, SpawnAdmits
        <2>2. /\ c \notin accepted /\ accepted' = accepted /\ cached' = cached
              /\ parent' = [parent EXCEPT ![c] = a]
              /\ capability' = [capability EXCEPT ![c] = token]
              /\ max' = [max EXCEPT ![c] = hooked]
            BY <2>1 DEF Admits
        <2> QED BY <2>2 DEF TypeOK, Agents
    <1>2. ASSUME NEW c \in Children, AcceptSpawn(c) PROVE KeepsAccepted
        <2>1. cached' = cached \cup {c}
            BY <1>2 DEF AcceptSpawn
        <2> QED BY <1>2, <2>1, AcceptMoves
    <1>3. ASSUME NEW c \in Children, RollbackSpawn(c) PROVE KeepsAccepted
        <2>1. c \notin accepted
            BY <1>3 DEF RollbackSpawn, Identities
        <2> QED BY <1>3, <2>1 DEF RollbackSpawn, TypeOK, Agents
    <1>4. CASE AdmitsNobody
        BY <1>4 DEF AdmitsNobody
    <1> HIDE DEF KeepsAccepted
    <1> QED BY <1>1, <1>2, <1>3, <1>4, OtherSteps

\* An accepted id keeps its identity forever and is never admitted again.
THEOREM AcceptedForever == Spec => AcceptedIsForever
    <1>1. IInv /\ [Next]_vars => [KeepsAccepted]_vars
        BY StepKeeps
    <1> QED BY <1>1, Invariant, PTL DEF Spec, AcceptedIsForever, KeepsAccepted

-----------------------------------------------------------------------------
(* Sums as numbers of units.                                               *)

\* One member's units.
LEMMA UnitsOfOne ==
    ASSUME NEW c, NEW n \in Nat
    PROVE  IsFiniteSet({c} \X (1 .. n)) /\ Cardinality({c} \X (1 .. n)) = n
    <1>1. IsFiniteSet(1 .. n) /\ Cardinality(1 .. n) = n
        BY FS_Interval
    <1>2. IsFiniteSet({c}) /\ Cardinality({c}) = 1
        BY FS_Singleton
    <1>3. IsFiniteSet({c} \X (1 .. n)) /\ Cardinality({c} \X (1 .. n)) = Cardinality({c}) * Cardinality(1 .. n)
        BY <1>1, <1>2, FS_Product
    <1> QED BY <1>1, <1>2, <1>3

\* A unit belongs to one member.
LEMMA UnitOwner ==
    ASSUME NEW f, NEW S, NEW u
    PROVE  u \in Units(f, S) <=> \E c \in S : u \in {c} \X (1 .. f[c])
    BY DEF Units

\* Finitely many members with finitely many units each have finitely many.
LEMMA TotalNat ==
    ASSUME NEW f, NEW S, IsFiniteSet(S), \A c \in S : f[c] \in Nat
    PROVE  IsFiniteSet(Units(f, S)) /\ Total(f, S) \in Nat
    <1> DEFINE g == [c \in S |-> {c} \X (1 .. f[c])]
               T == {{c} \X (1 .. f[c]) : c \in S}
    <1>1. g \in Surjection(S, T)
        BY DEF Surjection
    <1>2. IsFiniteSet(T)
        BY <1>1, FS_Surjection DEF ExistsSurjection
    <1>3. ASSUME NEW t \in T PROVE IsFiniteSet(t)
        <2>1. PICK c \in S : t = {c} \X (1 .. f[c])
            OBVIOUS
        <2> QED BY <2>1, UnitsOfOne
    <1>4. IsFiniteSet(UNION T)
        BY <1>2, <1>3, FS_UNION
    <1> QED BY <1>4, FS_CardinalityType DEF Units, Total

\* The sum over no member.
LEMMA TotalEmpty ==
    ASSUME NEW f
    PROVE  Total(f, {}) = 0
    <1>1. Units(f, {}) = {}
        BY DEF Units
    <1> QED BY <1>1, FS_EmptySet DEF Total

\* The sum depends on the members' values only.
LEMMA TotalSame ==
    ASSUME NEW f, NEW g, NEW S, \A c \in S : f[c] = g[c]
    PROVE  Total(f, S) = Total(g, S)
    <1>1. \A u : u \in Units(f, S) <=> u \in Units(g, S)
        BY UnitOwner
    <1>2. Units(f, S) = Units(g, S)
        BY <1>1
    <1> QED BY <1>2 DEF Total

\* A new member adds its value.
LEMMA TotalAdd ==
    ASSUME NEW f, NEW S, IsFiniteSet(S), NEW k, k \notin S, \A c \in S \cup {k} : f[c] \in Nat
    PROVE  Total(f, S \cup {k}) = Total(f, S) + f[k]
    <1>1. PICK A : A = Units(f, S)
        OBVIOUS
    <1>2. PICK B : B = {k} \X (1 .. f[k])
        OBVIOUS
    <1>3. Units(f, S \cup {k}) = A \cup B
        <2>1. \A u : u \in Units(f, S \cup {k}) <=> u \in A \cup B
            BY <1>1, <1>2, UnitOwner
        <2> QED BY <2>1
    <1>4. A \cap B = {}
        <2>1. ASSUME NEW u, u \in A, u \in B PROVE FALSE
            <3>1. PICK c \in S : u \in {c} \X (1 .. f[c])
                BY <1>1, <2>1, UnitOwner
            <3>2. u[1] = c /\ u[1] = k
                BY <1>2, <2>1, <3>1
            <3> QED BY <3>1, <3>2
        <2> QED BY <2>1
    <1>5. IsFiniteSet(A) /\ Cardinality(A) = Total(f, S) /\ Total(f, S) \in Nat
        BY <1>1, TotalNat DEF Total
    <1>6. f[k] \in Nat /\ IsFiniteSet(B) /\ Cardinality(B) = f[k]
        BY <1>2, UnitsOfOne
    <1>7. Cardinality(A \cup B) = Cardinality(A) + Cardinality(B) - Cardinality({})
        BY <1>4, <1>5, <1>6, FS_Union
    <1>8. Total(f, S \cup {k}) = Cardinality(A \cup B)
        BY <1>3 DEF Total
    <1> QED BY <1>5, <1>6, <1>7, <1>8, FS_EmptySet

\* A member that goes takes its value with it.
LEMMA TotalRemove ==
    ASSUME NEW f, NEW S, IsFiniteSet(S), NEW k \in S, \A c \in S : f[c] \in Nat
    PROVE  /\ Total(f, S) = Total(f, S \ {k}) + f[k]
           /\ Total(f, S \ {k}) \in Nat /\ f[k] \in Nat
    <1>1. PICK R : R = S \ {k}
        OBVIOUS
    <1>2. IsFiniteSet(R) /\ k \notin R /\ S = R \cup {k}
        BY <1>1, FS_Subset
    <1>3. Total(f, R \cup {k}) = Total(f, R) + f[k] /\ Total(f, R) \in Nat
        BY <1>2, TotalAdd, TotalNat
    <1> QED BY <1>1, <1>2, <1>3

\* A member whose value was nothing gets a value.
LEMMA TotalGain ==
    ASSUME NEW f, NEW g, NEW S, IsFiniteSet(S), NEW k \in S, f[k] = 0, \A c \in S \ {k} : f[c] = g[c],
           \A c \in S : f[c] \in Nat /\ g[c] \in Nat
    PROVE  Total(g, S) = Total(f, S) + g[k]
    <1>1. PICK R : R = S \ {k}
        OBVIOUS
    <1>2. Total(f, R) = Total(g, R)
        BY <1>1, TotalSame
    <1>3. Total(f, S) = Total(f, R) + 0 /\ Total(f, R) \in Nat
        BY <1>1, TotalRemove
    <1>4. Total(g, S) = Total(g, R) + g[k]
        BY <1>1, TotalRemove
    <1> QED BY <1>2, <1>3, <1>4

-----------------------------------------------------------------------------
(* The accounts.                                                           *)

\* What the two ways of updating a budget do to a metered dimension.
LEMMA AddedUsage ==
    ASSUME NEW b \in Budgets, NEW u \in Usages, NEW m \in Metered
    PROVE  AddUsage(b, u)[m] = b[m] + u[m] /\ b[m] \in Nat /\ u[m] \in Nat
    BY DEF AddUsage, Budgets, Usages, Dims, Metered

\* The slots are counted apart from what is metered.
LEMMA SlotsApart ==
    ASSUME NEW b \in Budgets, NEW n, NEW m \in Metered
    PROVE  WithSubAgents(b, n)[m] = b[m]
    BY DEF WithSubAgents, Budgets, Dims, Metered

\* What Lifecycles says of one child.
Life(c) ==
    /\ c \notin accepted => task[c] = "none" /\ own[c] = NoUsage /\ view[c] = 0
    /\ task[c] \in {"running", "output", "error"} => c \in reservations
    /\ task[c] \in {"settled", "published"} => c \notin reservations
    /\ task[c] \notin {"settled", "published"} => charged[c] = NoUsage

\* A child whose state a step leaves alone stays as it is.
LEMMA LifeKept ==
    ASSUME NEW c, Life(c), c \in accepted => c \in accepted', c \in reservations' <=> c \in reservations,
           task'[c] = task[c], own'[c] = own[c], view'[c] = view[c], charged'[c] = charged[c]
    PROVE  Life(c)'
    BY DEF Life, NoUsage

\* A turn changes the budget, the copy and the own usage of one agent.
Merges(a, cost) ==
    /\ used' = [used EXCEPT ![a] = AddUsage(used[a], cost)]
    /\ view' = [view EXCEPT ![a] = AddUsage(used[a], cost)["turns"]]
    /\ own' = [own EXCEPT ![a] = [m \in Metered |-> own[a][m] + cost[m]]]
    /\ UNCHANGED <<reserving, parent, max, reserved, reservations, accepted, charged>>

\* The cost of a turn, and what its end changes.
LEMMA TurnMerges ==
    ASSUME TypeOK, NEW a \in Agents, NEW t \in TurnTokens,
           \/ EndTurn(a, t)
           \/ a \in Children /\ KillTurn(a, t)
    PROVE  /\ Looping(a)
           /\ \E cost \in Usages : cost["turns"] = 1 /\ Merges(a, cost)
           /\ task' = task \/ (a \in Children /\ task' = [task EXCEPT ![a] = "output"])
    <1>1. PICK cost : cost = [tokens |-> t, turns |-> 1]
        OBVIOUS
    <1>2. t \in Nat
        BY TurnAssumption
    <1>3. cost \in Usages /\ cost["turns"] = 1
        BY <1>1, <1>2 DEF Usages, Metered
    <1>4. MergeTurn(a, cost) /\ Looping(a) /\ (task' = task \/ (a \in Children /\ task' = [task EXCEPT ![a] = "output"]))
        BY <1>1 DEF EndTurn, KillTurn
    <1>5. Merges(a, cost)
        BY <1>4 DEF MergeTurn, Merges, MergedBudget, CopyBack, identity, TypeOK
    <1> QED BY <1>3, <1>4, <1>5

\* Lifecycles is preserved by every step.
LEMMA LifecyclesStep == ASSUME TypeOK, Identities, Lifecycles, [Next]_vars PROVE Lifecycles'
    <1> USE IdsAssumption
    <1>0. /\ reserving \subseteq reservations /\ reservations \subseteq Admitted
          /\ \A c \in Children : Life(c)
        BY DEF Lifecycles, Life
    <1>g. ASSUME reserving' \subseteq reservations', reservations' \subseteq Admitted', \A c \in Children : Life(c)'
          PROVE  Lifecycles'
        BY <1>g DEF Lifecycles, Life
    <1>1. CASE Spawn
        <2>1. PICK a \in Agents, c \in Children, hooked \in Budgets, token \in Tokens :
                  Admits(a, c, hooked, token)
            BY <1>1, SpawnAdmits
        <2>2. /\ reserving' = {c} /\ accepted' = accepted /\ c \notin accepted
              /\ reservations' = reservations \cup {c} /\ UNCHANGED <<task, view, own, charged>>
            BY <2>1 DEF Admits
        <2>3. reservations' \subseteq Admitted'
            BY <1>0, <2>1, <2>2 DEF Admitted, Admits
        <2>4. Life(c)'
            BY <1>0, <2>2 DEF Life, NoUsage
        <2>5. \A k \in Children \ {c} : Life(k)'
            BY <1>0, <2>2, LifeKept
        <2> QED BY <1>g, <2>2, <2>3, <2>4, <2>5
    <1>2. ASSUME NEW c \in Children, AcceptSpawn(c) PROVE Lifecycles'
        <2>1. /\ c \notin accepted /\ reserving = {c} /\ reserving' = {} /\ accepted' = accepted \cup {c}
              /\ Admitted' = Admitted /\ reservations' = reservations /\ UNCHANGED <<view, own, charged>>
              /\ task' = [task EXCEPT ![c] = "running"]
            BY <1>2, AcceptMoves DEF AcceptSpawn, ledger, loop
        <2>2. Life(c)'
            <3>1. task'[c] = "running" /\ c \in reservations' /\ c \in accepted' /\ task[c] = "none"
                BY <1>0, <2>1 DEF TypeOK, Life
            <3>2. charged'[c] = NoUsage
                BY <1>0, <2>1, <3>1 DEF Life
            <3> QED BY <3>1, <3>2 DEF Life, NoUsage
        <2>3. \A k \in Children \ {c} : Life(k)'
            <3>1. \A k \in Children \ {c} : task'[k] = task[k]
                BY <2>1 DEF TypeOK
            <3> QED BY <1>0, <2>1, <3>1, LifeKept
        <2> QED BY <1>0, <1>g, <2>1, <2>2, <2>3
    <1>3. ASSUME NEW c \in Children, RollbackSpawn(c) PROVE Lifecycles'
        <2>1. /\ reserving = {c} /\ reserving' = {} /\ c \notin accepted /\ accepted' = accepted
              /\ reservations' = reservations \ {c} /\ UNCHANGED <<task, view, own, charged>>
            BY <1>3 DEF RollbackSpawn, Identities, loop
        <2>2. reservations' \subseteq Admitted'
            BY <1>0, <2>1 DEF Admitted
        <2>3. Life(c)'
            BY <1>0, <2>1 DEF Life, NoUsage
        <2>4. \A k \in Children \ {c} : Life(k)'
            BY <1>0, <2>1, LifeKept
        <2> QED BY <1>g, <2>1, <2>2, <2>3, <2>4
    <1>4. ASSUME NEW c \in Children, NEW st \in {"output", "error"}, Resolve(c, st) PROVE Lifecycles'
        <2>1. /\ task[c] = "running" /\ task' = [task EXCEPT ![c] = st]
              /\ UNCHANGED <<reserving, accepted, reservations, view, own, charged>>
            BY <1>4 DEF Resolve, ledger
        <2>2. Life(c)'
            BY <1>0, <2>1 DEF Life, NoUsage, TypeOK
        <2>3. \A k \in Children \ {c} : task'[k] = task[k]
            BY <2>1 DEF TypeOK
        <2>4. \A k \in Children \ {c} : Life(k)'
            BY <1>0, <2>1, <2>3, LifeKept
        <2> QED BY <1>0, <1>g, <2>1, <2>2, <2>4 DEF Admitted
    <1>5. ASSUME NEW c \in Children, Settle(c) PROVE Lifecycles'
        <2>1. /\ task[c] \in {"output", "error"} /\ task' = [task EXCEPT ![c] = "settled"]
              /\ reservations' = reservations \ {c}
              /\ UNCHANGED <<reserving, accepted, view, own>>
            BY <1>5 DEF Settle, loop
        <2>2. \A k \in Children \ {c} : charged'[k] = charged[k]
            BY <1>5 DEF Settle, TypeOK
        <2>3. c \in accepted
            BY <1>0, <2>1 DEF Life
        <2>4. Life(c)'
            BY <2>1, <2>3 DEF Life, TypeOK
        <2>5. \A k \in Children \ {c} : task'[k] = task[k]
            BY <2>1 DEF TypeOK
        <2>6. \A k \in Children \ {c} : Life(k)'
            BY <1>0, <2>1, <2>2, <2>5, LifeKept
        <2>7. reserving' \subseteq reservations'
            BY <1>0, <2>1, <2>3 DEF Identities
        <2> QED BY <1>0, <1>g, <2>1, <2>4, <2>6, <2>7 DEF Admitted
    <1>6. ASSUME NEW c \in Children, Publish(c) PROVE Lifecycles'
        <2>1. /\ task[c] = "settled" /\ task' = [task EXCEPT ![c] = "published"]
              /\ UNCHANGED <<reserving, accepted, reservations, view, own, charged>>
            BY <1>6 DEF Publish, ledger, loop
        <2>2. Life(c)'
            BY <1>0, <2>1 DEF Life, NoUsage, TypeOK
        <2>3. \A k \in Children \ {c} : task'[k] = task[k]
            BY <2>1 DEF TypeOK
        <2>4. \A k \in Children \ {c} : Life(k)'
            BY <1>0, <2>1, <2>3, LifeKept
        <2> QED BY <1>0, <1>g, <2>1, <2>2, <2>4 DEF Admitted
    <1>7. ASSUME NEW c \in Children, CloseChild(c) PROVE Lifecycles'
        <2>1. task[c] = "published" /\ UNCHANGED <<reserving, accepted, task, view, own, charged>>
            BY <1>7 DEF CloseChild, loop
        <2>2. reservations' = reservations
            BY <1>0, <1>7, <2>1 DEF CloseChild, Life
        <2>3. \A k \in Children : Life(k)'
            BY <1>0, <2>1, <2>2, LifeKept
        <2> QED BY <1>0, <1>g, <2>1, <2>2, <2>3 DEF Admitted
    <1>8. ASSUME NEW a \in Agents, BeginTurn(a) PROVE Lifecycles'
        <2>1. /\ Looping(a) /\ view' = [view EXCEPT ![a] = used[a]["turns"]]
              /\ UNCHANGED <<reserving, accepted, reservations, task, own, charged>>
            BY <1>8 DEF BeginTurn, ledger
        <2>2. ASSUME NEW k \in Children PROVE Life(k)'
            <3>1. CASE k = a
                <4>1. k \in accepted
                    BY <1>0, <2>1, <3>1 DEF Life, Looping
                <4> QED BY <1>0, <2>1, <4>1 DEF Life, NoUsage
            <3>2. CASE k # a
                <4>1. view'[k] = view[k]
                    BY <2>1, <3>2 DEF TypeOK, Agents
                <4> QED BY <1>0, <2>1, <4>1, LifeKept
            <3> QED BY <3>1, <3>2
        <2> QED BY <1>0, <1>g, <2>1, <2>2 DEF Admitted
    <1>9. ASSUME NEW a \in Agents, NEW t \in TurnTokens, EndTurn(a, t) \/ (a \in Children /\ KillTurn(a, t)) PROVE Lifecycles'
        <2>1. /\ Looping(a) /\ (task' = task \/ (a \in Children /\ task' = [task EXCEPT ![a] = "output"]))
              /\ \E cost \in Usages : Merges(a, cost)
            BY <1>9, TurnMerges
        <2>2. /\ UNCHANGED <<reserving, accepted, reservations, charged>>
              /\ \A k \in Children \ {a} : own'[k] = own[k] /\ view'[k] = view[k]
            BY <2>1 DEF Merges, TypeOK, Agents
        <2>3. ASSUME NEW k \in Children PROVE Life(k)'
            <3>1. CASE k = a
                <4>1. k \in accepted /\ task[k] = "running"
                    BY <1>0, <2>1, <3>1 DEF Life, Looping
                <4>2. task'[k] \in {"running", "output"}
                    BY <2>1, <3>1, <4>1 DEF TypeOK
                <4> QED BY <1>0, <2>2, <4>1, <4>2 DEF Life, NoUsage
            <3>2. CASE k # a
                <4>1. task'[k] = task[k]
                    BY <2>1, <3>2 DEF TypeOK
                <4> QED BY <1>0, <2>2, <3>2, <4>1, LifeKept
            <3> QED BY <3>1, <3>2
        <2> QED BY <1>0, <1>g, <2>2, <2>3 DEF Admitted
    <1>10. CASE UNCHANGED vars
        <2>1. UNCHANGED <<reserving, accepted, reservations, task, view, own, charged>>
            BY <1>10 DEF vars, ledger, loop
        <2>2. \A k \in Children : Life(k)'
            BY <1>0, <2>1, LifeKept
        <2> QED BY <1>0, <1>g, <2>1, <2>2 DEF Admitted
    <1>11. Children \subseteq Agents
        BY DEF Agents
    <1> QED BY <1>1, <1>2, <1>3, <1>4, <1>5, <1>6, <1>7, <1>8, <1>9, <1>10, <1>11 DEF Next, ChildStep, TurnStep

\* What settling a child changes; Lifecycles has it reserved until then.
Settles(a, c, u) ==
    /\ a = parent[c] /\ c \in reservations /\ task[c] \in {"output", "error"} /\ task'[c] = "settled"
    /\ task[c] = "output" => u = Reported(c)
    /\ reserved' = [reserved EXCEPT ![a] = Release(c, a)]
    /\ used' = [used EXCEPT ![a] = AddUsage(used[a], u)]
    /\ charged' = [charged EXCEPT ![c] = u]
    /\ reservations' = reservations \ {c}
    /\ UNCHANGED <<parent, max, view, own>>

\* A settlement finds the account of the parent.
LEMMA SettleSettles ==
    ASSUME TypeOK, Identities, Lifecycles, NEW c \in Children, Settle(c)
    PROVE  \E a \in Agents, u \in Usages : Settles(a, c, u)
    <1>1. PICK u : u = SettledUsage(c)
        OBVIOUS
    <1>2. u \in Usages /\ (task[c] = "output" => u = Reported(c))
        BY <1>1, ReportedType DEF SettledUsage, NoUsage, Usages
    <1>3. c \in reservations /\ c \in accepted /\ task[c] \in {"output", "error"} /\ task'[c] = "settled"
        BY DEF Settle, Lifecycles, TypeOK
    <1>4. PICK a \in Agents : a = parent[c]
        BY <1>3 DEF Identities, Admitted, TypeOK, Agents
    <1>5. Settles(a, c, u)
        BY <1>1, <1>2, <1>3, <1>4 DEF Settle, Settles, identity, loop, TypeOK
    <1> QED BY <1>2, <1>5

\* What a rollback changes.
RollsBack(a, c) ==
    /\ a = parent[c] /\ c \in reservations /\ c \notin accepted
    /\ reserved' = [reserved EXCEPT ![a] = Release(c, a)]
    /\ used' = [used EXCEPT ![a] = WithSubAgents(used[a], SaturatingSub(used[a]["sub_agents"], 1))]
    /\ reservations' = reservations \ {c}
    /\ parent' = [parent EXCEPT ![c] = NoAgent] /\ max' = [max EXCEPT ![c] = NoBudget]
    /\ UNCHANGED <<task, view, own, charged>>

\* A rollback finds the account of the caller.
LEMMA RollbackRollsBack ==
    ASSUME TypeOK, Identities, Lifecycles, NEW c \in Children, RollbackSpawn(c)
    PROVE  \E a \in Agents : a # c /\ RollsBack(a, c)
    <1>1. c \in reserving /\ c \notin accepted /\ c \in reservations
        BY DEF RollbackSpawn, Identities, Lifecycles
    <1>2. PICK a \in Agents : a = parent[c] /\ a # c
        BY <1>1, IdsAssumption DEF Identities, Admitted, TypeOK, Agents
    <1>3. RollsBack(a, c)
        BY <1>1, <1>2 DEF RollbackSpawn, RollsBack, loop, TypeOK
    <1> QED BY <1>2, <1>3

\* A step that changes no account and no child's place in one.
LeavesAccounts ==
    UNCHANGED <<parent, max, used, reserved, reservations, own, charged>>

\* The steps of the ledger, as far as the accounts are concerned.
LEMMA AccountSteps ==
    ASSUME TypeOK, Identities, Lifecycles, [Next]_vars
    PROVE  \/ \E a \in Agents, c \in Children, hooked \in Budgets, token \in Tokens : Admits(a, c, hooked, token)
           \/ \E a \in Agents, c \in Children : a # c /\ RollsBack(a, c)
           \/ \E a \in Agents, c \in Children, u \in Usages : Settles(a, c, u)
           \/ \E a \in Agents, cost \in Usages : cost["turns"] = 1 /\ Merges(a, cost)
           \/ LeavesAccounts /\ (view' = view \/ \E a \in Agents : view' = [view EXCEPT ![a] = used[a]["turns"]])
    <1>1. ASSUME NEW c \in Children,
                 AcceptSpawn(c) \/ Resolve(c, "output") \/ Resolve(c, "error") \/ Publish(c) \/ CloseChild(c)
          PROVE  LeavesAccounts /\ view' = view
        <2>1. CloseChild(c) => reservations' = reservations
            BY DEF CloseChild, Lifecycles
        <2> QED BY <1>1, <2>1 DEF AcceptSpawn, Resolve, Publish, CloseChild, LeavesAccounts, identity, ledger, loop
    <1>2. ASSUME NEW a \in Agents, BeginTurn(a)
          PROVE  LeavesAccounts /\ view' = [view EXCEPT ![a] = used[a]["turns"]]
        BY <1>2 DEF BeginTurn, LeavesAccounts, identity, ledger
    <1>3. CASE UNCHANGED vars
        BY <1>3 DEF vars, LeavesAccounts, identity, ledger, loop
    <1>4. Children \subseteq Agents
        BY DEF Agents
    <1>5. ASSUME NEW a \in Agents, NEW t \in TurnTokens, EndTurn(a, t) \/ (a \in Children /\ KillTurn(a, t))
          PROVE  \E cost \in Usages : cost["turns"] = 1 /\ Merges(a, cost)
        BY <1>5, TurnMerges
    <1>6. CASE Spawn
        BY <1>6, SpawnAdmits
    <1>7. ASSUME NEW c \in Children, RollbackSpawn(c) PROVE \E a \in Agents : a # c /\ RollsBack(a, c)
        BY <1>7, RollbackRollsBack
    <1>8. ASSUME NEW c \in Children, Settle(c) PROVE \E a \in Agents, u \in Usages : Settles(a, c, u)
        BY <1>8, SettleSettles
    <1> QED BY <1>1, <1>2, <1>3, <1>4, <1>5, <1>6, <1>7, <1>8 DEF Next, ChildStep, TurnStep

\* ViewsLag is preserved by every step: budgets of accepted agents only grow.
LEMMA ViewsStep == ASSUME TypeOK, Identities, Lifecycles, ViewsLag, [Next]_vars PROVE ViewsLag'
    <1> USE IdsAssumption
    <1>0. \A a \in Agents : /\ used[a] \in Budgets /\ own[a] \in Usages /\ view[a] \in Nat
                            /\ used[a]["turns"] \in Nat /\ own[a]["turns"] \in Nat /\ "turns" \in Metered
                            /\ own[a]["turns"] <= view[a] /\ view[a] <= used[a]["turns"]
        BY DEF TypeOK, ViewsLag, Budgets, Usages, Dims, Metered
    <1>1. ASSUME NEW a \in Agents, NEW c \in Children, NEW hooked \in Budgets, NEW token \in Tokens,
                 Admits(a, c, hooked, token)
          PROVE  ViewsLag'
        <2>1. /\ c \notin accepted /\ a # c /\ UNCHANGED <<view, own>>
              /\ used' = [used EXCEPT ![a] = WithSubAgents(used[a], used[a]["sub_agents"] + 1), ![c] = NoBudget]
            BY <1>1 DEF Admits
        <2>2. own[c] = NoUsage /\ view[c] = 0
            BY <2>1 DEF Lifecycles
        <2>3. used'[c] = NoBudget /\ used'[a] = WithSubAgents(used[a], used[a]["sub_agents"] + 1)
              /\ \A b \in Agents \ {a, c} : used'[b] = used[b]
            BY <2>1 DEF TypeOK, Agents
        <2>4. used'[a]["turns"] = used[a]["turns"]
            BY <1>0, <2>3 DEF WithSubAgents, Dims, Metered
        <2>5. used'[c]["turns"] = 0 /\ own[c]["turns"] = 0
            BY <2>2, <2>3 DEF NoBudget, NoUsage, Dims, Metered
        <2> QED BY <1>0, <2>1, <2>2, <2>3, <2>4, <2>5 DEF ViewsLag
    <1>2. ASSUME NEW a \in Agents, NEW c \in Children, RollsBack(a, c) PROVE ViewsLag'
        <2>1. /\ UNCHANGED <<view, own>> /\ \A b \in Agents \ {a} : used'[b] = used[b]
              /\ used'[a] = WithSubAgents(used[a], SaturatingSub(used[a]["sub_agents"], 1))
            BY <1>2 DEF RollsBack, TypeOK
        <2>2. used'[a]["turns"] = used[a]["turns"]
            BY <1>0, <2>1 DEF WithSubAgents, Dims, Metered
        <2> QED BY <1>0, <2>1, <2>2 DEF ViewsLag
    <1>3. ASSUME NEW a \in Agents, NEW c \in Children, NEW u \in Usages, Settles(a, c, u) PROVE ViewsLag'
        <2>1. /\ UNCHANGED <<view, own>> /\ (\A b \in Agents \ {a} : used'[b] = used[b])
              /\ used'[a] = AddUsage(used[a], u)
            BY <1>3 DEF Settles, TypeOK
        <2>2. used'[a]["turns"] = used[a]["turns"] + u["turns"] /\ u["turns"] \in Nat
            <3>1. used[a] \in Budgets /\ "turns" \in Metered
                BY <1>0
            <3>2. AddUsage(used[a], u)["turns"] = used[a]["turns"] + u["turns"] /\ u["turns"] \in Nat
                BY <3>1, AddedUsage
            <3> QED BY <2>1, <3>2
        <2>3. own[a]["turns"] <= view[a] /\ view[a] <= used'[a]["turns"]
            BY <1>0, <2>2
        <2> QED BY <1>0, <2>1, <2>3 DEF ViewsLag
    <1>4. ASSUME NEW a \in Agents, NEW cost \in Usages, cost["turns"] = 1, Merges(a, cost) PROVE ViewsLag'
        <2>1. /\ \A b \in Agents \ {a} : used'[b] = used[b] /\ view'[b] = view[b] /\ own'[b] = own[b]
              /\ used'[a] = AddUsage(used[a], cost) /\ view'[a] = AddUsage(used[a], cost)["turns"]
              /\ own'[a] = [m \in Metered |-> own[a][m] + cost[m]]
            BY <1>4 DEF Merges, TypeOK
        <2>2. used'[a]["turns"] = used[a]["turns"] + 1 /\ view'[a] = used[a]["turns"] + 1
            <3>1. used[a] \in Budgets /\ "turns" \in Metered
                BY <1>0
            <3>2. AddUsage(used[a], cost)["turns"] = used[a]["turns"] + cost["turns"]
                BY <3>1, AddedUsage
            <3> QED BY <1>4, <2>1, <3>2
        <2>3. own'[a]["turns"] = own[a]["turns"] + 1
            BY <1>0, <1>4, <2>1
        <2>4. own'[a]["turns"] <= view'[a] /\ view'[a] <= used'[a]["turns"]
            BY <1>0, <2>2, <2>3
        <2> QED BY <1>0, <2>1, <2>4 DEF ViewsLag
    <1>5. ASSUME LeavesAccounts, view' = view \/ \E a \in Agents : view' = [view EXCEPT ![a] = used[a]["turns"]]
          PROVE  ViewsLag'
        <2>1. \A b \in Agents : view'[b] = view[b] \/ view'[b] = used[b]["turns"]
            BY <1>5 DEF TypeOK
        <2>2. own' = own /\ used' = used
            BY <1>5 DEF LeavesAccounts
        <2> QED BY <1>0, <2>1, <2>2 DEF ViewsLag
    <1> QED BY <1>1, <1>2, <1>3, <1>4, <1>5, AccountSteps

\* The two equations of one account in one dimension.
Outstanding(a, m) == reserved[a][m] = Total([c \in Children |-> max[c][m]], ChildrenOf(a) \cap reservations)
Conserved(a, m) == used[a][m] = own[a][m] + Total([c \in Children |-> charged[c][m]], ChildrenOf(a))

\* The facts both equations start from.
LEMMA AccountFacts ==
    ASSUME TypeOK, Identities, NEW a \in Agents, NEW m \in Metered
    PROVE  /\ IsFiniteSet(ChildrenOf(a)) /\ IsFiniteSet(ChildrenOf(a) \cap reservations)
           /\ reserved[a][m] \in Nat /\ used[a][m] \in Nat /\ own[a][m] \in Nat
           /\ \A c \in Children : max[c][m] \in Nat /\ charged[c][m] \in Nat
           /\ ChildrenOf(a) \subseteq Children
    <1>1. IsFiniteSet(ChildrenOf(a))
        BY ChildrenFinite
    <1>2. IsFiniteSet(ChildrenOf(a) \cap reservations)
        BY <1>1, FS_Subset
    <1>3. \A c \in Children : max[c][m] \in Nat /\ charged[c][m] \in Nat
        BY DEF TypeOK, Budgets, Usages, Agents, Dims
    <1>4. reserved[a][m] \in Nat /\ used[a][m] \in Nat /\ own[a][m] \in Nat
        BY DEF TypeOK, Budgets, Usages, Dims
    <1> QED BY <1>1, <1>2, <1>3, <1>4 DEF ChildrenOf

\* An account stays right when its open children and their limits stay.
LEMMA OutstandingKept ==
    ASSUME NEW a, NEW m, Outstanding(a, m), reserved'[a][m] = reserved[a][m], NEW S, S \subseteq Children,
           S = ChildrenOf(a) \cap reservations, S = ChildrenOf(a)' \cap reservations',
           \A c \in S : max'[c][m] = max[c][m]
    PROVE  Outstanding(a, m)'
    <1>1. PICK f : f = [c \in Children |-> max[c][m]]
        OBVIOUS
    <1>2. PICK g : g = [c \in Children |-> max'[c][m]]
        OBVIOUS
    <1>3. Total(f, S) = Total(g, S)
        BY <1>1, <1>2, TotalSame
    <1>4. reserved[a][m] = Total(f, S)
        BY <1>1 DEF Outstanding
    <1>5. reserved'[a][m] = Total(g, S)
        BY <1>3, <1>4
    <1> QED BY <1>2, <1>5 DEF Outstanding, Total, Units

\* Releasing the reservation of an open child leaves that of the others.
LEMMA ReleaseOutstanding ==
    ASSUME TypeOK, Identities, NEW a \in Agents, NEW m \in Metered, Outstanding(a, m),
           NEW c \in ChildrenOf(a) \cap reservations, reserved' = [reserved EXCEPT ![a] = Release(c, a)],
           ChildrenOf(a)' \cap reservations' = (ChildrenOf(a) \cap reservations) \ {c},
           \A k \in Children \ {c} : max'[k] = max[k]
    PROVE  Outstanding(a, m)'
    <1>1. PICK f : f = [k \in Children |-> max[k][m]]
        OBVIOUS
    <1>2. PICK g : g = [k \in Children |-> max'[k][m]]
        OBVIOUS
    <1>3. PICK S : S = ChildrenOf(a) \cap reservations
        OBVIOUS
    <1>4. IsFiniteSet(S) /\ c \in S /\ S \subseteq Children /\ \A k \in S : f[k] \in Nat
        BY <1>1, <1>3, AccountFacts
    <1>5. Total(f, S) = Total(f, S \ {c}) + f[c] /\ Total(f, S \ {c}) \in Nat /\ f[c] \in Nat
        BY <1>4, TotalRemove
    <1>6. \A k \in S \ {c} : f[k] = g[k]
        BY <1>1, <1>2, <1>4
    <1>7. Total(f, S \ {c}) = Total(g, S \ {c})
        BY <1>6, TotalSame
    <1>8. reserved[a][m] = Total(f, S) /\ f[c] = max[c][m]
        BY <1>1, <1>3, <1>4 DEF Outstanding
    <1>9. reserved'[a][m] = SaturatingSub(reserved[a][m], max[c][m])
        BY DEF TypeOK, Release
    <1>10. reserved'[a][m] = Total(g, S \ {c})
        <2>1. PICK x, y : x = Total(f, S \ {c}) /\ y = f[c]
            OBVIOUS
        <2>2. x \in Nat /\ y \in Nat /\ reserved'[a][m] = SaturatingSub(x + y, y)
            BY <1>5, <1>8, <1>9, <2>1
        <2>3. SaturatingSub(x + y, y) = x
            BY <2>2 DEF SaturatingSub
        <2> QED BY <1>7, <2>1, <2>2, <2>3
    <1> QED BY <1>2, <1>3, <1>10 DEF Outstanding, Total, Units

\* Every step keeps what is reserved equal to what is outstanding.
LEMMA OutstandingStep ==
    ASSUME TypeOK, Identities, Lifecycles, ReservedMatchesOutstanding, [Next]_vars
    PROVE  ReservedMatchesOutstanding'
    <1> USE IdsAssumption
    <1>0. \A b \in Agents : \A m \in Metered : Outstanding(b, m)
        BY DEF ReservedMatchesOutstanding, Outstanding
    <1> SUFFICES ASSUME NEW b \in Agents, NEW m \in Metered PROVE Outstanding(b, m)'
        BY DEF ReservedMatchesOutstanding, Outstanding
    <1>p. PICK S : S = ChildrenOf(b) \cap reservations
        OBVIOUS
    <1>q. S \subseteq Children /\ IsFiniteSet(S) /\ reserved[b][m] \in Nat
        BY <1>p, AccountFacts
    <1>1. ASSUME NEW a \in Agents, NEW c \in Children, NEW hooked \in Budgets, NEW token \in Tokens,
                 Admits(a, c, hooked, token)
          PROVE  Outstanding(b, m)'
        <2>1. /\ c \notin accepted /\ a # c /\ c \notin Admitted
              /\ parent' = [parent EXCEPT ![c] = a] /\ max' = [max EXCEPT ![c] = hooked]
              /\ reserved' = [reserved EXCEPT ![a] = Reserve(hooked, a), ![c] = NoUsage]
              /\ reservations' = reservations \cup {c}
            BY <1>1 DEF Admits, Admitted
        <2>2. parent[c] = NoAgent /\ c \notin S /\ c \notin ChildrenOf(b)
            BY <1>p, <2>1 DEF Identities, ChildrenOf, Agents
        <2>3. ChildrenOf(b)' \cap reservations' = IF b = a THEN S \cup {c} ELSE S
            BY <1>p, <2>1, <2>2 DEF ChildrenOf, TypeOK
        <2>4. \A k \in S : max'[k] = max[k]
            BY <1>q, <2>1, <2>2 DEF TypeOK, Agents
        <2>5. CASE b = a
            <3>1. PICK f : f = [k \in Children |-> max[k][m]]
                OBVIOUS
            <3>2. PICK g : g = [k \in Children |-> max'[k][m]]
                OBVIOUS
            <3>3. \A k \in S : f[k] = g[k]
                BY <1>q, <2>4, <3>1, <3>2
            <3>4. Total(f, S) = Total(g, S)
                BY <3>3, TotalSame
            <3>5. g[c] = hooked[m] /\ hooked[m] \in Nat
                BY <2>1, <3>2 DEF TypeOK, Agents, Budgets, Dims
            <3>6. \A k \in S \cup {c} : g[k] \in Nat
                BY <1>q, <3>1, <3>3, <3>5, AccountFacts
            <3>7. Total(g, S \cup {c}) = Total(g, S) + g[c]
                BY <1>q, <2>2, <3>6, TotalAdd
            <3>8. reserved'[b][m] = reserved[b][m] + hooked[m]
                BY <2>1, <2>5 DEF TypeOK, Reserve
            <3>9. reserved[b][m] = Total(f, S)
                BY <1>0, <1>p, <3>1 DEF Outstanding
            <3>10. reserved'[b][m] = Total(g, S \cup {c})
                BY <3>4, <3>5, <3>7, <3>8, <3>9
            <3> QED BY <2>3, <2>5, <3>2, <3>10 DEF Outstanding, Total, Units
        <2>6. CASE b = c
            <3>1. S = {}
                BY <1>p, <2>1, <2>6, ChildrenFinite DEF Admitted
            <3>2. reserved'[b][m] = 0
                BY <2>1, <2>6 DEF TypeOK, NoUsage, Agents
            <3>3. ChildrenOf(b)' \cap reservations' = {}
                BY <2>1, <2>3, <2>6, <3>1
            <3>4. PICK g : g = [k \in Children |-> max'[k][m]]
                OBVIOUS
            <3>5. reserved'[b][m] = Total(g, {})
                BY <3>2, TotalEmpty
            <3> QED BY <3>3, <3>4, <3>5 DEF Outstanding, Total, Units
        <2>7. CASE b # a /\ b # c
            <3>1. reserved'[b][m] = reserved[b][m]
                BY <2>1, <2>7 DEF TypeOK
            <3>2. ChildrenOf(b)' \cap reservations' = S
                BY <2>3, <2>7
            <3> QED BY <1>0, <1>p, <1>q, <2>4, <3>1, <3>2, OutstandingKept
        <2> QED BY <2>5, <2>6, <2>7
    <1>2. ASSUME NEW a \in Agents, NEW c \in Children, a # c, RollsBack(a, c) PROVE Outstanding(b, m)'
        <2>1. /\ a = parent[c] /\ c \in reservations /\ reserved' = [reserved EXCEPT ![a] = Release(c, a)]
              /\ parent' = [parent EXCEPT ![c] = NoAgent] /\ max' = [max EXCEPT ![c] = NoBudget]
              /\ reservations' = reservations \ {c}
            BY <1>2 DEF RollsBack
        <2>2. ChildrenOf(b)' \cap reservations' = S \ {c}
            BY <1>p, <2>1 DEF ChildrenOf, TypeOK, Agents
        <2>3. \A k \in Children \ {c} : max'[k] = max[k]
            BY <2>1 DEF TypeOK, Agents
        <2>4. CASE b = a
            <3>1. c \in ChildrenOf(b) \cap reservations
                BY <2>1, <2>4 DEF ChildrenOf
            <3> QED BY <1>0, <1>p, <2>1, <2>2, <2>3, <2>4, <3>1, ReleaseOutstanding
        <2>5. CASE b # a
            <3>1. c \notin S /\ reserved'[b][m] = reserved[b][m]
                BY <1>p, <2>1, <2>5 DEF ChildrenOf, TypeOK
            <3>2. ChildrenOf(b)' \cap reservations' = S /\ \A k \in S : max'[k][m] = max[k][m]
                BY <1>q, <2>2, <2>3, <3>1
            <3> QED BY <1>0, <1>p, <1>q, <3>1, <3>2, OutstandingKept
        <2> QED BY <2>4, <2>5
    <1>3. ASSUME NEW a \in Agents, NEW c \in Children, NEW u \in Usages, Settles(a, c, u) PROVE Outstanding(b, m)'
        <2>1. /\ a = parent[c] /\ c \in reservations /\ reserved' = [reserved EXCEPT ![a] = Release(c, a)]
              /\ parent' = parent /\ max' = max /\ reservations' = reservations \ {c}
            BY <1>3 DEF Settles
        <2>2. ChildrenOf(b)' \cap reservations' = S \ {c}
            BY <1>p, <2>1 DEF ChildrenOf
        <2>3. CASE b = a
            <3>1. c \in ChildrenOf(b) \cap reservations
                BY <2>1, <2>3 DEF ChildrenOf
            <3> QED BY <1>0, <1>p, <2>1, <2>2, <2>3, <3>1, ReleaseOutstanding
        <2>4. CASE b # a
            <3>1. c \notin S /\ reserved'[b][m] = reserved[b][m]
                BY <1>p, <2>1, <2>4 DEF ChildrenOf, TypeOK
            <3>2. ChildrenOf(b)' \cap reservations' = S
                BY <2>2, <3>1
            <3> QED BY <1>0, <1>p, <1>q, <2>1, <3>1, <3>2, OutstandingKept
        <2> QED BY <2>3, <2>4
    <1>4. ASSUME UNCHANGED <<parent, max, reserved, reservations>> PROVE Outstanding(b, m)'
        <2>1. ChildrenOf(b)' \cap reservations' = S
            BY <1>4, <1>p DEF ChildrenOf
        <2> QED BY <1>0, <1>4, <1>p, <1>q, <2>1, OutstandingKept
    <1>5. ASSUME NEW a \in Agents, NEW cost \in Usages, Merges(a, cost) PROVE Outstanding(b, m)'
        BY <1>4, <1>5 DEF Merges
    <1>6. CASE LeavesAccounts
        BY <1>4, <1>6 DEF LeavesAccounts
    <1> QED BY <1>1, <1>2, <1>3, <1>5, <1>6, AccountSteps

\* An account stays right when its usage, its children and their charges stay.
LEMMA ConservedKept ==
    ASSUME NEW a, NEW m, Conserved(a, m), used'[a][m] = used[a][m], own'[a][m] = own[a][m],
           NEW S, S \subseteq Children, S = ChildrenOf(a), S = ChildrenOf(a)',
           \A c \in S : charged'[c][m] = charged[c][m]
    PROVE  Conserved(a, m)'
    <1>1. PICK f : f = [c \in Children |-> charged[c][m]]
        OBVIOUS
    <1>2. PICK g : g = [c \in Children |-> charged'[c][m]]
        OBVIOUS
    <1>3. Total(f, S) = Total(g, S)
        BY <1>1, <1>2, TotalSame
    <1>4. used[a][m] = own[a][m] + Total(f, S)
        BY <1>1 DEF Conserved
    <1>5. used'[a][m] = own'[a][m] + Total(g, S)
        BY <1>3, <1>4
    <1> QED BY <1>2, <1>5 DEF Conserved, Total, Units

\* A child without a charge may come or go.
LEMMA UnchargedMoves ==
    ASSUME TypeOK, Identities, NEW a \in Agents, NEW m \in Metered, NEW S, NEW c \in Children,
           S \subseteq Children, IsFiniteSet(S), charged[c] = NoUsage
    PROVE  /\ Total([k \in Children |-> charged[k][m]], S \cup {c}) = Total([k \in Children |-> charged[k][m]], S)
           /\ Total([k \in Children |-> charged[k][m]], S \ {c}) = Total([k \in Children |-> charged[k][m]], S)
    <1>1. PICK f : f = [k \in Children |-> charged[k][m]]
        OBVIOUS
    <1>2. f[c] = 0 /\ \A k \in Children : f[k] \in Nat
        BY <1>1, AccountFacts DEF NoUsage
    <1>3. CASE c \in S
        <2>1. Total(f, S) = Total(f, S \ {c}) + f[c] /\ Total(f, S \ {c}) \in Nat
            BY <1>2, <1>3, TotalRemove
        <2>2. S \cup {c} = S
            BY <1>3
        <2>3. Total(f, S) = Total(f, S \ {c})
            BY <1>2, <2>1
        <2> QED BY <1>1, <2>2, <2>3
    <1>4. CASE c \notin S
        <2>1. Total(f, S \cup {c}) = Total(f, S) + f[c] /\ Total(f, S) \in Nat
            BY <1>2, <1>4, TotalAdd, TotalNat
        <2>2. S \ {c} = S
            BY <1>4
        <2>3. Total(f, S \cup {c}) = Total(f, S)
            BY <1>2, <2>1
        <2> QED BY <1>1, <2>2, <2>3
    <1> QED BY <1>3, <1>4

\* Every step conserves usage: turns and settlements add to it, nothing else does.
LEMMA ConservedStep ==
    ASSUME TypeOK, Identities, Lifecycles, UsageConserved, [Next]_vars
    PROVE  UsageConserved'
    <1> USE IdsAssumption
    <1>0. \A b \in Agents : \A m \in Metered : Conserved(b, m)
        BY DEF UsageConserved, Conserved
    <1> SUFFICES ASSUME NEW b \in Agents, NEW m \in Metered PROVE Conserved(b, m)'
        BY DEF UsageConserved, Conserved
    <1>p. PICK S : S = ChildrenOf(b)
        OBVIOUS
    <1>q. S \subseteq Children /\ IsFiniteSet(S) /\ used[b][m] \in Nat /\ own[b][m] \in Nat
        BY <1>p, AccountFacts
    <1>f. PICK f : f = [k \in Children |-> charged[k][m]]
        OBVIOUS
    <1>t. Total(f, S) \in Nat /\ used[b][m] = own[b][m] + Total(f, S)
        <2>1. \A k \in S : f[k] \in Nat
            BY <1>f, <1>q, AccountFacts
        <2>2. Total(f, S) \in Nat
            BY <1>q, <2>1, TotalNat
        <2> QED BY <1>0, <1>f, <1>p, <2>2 DEF Conserved
    <1>1. ASSUME NEW a \in Agents, NEW c \in Children, NEW hooked \in Budgets, NEW token \in Tokens,
                 Admits(a, c, hooked, token)
          PROVE  Conserved(b, m)'
        <2>1. /\ c \notin accepted /\ a # c /\ parent' = [parent EXCEPT ![c] = a] /\ UNCHANGED <<own, charged>>
              /\ used' = [used EXCEPT ![a] = WithSubAgents(used[a], used[a]["sub_agents"] + 1), ![c] = NoBudget]
              /\ c \notin Admitted
            BY <1>1 DEF Admits, Admitted
        <2>2. charged[c] = NoUsage /\ own[c] = NoUsage
            BY <2>1 DEF Lifecycles
        <2>3. ChildrenOf(b)' = IF b = a THEN S \cup {c} ELSE S
            BY <1>p, <2>1 DEF ChildrenOf, TypeOK, Identities, Agents
        <2>4. Total(f, S \cup {c}) = Total(f, S)
            BY <1>f, <1>q, <2>2, UnchargedMoves
        <2>5. CASE b = a
            <3>1. used'[b][m] = WithSubAgents(used[b], used[b]["sub_agents"] + 1)[m] /\ used[b] \in Budgets
                BY <2>1, <2>5 DEF TypeOK
            <3>2. used'[b][m] = used[b][m]
                BY <3>1, SlotsApart
            <3>3. used'[b][m] = own'[b][m] + Total(f, S \cup {c}) /\ f = [k \in Children |-> charged'[k][m]]
                BY <1>f, <1>t, <2>1, <2>4, <3>2
            <3> QED BY <2>3, <2>5, <3>3 DEF Conserved, Total, Units
        <2>6. CASE b = c
            <3>1. S = {}
                BY <1>p, <2>1, <2>6, ChildrenFinite DEF Admitted
            <3>2. used'[b][m] = 0 /\ own'[b][m] = 0
                BY <2>1, <2>2, <2>6 DEF TypeOK, NoBudget, NoUsage, Dims, Agents
            <3>3. used'[b][m] = own'[b][m] + Total(f, {}) /\ f = [k \in Children |-> charged'[k][m]]
                BY <1>f, <2>1, <3>2, TotalEmpty
            <3>4. ChildrenOf(b)' = {}
                BY <2>1, <2>3, <2>6, <3>1
            <3> QED BY <3>3, <3>4 DEF Conserved, Total, Units
        <2>7. CASE b # a /\ b # c
            <3>1. used'[b][m] = used[b][m] /\ ChildrenOf(b)' = S
                BY <2>1, <2>3, <2>7 DEF TypeOK
            <3> QED BY <1>0, <1>p, <1>q, <2>1, <3>1, ConservedKept
        <2> QED BY <2>5, <2>6, <2>7
    <1>2. ASSUME NEW a \in Agents, NEW c \in Children, RollsBack(a, c) PROVE Conserved(b, m)'
        <2>1. /\ c \notin accepted /\ parent' = [parent EXCEPT ![c] = NoAgent] /\ UNCHANGED <<own, charged>>
              /\ used' = [used EXCEPT ![a] = WithSubAgents(used[a], SaturatingSub(used[a]["sub_agents"], 1))]
            BY <1>2 DEF RollsBack
        <2>2. charged[c] = NoUsage
            BY <2>1 DEF Lifecycles
        <2>3. ChildrenOf(b)' = S \ {c}
            BY <1>p, <2>1 DEF ChildrenOf, TypeOK, Agents
        <2>4. Total(f, S \ {c}) = Total(f, S)
            BY <1>f, <1>q, <2>2, UnchargedMoves
        <2>5. used'[b][m] = used[b][m]
            <3>1. b = a => used'[b][m] = WithSubAgents(used[b], SaturatingSub(used[b]["sub_agents"], 1))[m]
                BY <2>1 DEF TypeOK
            <3>2. b # a => used'[b] = used[b]
                BY <2>1 DEF TypeOK
            <3>3. used[b] \in Budgets
                BY DEF TypeOK
            <3> QED BY <3>1, <3>2, <3>3, SlotsApart
        <2>6. used'[b][m] = own'[b][m] + Total(f, S \ {c}) /\ f = [k \in Children |-> charged'[k][m]]
            BY <1>f, <1>t, <2>1, <2>4, <2>5
        <2> QED BY <2>3, <2>6 DEF Conserved, Total, Units
    <1>3. ASSUME NEW a \in Agents, NEW c \in Children, NEW u \in Usages, Settles(a, c, u) PROVE Conserved(b, m)'
        <2>1. /\ a = parent[c] /\ parent' = parent /\ own' = own
              /\ used' = [used EXCEPT ![a] = AddUsage(used[a], u)] /\ charged' = [charged EXCEPT ![c] = u]
              /\ task[c] \in {"output", "error"}
            BY <1>3 DEF Settles
        <2>2. charged[c] = NoUsage
            BY <2>1 DEF Lifecycles
        <2>3. ChildrenOf(b)' = S
            BY <1>p, <2>1 DEF ChildrenOf
        <2>4. CASE b = a
            <3>1. PICK g : g = [k \in Children |-> charged'[k][m]]
                OBVIOUS
            <3>2. f[c] = 0 /\ g[c] = u[m] /\ \A k \in S \ {c} : f[k] = g[k]
                BY <1>f, <1>q, <2>1, <2>2, <3>1 DEF NoUsage, TypeOK
            <3>3. u[m] \in Nat /\ \A k \in S : f[k] \in Nat /\ g[k] \in Nat
                BY <1>f, <1>q, <3>2, AccountFacts DEF Usages
            <3>4. c \in S
                BY <1>p, <2>1, <2>4 DEF ChildrenOf
            <3>5. Total(g, S) = Total(f, S) + g[c]
                BY <1>q, <3>2, <3>3, <3>4, TotalGain
            <3>6. used'[b][m] = AddUsage(used[b], u)[m] /\ used[b] \in Budgets
                BY <2>1, <2>4 DEF TypeOK
            <3>7. used'[b][m] = used[b][m] + u[m]
                BY <3>6, AddedUsage
            <3>8. used'[b][m] = own'[b][m] + Total(g, S)
                BY <1>q, <1>t, <2>1, <3>2, <3>3, <3>5, <3>7
            <3> QED BY <2>3, <3>1, <3>8 DEF Conserved, Total, Units
        <2>5. CASE b # a
            <3>1. used'[b][m] = used[b][m] /\ c \notin S
                BY <1>p, <2>1, <2>5 DEF TypeOK, ChildrenOf
            <3>2. \A k \in S : charged'[k][m] = charged[k][m]
                BY <1>q, <2>1, <3>1 DEF TypeOK
            <3> QED BY <1>0, <1>p, <1>q, <2>1, <2>3, <3>1, <3>2, ConservedKept
        <2> QED BY <2>4, <2>5
    <1>4. ASSUME NEW a \in Agents, NEW cost \in Usages, Merges(a, cost) PROVE Conserved(b, m)'
        <2>1. parent' = parent /\ charged' = charged
            BY <1>4 DEF Merges
        <2>2. ChildrenOf(b)' = S
            BY <1>p, <2>1 DEF ChildrenOf
        <2>3. CASE b = a
            <3>1. used'[b][m] = AddUsage(used[b], cost)[m] /\ used[b] \in Budgets /\ own'[b][m] = own[b][m] + cost[m]
                BY <1>4, <2>3 DEF Merges, TypeOK
            <3>2. used'[b][m] = used[b][m] + cost[m] /\ cost[m] \in Nat
                BY <3>1, AddedUsage
            <3>3. used'[b][m] = own'[b][m] + Total(f, S)
                BY <1>q, <1>t, <3>1, <3>2
            <3>4. f = [k \in Children |-> charged'[k][m]]
                BY <1>f, <2>1
            <3> QED BY <2>2, <3>3, <3>4 DEF Conserved, Total, Units
        <2>4. CASE b # a
            <3>1. used'[b][m] = used[b][m] /\ own'[b][m] = own[b][m]
                BY <1>4, <2>4 DEF Merges, TypeOK
            <3> QED BY <1>0, <1>p, <1>q, <2>1, <2>2, <3>1, ConservedKept
        <2> QED BY <2>3, <2>4
    <1>5. CASE LeavesAccounts
        <2>1. UNCHANGED <<parent, used, own, charged>>
            BY <1>5 DEF LeavesAccounts
        <2>2. ChildrenOf(b)' = S
            BY <1>p, <2>1 DEF ChildrenOf
        <2> QED BY <1>0, <1>p, <1>q, <2>1, <2>2, ConservedKept
    <1> QED BY <1>1, <1>2, <1>3, <1>4, <1>5, AccountSteps

\* The accounts are right before the first spawn.
LEMMA AccountsInit == Init => AccountsInv
    <1> SUFFICES ASSUME Init PROVE AccountsInv
        OBVIOUS
    <1>1. Lifecycles
        BY DEF Init, Lifecycles, Agents, NoUsage
    <1>2. ViewsLag
        BY DEF Init, ViewsLag, NoUsage, NoBudget, Metered, Dims
    <1>3. ASSUME NEW a \in Agents, NEW m \in Metered PROVE Outstanding(a, m) /\ Conserved(a, m)
        <2>1. ChildrenOf(a) = {} /\ ChildrenOf(a) \cap reservations = {}
            BY IdsAssumption DEF Init, ChildrenOf
        <2>2. reserved[a][m] = 0 /\ used[a][m] = 0 /\ own[a][m] = 0
            BY DEF Init, NoUsage, NoBudget, Dims
        <2> QED BY <2>1, <2>2, TotalEmpty DEF Outstanding, Conserved
    <1> QED BY <1>1, <1>2, <1>3 DEF AccountsInv, ReservedMatchesOutstanding, UsageConserved, Outstanding, Conserved

\* Lifecycles, the lag of the copies and both sums hold in every reachable state.
THEOREM AccountsInvariant == Spec => []AccountsInv
    <1>1. IInv /\ AccountsInv /\ [Next]_vars => AccountsInv'
        BY LifecyclesStep, ViewsStep, OutstandingStep, ConservedStep DEF IInv, AccountsInv
    <1> QED BY <1>1, AccountsInit, Invariant, PTL DEF Spec

\* Whatever tree of agents spawns, settles, rolls back and closes, an account
\* holds reserved exactly what its unsettled children may still spend.
THEOREM OutstandingCorrect == Spec => []ReservedMatchesOutstanding
    <1>1. AccountsInv => ReservedMatchesOutstanding
        BY DEF AccountsInv
    <1> QED BY <1>1, AccountsInvariant, PTL

\* However turns and settlements race, a budget shows its agent's own turns and
\* each child's charge once.
THEOREM UsageCorrect == Spec => []UsageConserved
    <1>1. AccountsInv => UsageConserved
        BY DEF AccountsInv
    <1> QED BY <1>1, AccountsInvariant, PTL

\* The step property behind ChargeBracketsUsage.
Brackets ==
    \A c \in Children :
        task[c] = "output" /\ task'[c] = "settled" => charged'[c]["turns"] \in own[c]["turns"] .. used[c]["turns"]

\* Every step has it: the copy a loop reports from is between the two.
LEMMA StepBrackets == ASSUME IInv, AccountsInv, [Next]_vars PROVE Brackets
    <1> SUFFICES ASSUME NEW c \in Children, task[c] = "output", task'[c] = "settled"
                 PROVE  charged'[c]["turns"] \in own[c]["turns"] .. used[c]["turns"]
        BY DEF Brackets
    <1>1. Settle(c)
        <2>1. ASSUME NEW k \in Children, ChildStep(k), ~Settle(k) PROVE task'[c] # "settled"
            BY <2>1 DEF ChildStep, AcceptSpawn, RollbackSpawn, Resolve, Publish, CloseChild, KillTurn, IInv, TypeOK
        <2>2. ASSUME NEW k \in Children, Settle(k), k # c PROVE task'[c] = task[c]
            BY <2>2 DEF Settle, IInv, TypeOK
        <2>3. ASSUME NEW a \in Agents, TurnStep(a) PROVE task' = task
            BY <2>3 DEF TurnStep, BeginTurn, EndTurn
        <2>4. Spawn => task' = task
            BY DEF Spawn, ReserveSpawn
        <2>5. UNCHANGED vars => task' = task
            BY DEF vars
        <2> QED BY <2>1, <2>2, <2>3, <2>4, <2>5 DEF Next
    <1>2. PICK a \in Agents, u \in Usages : Settles(a, c, u)
        BY <1>1, SettleSettles DEF IInv, AccountsInv
    <1>3. charged'[c] = u /\ u = Reported(c)
        BY <1>2 DEF Settles, IInv, TypeOK
    <1>4. charged'[c]["turns"] = view[c]
        BY <1>3 DEF Reported
    <1>5. c \in Agents
        BY DEF Agents
    <1>6. view[c] \in Nat /\ own[c]["turns"] \in Nat /\ used[c]["turns"] \in Nat
        BY <1>5 DEF IInv, TypeOK, Usages, Budgets, Metered, Dims
    <1>7. own[c]["turns"] <= view[c] /\ view[c] <= used[c]["turns"]
        BY <1>5 DEF AccountsInv, ViewsLag
    <1> QED BY <1>4, <1>6, <1>7

\* A child that ends with an output costs its parent between its own turns and
\* what its shared budget shows, however stale the loop's copy is.
THEOREM ChargeCorrect == Spec => ChargeBracketsUsage
    <1>1. IInv /\ AccountsInv /\ [Next]_vars => [Brackets]_vars
        BY StepBrackets
    <1> QED BY <1>1, Invariant, AccountsInvariant, PTL DEF Spec, ChargeBracketsUsage, Brackets
=============================================================================
