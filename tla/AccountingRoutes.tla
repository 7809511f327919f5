-------------------------- MODULE AccountingRoutes --------------------------
(***************************************************************************)
(* Accounting routes: the rules an operation route is created under, the   *)
(* gate every transaction of a ledger with validateRoutes passes, and the  *)
(* rubric (the chart-of-accounts code) each operation record is given.     *)
(*                                                                         *)
(* A route stands for its own id.  entries[action] holds the sides that    *)
(* have a rubric, {} where the action has no entry; accounts holds the     *)
(* accounts its alias or account-type rule admits.  A transaction route is *)
(* a set of operation routes.                                              *)
(***************************************************************************)
EXTENDS Integers, FiniteSets, Evaluation

CONSTANTS
    Candidates,     \* the operation routes a client may submit
    LegAccounts     \* the accounts a leg may name

Actions == {"direct", "hold", "commit", "cancel", "revert", "overdraft", "block", "unblock"}
Sides == {"debit", "credit"}
RouteTypes == {"source", "destination", "bidirectional"}

\* A leg without routeId: no route of the cache.
Unset == [type |-> "none", entries |-> [action \in Actions |-> {}], accounts |-> {}]
-----------------------------------------------------------------------------
(* The configuration *)

Has(r, action) == r.entries[action] # {}

GetFieldRequirements(type, action) ==
    IF action = "overdraft" \/ type = "bidirectional" THEN Sides
    ELSE IF action \notin {"direct", "commit", "block", "unblock"} THEN Sides
    ELSE IF type = "source" THEN {"debit"} ELSE {"credit"}

DirectionScenarioMatrix(r) ==
    /\ r.type # "bidirectional" => ~Has(r, "revert")
    /\ r.type = "destination" => ~Has(r, "hold") /\ ~Has(r, "cancel")

\* Seeded fault: one side is enough for any entry.
EntryFieldRequirements_Any(r) == TRUE

EntryFieldRequirements(r) ==
    \A action \in Actions :
        Has(r, action) => GetFieldRequirements(r.type, action) \subseteq r.entries[action]

\* Seeded fault: a hold only needs its commit.
ReserveGroupAtomicity_NoCancel(r) ==
    r.type # "destination" => (Has(r, "hold") <=> Has(r, "commit"))

ReserveGroupAtomicity(r) ==
    r.type # "destination" =>
        (Has(r, "hold") <=> Has(r, "commit")) /\ (Has(r, "hold") <=> Has(r, "cancel"))

DirectMandatory(r) ==
    (\E action \in {"hold", "commit", "cancel", "revert", "overdraft"} : Has(r, action))
        => Has(r, "direct")

\* validateAccountingRulesMatrix
AccountingRulesMatrix(r) ==
    /\ DirectionScenarioMatrix(r) /\ EntryFieldRequirements(r)
    /\ ReserveGroupAtomicity(r) /\ DirectMandatory(r)

\* validateOperationRouteTypes: a transaction route needs both sides.
OperationRouteTypes(rs) ==
    \A type \in {"source", "destination"} : \E r \in rs : r.type \in {type, "bidirectional"}

\* ToCache: the routes of a transaction route that have the action.
Cached(rs, action) == {r \in rs : Has(r, action)}

OfType(rs, type) == {r \in rs : r.type = type}
-----------------------------------------------------------------------------
(* Transactions: a leg has its side, its route, its account, and whether the  *)
(* overdraft enrichment added a companion operation for it.  An operation is  *)
(* registered on a side, under a route.                                       *)

Op(leg, type, direction) ==
    [leg |-> leg, side |-> leg.side, route |-> leg.route, type |-> type, direction |-> direction,
     companion |-> FALSE]

\* DetermineOperation, PropagateRouteValidation and SplitDoubleEntryOps.
LegOperations(leg, action) ==
    IF leg.side = "to" THEN {Op(leg, "CREDIT", "credit")}
    ELSE CASE action = "hold" -> {Op(leg, "DEBIT", "debit"), Op(leg, "ON_HOLD", "credit")}
           [] action = "commit" -> {Op(leg, "ON_HOLD", "debit")}
           [] action = "cancel" -> {Op(leg, "RELEASE", "debit"), Op(leg, "CREDIT", "credit")}
           [] OTHER -> {Op(leg, "DEBIT", "debit")}

\* enrichOverdraftOperations: usage of a source, repayment otherwise; the companion
\* takes side and route of its leg.  A commit has none.  A cancel that does not know
\* what the hold used treats the credit of its source as a refund, and looks the route
\* up among the destinations, where the source has none.
CompanionOperation(leg, action, known) ==
    LET refund == action = "cancel" /\ leg.side = "from" /\ ~known
    IN  [leg |-> leg, side |-> IF refund THEN "to" ELSE leg.side,
         route |-> IF refund THEN Unset ELSE leg.route, type |-> "OVERDRAFT",
         direction |-> IF leg.side = "to" \/ action = "cancel" THEN "credit" ELSE "debit",
         companion |-> TRUE]

Operations(legs, action, known) ==
    UNION {LegOperations(leg, action) : leg \in legs}
    \cup {CompanionOperation(leg, action, known) : leg \in {x \in legs : x.companion /\ action # "commit"}}

OnSide(legs, side) == {leg \in legs : leg.side = side}

\* uniqueValues; a leg without a route has no entry in the map.
RoutesOf(legs) == {leg.route : leg \in legs} \ {Unset}
-----------------------------------------------------------------------------
(* The gate *)

\* resolveActionRoutes: a hold takes its destinations from commit.
ResolveActionRoutes(rs, action) ==
    [type \in RouteTypes |->
        IF type = "destination" /\ action = "hold" /\ Cached(rs, "commit") # {}
        THEN OfType(Cached(rs, "commit"), type)
        ELSE OfType(Cached(rs, action), type)]

AllRoutes(routes) == UNION {routes[type] : type \in RouteTypes}

\* The bidirectional routes used on both sides.
Shared(routes, legs) ==
    RoutesOf(OnSide(legs, "from")) \cap RoutesOf(OnSide(legs, "to")) \cap routes["bidirectional"]

\* validateRouteCountAndCounterparts, the counts.
RouteCount(routes, legs) ==
    LET from == Cardinality(RoutesOf(OnSide(legs, "from")))
        to == Cardinality(RoutesOf(OnSide(legs, "to")))
        source == Cardinality(routes["source"])
        destination == Cardinality(routes["destination"])
    IN  /\ from + to - Cardinality(Shared(routes, legs))
             = source + destination + Cardinality(routes["bidirectional"])
        /\ from >= source /\ to >= destination

\* validateCounterparts
Counterparts(routes, legs, ops) ==
    \A r \in Shared(routes, legs), direction \in Sides :
        \E o \in ops : o.route = r /\ o.direction = direction

\* validateDirectionRouteMatch, with its exemptions.
DirectionRouteMatch(o, r, action) ==
    \/ o.companion \/ o.type \in {"ON_HOLD", "RELEASE"} \/ action = "cancel"
    \/ r.type = "source" /\ o.direction = "debit"
    \/ r.type = "destination" /\ o.direction = "credit"
    \/ r.type = "bidirectional"

\* validateAccountRules; a cancel looks at the sources only.
AccountRules(routes, ops, action) ==
    \A o \in {x \in ops : action # "cancel" \/ x.side = "from"} :
        LET r == o.route
            type == IF o.side = "from" THEN "source" ELSE "destination"
        IN  /\ r \in routes[type] \cup routes["bidirectional"]
            /\ DirectionRouteMatch(o, r, action)
            /\ o.leg.account \in r.accounts

\* overdraftRubricConfigured
OverdraftRubricConfigured(rs, o) ==
    o.route \in Cached(rs, "overdraft") /\ o.direction \in o.route.entries["overdraft"]

\* ValidateAccountingRules
ValidateAccountingRules(rs, legs, action, known) ==
    LET routes == ResolveActionRoutes(rs, action)
        ops == Operations(legs, action, known)
    IN  /\ Cached(rs, action) # {}
        /\ action # "cancel" => RouteCount(routes, legs) /\ Counterparts(routes, legs, ops)
        /\ AccountRules(routes, ops, action)
        /\ \A o \in ops : o.companion => OverdraftRubricConfigured(rs, o)
-----------------------------------------------------------------------------
(* The records *)

\* resolveRouteCodesFromCache: companions use the overdraft entry, BLOCK and
\* UNBLOCK their own where the route has it, and the base action otherwise.
ResolvedAction(rs, o, action, override) ==
    IF o.companion THEN "overdraft"
    ELSE IF override \in Actions /\ o.route \in Cached(rs, action) /\ Has(o.route, override)
    THEN override ELSE action

Coded(rs, o, action, override) ==
    LET resolved == ResolvedAction(rs, o, action, override)
    IN  o.route \in Cached(rs, resolved) /\ o.direction \in o.route.entries[resolved]

\* The operations that move a balance: a hold and a cancel leave the
\* destination alone, unless they repay its overdraft.
RecordedOperations(legs, action, known) ==
    {o \in Operations(legs, action, known) : o.leg.side = "from" \/ o.companion \/ action \notin {"hold", "cancel"}}
-----------------------------------------------------------------------------
(* Properties *)

Accepted == {r \in Candidates : AccountingRulesMatrix(r)}

Configurations ==
    {rs \in {{q, r, s} : q, r, s \in Accepted} : OperationRouteTypes(rs)}

Leg(side, n, route, account, companion) ==
    [side |-> side, n |-> n, route |-> route, account |-> account, companion |-> companion]

\* One leg on each side, and a second one on either.
LegSets(rs) ==
    LET any == CHOOSE a \in LegAccounts : TRUE
        from == {Leg("from", 1, r, a, k) : r \in rs, a \in LegAccounts, k \in BOOLEAN}
                \cup {Leg("from", 1, Unset, any, FALSE)}
        to == {Leg("to", 1, r, any, k) : r \in rs, k \in BOOLEAN} \cup {Leg("to", 1, Unset, any, FALSE)}
        more == {Leg(side, 2, r, any, FALSE) : side \in {"from", "to"}, r \in rs}
    IN  {{f, t} : f \in from, t \in to} \cup {{f, t, m} : f \in from, t \in to, m \in more}

Overrides(action) == IF action = "direct" THEN {"none", "block", "unblock"} ELSE {"none"}

ChooseRoutes == \E rs \in Configurations : input' = [of |-> "routes", routes |-> rs]

\* Whether a cancel has the hold's operations, hence what it used; nothing else asks.
Known(action) == IF action = "cancel" THEN BOOLEAN ELSE {TRUE}

\* A transaction the gate accepts uses exactly the routes configured for its
\* action, and every operation record it writes gets a rubric: the rules of
\* the configuration, of the gate and of the record lookup agree.
AcceptedIsClassified ==
    input.of = "routes" =>
      LET rs == input.routes IN
      \A legs \in LegSets(rs), action \in {"direct", "hold", "commit", "cancel", "revert"} :
        \A known \in Known(action) :
          ValidateAccountingRules(rs, legs, action, known) =>
            /\ action # "cancel" => RoutesOf(legs) = AllRoutes(ResolveActionRoutes(rs, action))
            /\ \A o \in RecordedOperations(legs, action, known), override \in Overrides(action) :
                 Coded(rs, o, action, override)

\* A hold the gate lets in can be settled: under the same routes ValidateAccountingRules
\* accepts its commit, and its cancel as long as that reverses what the hold is known to
\* have used.  A cancel that repays a source's overdraft any other way is always refused.
HoldsCanBeSettled ==
    input.of = "routes" =>
      \A legs \in LegSets(input.routes) :
        ValidateAccountingRules(input.routes, legs, "hold", TRUE) =>
          /\ ValidateAccountingRules(input.routes, legs, "commit", TRUE)
          /\ \A known \in BOOLEAN :
               (known \/ \A leg \in OnSide(legs, "from") : ~leg.companion)
               => ValidateAccountingRules(input.routes, legs, "cancel", known)
=============================================================================
