--------------------------------- MODULE Fees ---------------------------------
(***************************************************************************)
(* The fee engine.  It selects at most one package for a send, and applies *)
(* the package's fees in their order: a fee is split over the accounts     *)
(* that pay it in proportion to their amounts, the division is truncated,  *)
(* and what it leaves over goes to the largest payer.  A deductible fee is *)
(* carved out of the destinations; another is added to the sources, to the *)
(* destinations and to the value.  The send built from the result must     *)
(* pass the validation again.                                              *)
(***************************************************************************)
EXTENDS SendDistribution

CONSTANTS
    Packages,   \* records of fees, in the order of their priority, and waived accounts
    Scopes,     \* sets of packages by scope: route, segment, min and max amount
    Precision   \* a proportion is a multiple of 1 / Precision

ASSUME FeesAssumption ==
    /\ Precision \in Nat \ {0}
    /\ \A p \in Packages : IsFiniteSet(p.waived) /\ \A i \in DOMAIN p.fees : p.fees[i].flat \in Nat

-----------------------------------------------------------------------------
(* The package *)

None == [error |-> "none", package |-> {}]

\* The range is checked again by the caller, also after the early returns.
InRange(p, amount) == p.min <= amount /\ amount <= p.max

\* A seeded fault for TLC: a lone package for the route is taken whatever its
\* segment.
FindLoneRoute(packages, route, segment, amount) ==
    LET byRoute == {p \in packages : p.route = route}
        bySegment == {p \in byRoute : p.segment = segment}
        found == IF Cardinality(byRoute) = 1 THEN byRoute
                 ELSE IF Cardinality(bySegment) = 1 THEN bySegment
                 ELSE {p \in bySegment : InRange(p, amount)}
    IN  IF Cardinality(found) > 1 THEN [None EXCEPT !.error = "more than one"]
        ELSE [None EXCEPT !.package = {p \in found : InRange(p, amount)}]

\* Route "" and segment "" are absent ones.
FindPackageToCalculateFee(packages, route, segment, amount) ==
    LET byRoute == {p \in packages : p.route = route}
        bySegment == {p \in byRoute : p.segment = segment}
        found == IF Cardinality(byRoute) = 1 /\ \A p \in byRoute : p.segment = "" THEN byRoute
                 ELSE IF Cardinality(bySegment) = 1 THEN bySegment
                 ELSE {p \in bySegment : InRange(p, amount)}
    IN  IF Cardinality(found) > 1 THEN [None EXCEPT !.error = "more than one"]
        ELSE [None EXCEPT !.package = {p \in found : InRange(p, amount)}]

-----------------------------------------------------------------------------
(* One fee.  A leg's key is a sequence that starts with its account; the     *)
(* decorations after it tell the legs of one account apart.                  *)

DebitLeg(i, key) == key \o <<"fee", i>>
CreditLeg(fee, i, key) == <<fee.credit, "fee_source", i>> \o key

Percentual(fee, value) == (value * fee.percent) \div 100

\* The amount, on the value before or after the earlier fees.
FeeValue(fee, s) ==
    LET value == IF fee.afterFees THEN s.value ELSE s.original IN
    CASE fee.rule = "flatFee" -> fee.flat
      [] fee.rule = "percentual" -> Percentual(fee, value)
      [] fee.rule = "maxBetweenTypes" -> Max({fee.flat, Percentual(fee, value)})

\* Exemption looks at the bare account, so the fee legs of a payer pay later
\* fees, and those of a waived account do not.
Payers(side, waived) == {key \in DOMAIN side : key[1] \notin waived}

\* Go's map order decides among equals.
FindMaxAccount(side, payers) ==
    IF payers = {} THEN {<<>>} ELSE {k \in payers : \A j \in payers : side[k] >= side[j]}

\* Amount / total, rounded half up, times the fee.
CalculateProportionalFees(side, payers, value) ==
    LET total == SumFunctionOnSet(side, payers)
        percent(k) == (2 * side[k] * Precision + total) \div (2 * total)
    IN  [k \in payers |-> (value * percent(k)) \div Precision]

\* A seeded fault for TLC: the residual is left undistributed.
LeaveResidual(legs, value, max) == legs

\* The residual goes to the leg of the largest payer.
ApplyFeeCorrection(legs, value, max) ==
    IF max \notin DOMAIN legs THEN legs
    ELSE [legs EXCEPT ![max] = @ + value - SumFunction(legs)]

\* From, To and value after fee i, given the payer that takes the residual.
ApplyFee(s, fee, i, max) ==
    LET value == FeeValue(fee, s)
        side == IF fee.deductible THEN s.To ELSE s.From
        payers == Payers(side, s.waived)
        shares == CalculateProportionalFees(side, payers, value)
        legs == ApplyFeeCorrection(shares, value, max)
        credits == [key \in {CreditLeg(fee, i, k) : k \in payers} |->
                      legs[CHOOSE k \in payers : key = CreditLeg(fee, i, k)]]
        debits == [key \in {DebitLeg(i, k) : k \in payers} |->
                     legs[CHOOSE k \in payers : key = DebitLeg(i, k)]]
        after == [s EXCEPT !.waived = @ \cup {fee.credit}]
    IN
    IF s.error # "none" THEN s
    ELSE IF Payers(s.From, s.waived) = {} \/ SumFunctionOnSet(side, payers) = 0 THEN after
    ELSE IF ~fee.deductible THEN
        [after EXCEPT !.From = @ @@ debits, !.To = @ @@ credits,
                      !.value = @ + value, !.charged = @ + value]
    ELSE IF \E k \in payers : shares[k] >= s.To[k] THEN [s EXCEPT !.error = "exceeds"]
    ELSE [after EXCEPT !.To = [k \in DOMAIN @ |-> IF k \in payers THEN @[k] - legs[k] ELSE @[k]] @@ credits,
                       !.charged = @ + value]

\* All fees: the states the map orders can lead to.
CalculateFee(package, response, value) ==
    LET start == [From |-> response.From, To |-> response.To, value |-> value, original |-> value,
                  waived |-> package.waived, charged |-> 0, error |-> "none"]
        side(s, fee) == IF fee.deductible THEN s.To ELSE s.From
        apply(S, i) ==
            LET fee == package.fees[i] IN
            UNION {{ApplyFee(s, fee, i, max) :
                      max \in FindMaxAccount(side(s, fee), Payers(side(s, fee), s.waived))} : s \in S}
    IN  FoldLeft(apply, {start}, [i \in DOMAIN package.fees |-> i])

\* The entries rebuilt from the legs, in map order; only account and amount
\* survive.
UpdatedAmountsFromFee(legs) ==
    LET keys == FoldSet(LAMBDA key, seq : Append(seq, key), <<>>, DOMAIN legs) IN
    [i \in DOMAIN keys |-> OfAmount(keys[i][1], "default", legs[keys[i]])]

FeeInclusive(s) ==
    [value |-> s.value, from |-> UpdatedAmountsFromFee(s.From), to |-> UpdatedAmountsFromFee(s.To)]

-----------------------------------------------------------------------------
(* Properties *)

\* The sends whose accounts the engine can tell apart: its maps have one leg
\* per account and side.
Distinct(side) == IsInjective([i \in DOMAIN side |-> side[i].account])
FeeSends ==
    {s \in Sends : /\ ~HasRemaining(s) /\ Distinct(s.from) /\ Distinct(s.to)
                   /\ ValidateSendSourceAndDistribute(s).error = "none"}

IsFeeLeg(key) == Len(key) > 1 /\ key[2] = "fee_source"

ChooseFees == \E s \in FeeSends, p \in Packages : input' = [of |-> "fees", send |-> s, package |-> p]

\* Whatever the fees, their order, the waived accounts and the order of Go's
\* maps: a send the engine does not refuse is balanced again, so that the
\* second validation never finds a mismatch, and the credited legs come to
\* exactly the fees charged.
FeesConserve ==
    input.of = "fees" =>
      \A out \in CalculateFee(input.package, ValidateSendSourceAndDistribute(input.send), input.send.value) :
        out.error = "none" =>
          /\ SumFunctionOnSet(out.To, {k \in DOMAIN out.To : IsFeeLeg(k)}) = out.charged
          /\ \A k \in DOMAIN out.From : out.From[k] >= 0
          /\ ValidateSendSourceAndDistribute(Concat(FeeInclusive(out))).error # "mismatch"

ChooseScopes == \E packages \in Scopes : input' = [of |-> "scopes", packages |-> packages]

\* A package is applied only where its route, its segment and its range all
\* match, and a send without a segment gets the one package that matches it,
\* whatever other packages the ledger has.
PackageScopeIsRespected ==
    input.of = "scopes" =>
    \A route \in {"", "r"}, segment \in {"", "s"}, amount \in {0, 1, 2} :
      LET out == FindPackageToCalculateFee(input.packages, route, segment, amount)
          matching == {p \in input.packages : p.route = route /\ p.segment \in {"", segment} /\ InRange(p, amount)}
      IN  /\ out.package \subseteq matching
          /\ out.error = "more than one" => Cardinality(matching) > 1
          /\ segment = "" => out = IF Cardinality(matching) > 1 THEN [None EXCEPT !.error = "more than one"]
                                   ELSE [None EXCEPT !.package = matching]
=============================================================================
