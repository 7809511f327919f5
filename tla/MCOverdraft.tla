----------------------------- MODULE MCOverdraft -----------------------------
(* Small instances of Overdraft: account a may be overdrawn, c may not, and  *)
(* e is external.  Beside them, the sends, fee packages, decimals and routes  *)
(* on which the steps around the script of a request are evaluated.           *)
EXTENDS Overdraft, Fees, DecimalStrings, AccountingRoutes

CONSTANTS a, c, e, x1, x2, x3, x4

\* The steps are evaluated in the first state.
MCInit == Init /\ input = NoInput

Evaluate ==
    /\ Init /\ UNCHANGED vars
    /\ ChooseSend \/ ChooseFees \/ ChooseScopes \/ ChooseDecimals \/ ChooseRoutes

MCNext == input = NoInput /\ (Evaluate \/ (Next /\ UNCHANGED input))

MCSpec == MCInit /\ [][MCNext]_<<vars, input>>

MCFunds == [n \in Accounts |-> IF n = e THEN 0 ELSE 1]

\* Overdraft disabled, which the row accepts up to a usage of one.
MCNewSettings == {[AllowOverdraft |-> FALSE, OverdraftLimit |-> 1]}

\* A debit and two holds that overdraw a, and a credit that repays it.
MCFrom == [t \in Transactions |-> IF t = x4 THEN e ELSE a]
MCTo == [t \in Transactions |-> IF t = x4 THEN a ELSE c]
MCAmount == [t \in Transactions |-> IF t = x3 THEN 1 ELSE 2]

\* A debit that overdraws a, and a hold whose destination is a.
BackFrom == [t \in Transactions |-> IF t = x1 THEN a ELSE c]
BackTo == [t \in Transactions |-> IF t = x1 THEN c ELSE a]

-----------------------------------------------------------------------------
(* Sends of 60000 units: every side of one or two entries (and two of three)  *)
(* against two plain ones.  The account "b" may be on both sides, and "a" is   *)
(* named with two balances.                                                    *)

MCEntries ==
    UNION {{OfAmount(p[1], p[2], v) : v \in {20000, 30000, 60000, 70000}}
           \cup {OfShare(p[1], p[2], s) : s \in {<<50, 0>>, <<50, 50>>, <<75, 100>>, <<100, 0>>}}
           \cup {OfRemaining(p[1], p[2])}
           : p \in {<<"a", "default">>, <<"a", "x">>, <<"b", "default">>}}

MCThree(middle, last) == <<OfAmount("a", "default", 20000), middle, last>>

MCSides ==
    {<<n>> : n \in MCEntries} \cup MCEntries \X MCEntries
    \cup {MCThree(OfRemaining("b", "default"), OfAmount("d", "default", 10000)),
          MCThree(OfAmount("b", "default", 10000), OfRemaining("d", "default")),
          MCThree(OfAmount("b", "default", 10000), OfShare("d", "default", <<50, 0>>))}

MCPlainFrom == {<<OfAmount("a", "default", 60000)>>,
                <<OfAmount("b", "default", 20000), OfAmount("a", "default", 40000)>>}
MCPlainTo == {<<OfAmount("c", "default", 60000)>>,
              <<OfAmount("b", "default", 20000), OfAmount("c", "default", 40000)>>}

MCSends ==
    LET send(f, t) == [value |-> 60000, from |-> f, to |-> t]
    IN  {send(f, t) : f \in MCSides, t \in MCPlainTo} \cup {send(f, t) : f \in MCPlainFrom, t \in MCSides \cup MCPlainTo}

(* A flat fee, and the larger of a flat fee and a percentage that exceeds it   *)
(* only after another fee; credited to a destination or to a third account.    *)
MCFees ==
    [rule : {"flatFee"}, flat : {1000}, percent : {0}, afterFees : {FALSE},
     deductible : BOOLEAN, credit : {"c", "k"}]
    \cup [rule : {"maxBetweenTypes"}, flat : {6050}, percent : {10}, afterFees : BOOLEAN,
          deductible : BOOLEAN, credit : {"c", "k"}]
    \cup [rule : {"percentual"}, flat : {0}, percent : {100}, afterFees : {FALSE},
          deductible : BOOLEAN, credit : {"k"}]

MCPackages ==
    [fees : {<<f>> : f \in MCFees} \cup MCFees \X MCFees, waived : {{}, {"a"}, {"c"}}]

MCScopes ==
    LET scoped == [route : {"", "r"}, segment : {"", "s"}, min : {0}, max : {1, 2}]
                  \cup [route : {"r"}, segment : {"", "t"}, min : {2}, max : {2}]
    IN  UNION {kSubset(n, scoped) : n \in 0..3}

(* Decimals of up to two digits on either side of the point, where carries     *)
(* and borrows run, and end, in every place, and integer parts gain and lose a  *)
(* digit.                                                                      *)
MCOperands == {0, 1, 5, 9, 10, 50, 99, 100, 101, 109, 110, 190, 500, 899, 900, 909, 990, 999,
               1000, 1001, 1010, 1099, 1900, 5000, 9000, 9001, 9099, 9899, 9990, 9999}

(* Operation routes: the sides of direct, hold, commit, cancel, revert,        *)
(* overdraft, block and unblock, about half of them as the rules want them.    *)
MCNumber == [direct |-> 1, hold |-> 2, commit |-> 3, cancel |-> 4,
             revert |-> 5, overdraft |-> 6, block |-> 7, unblock |-> 8]

MCShapes ==
    LET o == {}
        d == {"debit"}
        k == {"credit"}
        b == Sides
    IN  {<<d, o, o, o, o, o, o, o>>, <<k, o, o, o, o, o, o, o>>, <<b, o, o, o, o, b, o, o>>,
         <<b, b, b, b, o, o, o, o>>, <<d, b, d, b, o, b, o, o>>, <<k, o, k, o, o, o, o, o>>,
         <<k, o, k, o, o, b, k, o>>, <<b, b, b, o, o, b, o, o>>, <<d, b, b, d, o, b, o, o>>,
         <<b, b, b, b, b, b, b, o>>, <<b, o, o, o, b, o, o, b>>, <<d, b, d, b, o, o, d, o>>,
         <<o, o, o, o, o, o, d, o>>, <<b, o, b, o, o, d, o, o>>, <<d, o, o, o, o, o, o, d>>}

MCRoute(type, shape, accounts) ==
    [type |-> type, entries |-> [action \in Actions |-> shape[MCNumber[action]]], accounts |-> accounts]

MCCandidates ==
    {MCRoute(type, s, LegAccounts) : type \in RouteTypes, s \in MCShapes}
    \cup {MCRoute(type, s, {"a"}) : type \in {"source", "bidirectional"},
                                     s \in {t \in MCShapes : \A n \in 5..8 : t[n] = {}}}
=============================================================================
