--------------------------- MODULE SendDistribution ---------------------------
(***************************************************************************)
(* How the amounts of a transaction are resolved: every source and         *)
(* destination entry names an explicit amount, a share of the send value,  *)
(* or what remains, and the send is rejected unless both sides come to its *)
(* value.  A request validates a send more than once: on the input, after  *)
(* the fees, and again when a pending transaction is committed, always on  *)
(* the entries the previous validation may have written to.                *)
(***************************************************************************)
EXTENDS Integers, FiniteSets, FiniteSetsExt, Functions, SequencesExt, TLC, Evaluation

CONSTANT Sends  \* records of value, from and to; the sides are sequences of entries

\* An entry names a balance and exactly one of the three.  Amount 0 is a nil
\* amount, percentage 0 a nil share; alias is the bare account until
\* MutateConcatAliases puts position and balance key into it.
Entry(account, key) ==
    [account |-> account, key |-> key, alias |-> <<account>>,
     amount |-> 0, share |-> <<0, 0>>, remaining |-> FALSE]
OfAmount(account, key, amount) == [Entry(account, key) EXCEPT !.amount = amount]
OfShare(account, key, share) == [Entry(account, key) EXCEPT !.share = share]
OfRemaining(account, key) == [Entry(account, key) EXCEPT !.remaining = TRUE]

ASSUME SendsAssumption ==
    \A s \in Sends : s.value \in Nat \ {0} /\ s.from # <<>> /\ s.to # <<>>

ConcatAlias(i, e) == <<i - 1, e.account, e.key>>

MutateConcatAliases(side) == [i \in DOMAIN side |-> [side[i] EXCEPT !.alias = ConcatAlias(i, side[i])]]

Concat(send) == [send EXCEPT !.from = MutateConcatAliases(@), !.to = MutateConcatAliases(@)]

\* A seeded fault for TLC: a percentage of the percentage is ignored.
FirstPart(e, value) == (value * e.share[1]) \div 100

\* Percentage, of a percentage that is 100 where it is zero.
ShareValue(e, value) ==
    (value * e.share[1] * (IF e.share[2] = 0 THEN 100 ELSE e.share[2])) \div 10000

\* One side: the amount of each alias, their total, and the entries with what
\* remains written into them.  The code stores a pointer to the running
\* remainder, so such an entry ends up with the remainder after all entries.
CalculateTotal(side, value) ==
    LET put(s, e, v) == [s EXCEPT !.fmto = (e.alias :> v) @@ @, !.total = @ + v]
        take(s, e, v) == [put(s, e, v) EXCEPT !.remaining = @ - v]
        shared(s, e) == IF e.share[1] # 0 THEN take(s, e, ShareValue(e, value)) ELSE s
        explicit(s, e) == IF e.amount > 0 THEN take(s, e, e.amount) ELSE s
        rest(s, e) == IF e.remaining THEN put(s, e, s.remaining) ELSE s
        out == FoldLeft(LAMBDA s, e : rest(explicit(shared(s, e), e), e),
                        [fmto |-> <<>>, total |-> 0, remaining |-> value], side)
    IN  [fmto |-> out.fmto, total |-> out.total,
         side |-> [i \in DOMAIN side |->
                     IF side[i].remaining THEN [side[i] EXCEPT !.amount = out.remaining] ELSE side[i]]]

\* An account must not be source and destination at the same position, and
\* both sides must come to the value.
ValidateSendSourceAndDistribute(send) ==
    LET f == CalculateTotal(send.from, send.value)
        t == CalculateTotal(send.to, send.value)
        ambiguous(side, fmto) == \E i \in DOMAIN side : ConcatAlias(i, side[i]) \in DOMAIN fmto
    IN  [error |-> IF ambiguous(send.from, t.fmto) \/ ambiguous(send.to, f.fmto) THEN "ambiguous"
                   ELSE IF f.total # t.total \/ t.total # send.value THEN "mismatch"
                   ELSE "none",
         From |-> f.fmto, To |-> t.fmto,
         send |-> [send EXCEPT !.from = f.side, !.to = t.side]]

-----------------------------------------------------------------------------
(* Properties *)

\* What an entry asks for, by the three rules.
Asked(side, i, value) ==
    LET own(e) == IF e.share[1] = 0 THEN e.amount
                  ELSE IF e.share[2] = 0 THEN (value * e.share[1]) \div 100
                  ELSE (value * e.share[1] * e.share[2]) \div 10000
        others == {j \in DOMAIN side : ~side[j].remaining}
    IN  IF ~side[i].remaining THEN own(side[i])
        ELSE value - MapThenSumSet(LAMBDA j : own(side[j]), others)

Resolved(fmto, side, asked) ==
    /\ \A i \in DOMAIN side :
         asked[i] = IF ConcatAlias(i, side[i]) \in DOMAIN fmto THEN fmto[ConcatAlias(i, side[i])] ELSE 0
    /\ DOMAIN fmto \subseteq {ConcatAlias(i, side[i]) : i \in DOMAIN side}

ResolvedAsAsked(response, send) ==
    LET asked(side) == [i \in DOMAIN side |-> Asked(side, i, send.value)] IN
    response.error = "none" =>
      /\ Resolved(response.From, send.from, asked(send.from))
      /\ Resolved(response.To, send.to, asked(send.to))
      /\ SumFunction(response.From) = send.value /\ SumFunction(response.To) = send.value

HasRemaining(send) == \E i \in DOMAIN send.from : send.from[i].remaining
                      \/ \E j \in DOMAIN send.to : send.to[j].remaining

ChooseSend == \E s \in Sends : input' = [of |-> "send", send |-> s]

\* An accepted send moves on either side exactly its value, and every entry
\* what it asked for, also when one account is named twice: in a single
\* validation, and, unless an entry asks for what remains, in the validation
\* after the fees and in that of the commit, which must agree with the hold.
SendsResolveAsAsked ==
    input.of = "send" =>
      LET s == input.send
          first == ValidateSendSourceAndDistribute(s)
          second == ValidateSendSourceAndDistribute(Concat(first.send))
          commit == ValidateSendSourceAndDistribute(second.send)
      IN  /\ ResolvedAsAsked(ValidateSendSourceAndDistribute(Concat(s)), s)
          /\ first.error = "none" /\ ~HasRemaining(s) =>
               /\ ResolvedAsAsked(second, s)
               /\ commit.error = second.error /\ commit.From = second.From /\ commit.To = second.To
=============================================================================
