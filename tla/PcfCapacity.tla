------------------------------ MODULE PcfCapacity ------------------------------
(***************************************************************************)
(* What the creation list (PCF) of one ETF says, how many whole baskets it  *)
(* lets through, and which changes between two lists are worth an event.    *)
(* A list is a record                                                       *)
(*    open        creation is allowed                                       *)
(*    unit        shares in one basket                                      *)
(*    cum, net    market limits of a day in shares, cumulative and net      *)
(*    acum, anet  the same for one account                                  *)
(* where 0 stands for an absent number: the parsers keep positive ones only.*)
(***************************************************************************)
EXTENDS Integers

Absent == -1

PcfLists == [open : BOOLEAN, unit : Nat, cum : Nat, net : Nat, acum : Nat, anet : Nat]

BindingKind(cum, net) ==
    CASE cum = 0 /\ net = 0 -> "NONE"
      [] cum > 0 /\ cum = net -> "BOTH"
      [] cum > 0 /\ (net = 0 \/ cum < net) -> "CUMULATIVE"
      [] OTHER -> "NET"

BindingLimit(cum, net) ==
    CASE cum = 0 -> net
      [] net = 0 -> cum
      [] OTHER -> IF cum < net THEN cum ELSE net

Baskets(cum, net, unit) ==
    IF BindingLimit(cum, net) = 0 \/ unit = 0 THEN Absent
    ELSE BindingLimit(cum, net) \div unit

TotalBaskets(l)   == Baskets(l.cum, l.net, l.unit)
AccountBaskets(l) == Baskets(l.acum, l.anet, l.unit)

MinimumAccounts(l) ==
    IF TotalBaskets(l) <= 0 \/ AccountBaskets(l) <= 0 THEN Absent
    ELSE (TotalBaskets(l) + AccountBaskets(l) - 1) \div AccountBaskets(l)

MarketKind(l)  == BindingKind(l.cum, l.net)
AccountKind(l) == BindingKind(l.acum, l.anet)

-----------------------------------------------------------------------------
Both(a, b) == a # Absent /\ b # Absent

CapacityJump(p, c) ==
    /\ MarketKind(p) = MarketKind(c)
    /\ Both(TotalBaskets(p), TotalBaskets(c))
    /\ TotalBaskets(c) - TotalBaskets(p) >= 10
    /\ TotalBaskets(p) = 0 \/ TotalBaskets(c) >= 2 * TotalBaskets(p)

AccountTightened(p, c) ==
    /\ AccountKind(p) = AccountKind(c)
    /\ Both(AccountBaskets(p), AccountBaskets(c))
    /\ AccountBaskets(c) < AccountBaskets(p) /\ AccountBaskets(c) <= 1

MoreAccounts(p, c) ==
    /\ AccountKind(p) = AccountKind(c) /\ MarketKind(p) = MarketKind(c)
    /\ ~AccountTightened(p, c)
    /\ Both(MinimumAccounts(p), MinimumAccounts(c))
    /\ MinimumAccounts(c) > MinimumAccounts(p)

EventTypes == {"CREATION_RESUMED", "CAPACITY_RULE_CHANGED", "TOTAL_CAPACITY_JUMP",
               "ACCOUNT_CAP_RULE_CHANGED", "ACCOUNT_LIMIT_IMPROVED",
               "ACCOUNT_DISTRIBUTION_IMPROVED", "CREATION_UNIT_REDUCED",
               "CREATION_SUSPENDED"}

Detected(type, p, c) ==
    CASE type = "CREATION_RESUMED"         -> ~p.open /\ c.open
      [] type = "CREATION_SUSPENDED"       -> p.open /\ ~c.open
      [] type = "CAPACITY_RULE_CHANGED"    -> MarketKind(p) # MarketKind(c)
      [] type = "ACCOUNT_CAP_RULE_CHANGED" -> AccountKind(p) # AccountKind(c)
      [] type = "TOTAL_CAPACITY_JUMP"      -> CapacityJump(p, c)
      [] type = "ACCOUNT_LIMIT_IMPROVED"   -> AccountTightened(p, c)
      [] type = "ACCOUNT_DISTRIBUTION_IMPROVED" -> MoreAccounts(p, c)
      [] type = "CREATION_UNIT_REDUCED"    -> c.unit > 0 /\ c.unit < p.unit

\* The events between the list p of a fund, and a later one c.
DetectEvents(p, c) == {type \in EventTypes : Detected(type, p, c)}
=============================================================================
