------------------------------- MODULE Cashflow -------------------------------
(***************************************************************************)
(* engines/cashflow and services/cashflow_diagnosis.py: what a household   *)
(* can save. The safety buffer and the emergency fund come first, what is  *)
(* left is for housing. A reserve that is not known leaves the share of    *)
(* housing unknown, not zero.                                              *)
(*                                                                         *)
(* The risk index only decides how many months of expenses the fund is to  *)
(* cover; months \in EmergencyMonths stands for it. The amounts of a run   *)
(* are such that the instalments of the fund are whole.                    *)
(***************************************************************************)
EXTENDS Money

CONSTANTS EmergencyMonths,              \* emergency_months: base to base + extra
          BuildMonths,                  \* default_emergency_build_months
          BufferFloor, BufferShare      \* cashflow_buffer: floor, and 1 / ratio

ASSUME CashflowAssumption ==
    /\ EmergencyMonths \subseteq Nat /\ BuildMonths \in Nat \ {0}
    /\ BufferFloor \in Nat /\ BufferShare \in Nat \ {0}

\* FinancialSnapshot; the reserve is a part of the liquid assets. The public
\* contract has no histories and no planned or irregular expenses.
Snapshot ==
    {s \in [income : Nat, expense : Nat, debt : Nat, liquid : Nat,
            reserve : Nat \cup {None}] :
        s.reserve = None \/ s.reserve <= s.liquid}

\* safe_monthly_surplus
Surplus(s) == s.income - s.expense - s.debt

\* engines/safety.py: cashflow_buffer
Buffer(s) == Larger(BufferFloor, s.expense \div BufferShare)

Condition(s) ==
    IF Surplus(s) < 0 THEN "DEFICIT"
    ELSE IF Surplus(s) < Buffer(s) THEN "BUFFER_SHORTFALL" ELSE "SURPLUS"

\* available_before_emergency
Available(s) == Larger(0, Surplus(s) - Buffer(s))

\* emergency_fund_target
Target(s, months) == s.expense * months

\* emergency_fund_shortfall
Shortfall(s, months) == Larger(0, Target(s, months) - s.reserve)

Contribution(s, months) == Smaller(Shortfall(s, months) \div BuildMonths, Available(s))

\* _effective_build_months: rounded up; without a contribution, never.
EffectiveBuildMonths(shortfall, monthly) ==
    IF shortfall = 0 THEN 0
    ELSE IF monthly = 0 THEN None ELSE (shortfall + monthly - 1) \div monthly

\* Fault: the instalment of the fund is not taken off.
DiagnosedBeforeFund(s, months) ==
    [condition |-> Condition(s), usable |-> Larger(0, s.liquid - Target(s, months)),
     contribution |-> IF s.reserve = None THEN None ELSE Contribution(s, months),
     buildMonths |-> IF s.reserve = None THEN None
                     ELSE EffectiveBuildMonths(Shortfall(s, months), Contribution(s, months)),
     housing |-> IF s.reserve = None THEN None ELSE Available(s)]

\* calculate_cashflow as diagnose_financial_snapshot calls it.
Diagnosed(s, months) ==
    [condition |-> Condition(s), usable |-> Larger(0, s.liquid - Target(s, months)),
     contribution |-> IF s.reserve = None THEN None ELSE Contribution(s, months),
     buildMonths |-> IF s.reserve = None THEN None
                     ELSE EffectiveBuildMonths(Shortfall(s, months), Contribution(s, months)),
     housing |-> IF s.reserve = None THEN None
                 ELSE Larger(0, Available(s) - Contribution(s, months))]

CashflowResult ==
    [condition : {"DEFICIT", "BUFFER_SHORTFALL", "SURPLUS"}, usable : Nat,
     contribution : Nat \cup {None}, buildMonths : Nat \cup {None},
     housing : Nat \cup {None}]
===============================================================================
