--------------------------------- MODULE Advice ---------------------------------
(***************************************************************************)
(* The advice a household can ask the service for, besides the loan        *)
(* simulation and the reports: whether it may take a product, a savings    *)
(* portfolio, whether it can buy a home, the months of a plan on one axis, *)
(* and the trades of a district. They keep no state of each other's: they  *)
(* share the rule packs and the diagnosis of the cash flow. A request is   *)
(* served alone.                                                           *)
(***************************************************************************)
EXTENDS Eligibility, SavingsPortfolio, PropertyAffordability, Lifecycle, RegionTrades

adviceVars == <<eligibilityVars, savingsVars, homeVars, lifeVars, tradeVars>>

AdviceInit == EligibilityInit /\ SavingsInit /\ HomeInit /\ LifeInit /\ TradesInit

NoQuestion == question = None /\ UNCHANGED eligibilityVars
NoSavings == savingsPhase = "idle" /\ UNCHANGED savingsVars
NoHome == homePhase = "idle" /\ UNCHANGED homeVars
NoLife == stage = "idle" /\ UNCHANGED lifeVars
NoTrades == tradePhase = "closed" /\ UNCHANGED tradeVars

ServeQuestion == NoSavings /\ NoHome /\ NoLife /\ NoTrades /\ EligibilityNext
ServeSavings == NoQuestion /\ NoHome /\ NoLife /\ NoTrades /\ SavingsNext
ServeHome == NoQuestion /\ NoSavings /\ NoLife /\ NoTrades /\ HomeNext
ServeLife == NoQuestion /\ NoSavings /\ NoHome /\ NoTrades /\ LifeNext
ServeTrades == NoQuestion /\ NoSavings /\ NoHome /\ NoLife /\ TradesNext

AdviceNext == ServeQuestion \/ ServeSavings \/ ServeHome \/ ServeLife \/ ServeTrades

\* What the service does on its own once it was asked: each request is a plain
\* call that runs to its end.
Working ==
    \/ NoQuestion /\ NoHome /\ NoLife /\ NoTrades /\ SavingsStep
    \/ NoQuestion /\ NoSavings /\ NoLife /\ NoTrades /\ HomeStep
    \/ NoQuestion /\ NoSavings /\ NoHome /\ NoTrades /\ LifeStep

AdviceSafety == AdviceInit /\ [][AdviceNext]_adviceVars
AdviceSpec == AdviceSafety /\ WF_adviceVars(Working)

AdviceTypeOK ==
    EligibilityTypeOK /\ SavingsTypeOK /\ HomeTypeOK /\ LifeTypeOK /\ TradesTypeOK

\* Every request is settled: the loop that drops refused options ends, because
\* each round drops one (_build_and_revalidate); a home gets its verdict, each time
\* it is asked for; the tables of a plan end (repayment_schedule).
RequestsSettle ==
    /\ savingsPhase = "reading" ~> savingsPhase \in {"blocked", "raised", "delivered"}
    /\ homePhase = "costing" ~> homePhase \in {"judged", "unavailable"}
    /\ stage = "saving" ~> stage = "drawn"
===============================================================================
