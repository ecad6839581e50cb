# A verification of housing-finance-core

TLA+ models of the service under `src/app`, model-checked with TLC and, for the
safety properties, proved with TLAPS for every value of the constants.
`PROJECT.json` lists components, runs, mutants, findings, hazards and theorems,
and maps every definition to the lines it models.

## 1. What the system does

A client posts financial facts and a housing goal. The service calculates what
can be saved and borrowed, recommends a plan, stresses it, compares "buy now"
with "save until the target date", and can turn the result into a PDF report
whose prose is written and judged by a language model. Every calculation is
deterministic and three-valued: what is not known is UNKNOWN or missing, never
zero and never a refusal. Nothing is shared between requests except the report
archive on disk, its database index and cached settings.

    POST /simulations --> run_simulation
                            |- savings portfolio ----------.
                            |- loan limit per option --.    |
                            |    `- loan combination   |    |
                            |- recommendation  <-------'----'
                            |- stress test, term plans <- recommendation
                            |- housing scenarios
                            `- strategy comparison <- recommendation, stress
    POST /reports    --> run_simulation, report pipeline (guard, writer, machine
                         gate, judge, composition), report archive
    GET /reports/{id}.pdf --> report archive
    POST /properties/affordability --> purchase costs, cash flow, region and its
                         limits, loan combination, verdict (per listing)
    GET /properties/trades --> region trades (name, count, rows of a page)

The rule packs decide which products any of these may offer.

## 2. Inventory

| component | state | operations | hard behaviour | correct when |
|---|---|---|---|---|
| report archive (`services/report_archive.py`, `reports/storage.py`, `api/routes/reports.py`) | body and record files, index row | render, store body, store record, index, read back, serve | crash or failure between any two file operations; damaged disk | a number is one document; records have bodies; published stays readable |
| report pipeline (`reports/ai_explanation`) | draft, gate outcome, verdicts, notes of one report | guard, generate, gate, judge, compose | an external model that fails, times out, truncates, invents | only text that passed both gates ships; a blocked payload is never sent; every report ends |
| loan limit (`services/loan_simulation.py`, `engines/loan/formulas.py`, `data_pipeline/adapters/loan_engine_adapter.py`) | routing of the options, two bisections, terms | route, adapt, shorten terms, search amounts | limits computed before terms change; a common term of all options; brackets | offers can be served, are nearly the largest, lose nothing to shorter terms |
| loan combination (`engines/loan/combination.py`) | budgets, legs, four outcome classes, shortlist | gate, floors, fill, conclude, rank | budgets shared by legs; assumed credit regime checked afterwards; dedup and cut | budgets hold; no subset is lost; the status tells the best plan |
| orchestrator (`services/simulation_orchestrator.py`) | the sections of one result | run or skip every section, name what is missing | a section's result is the next one's input; None and zero; mid-way errors | sections stand on each other; what was left out for want of a loan input is named |
| recommendation (`engines/recommendation`, `services/recommendation.py`) | — | rank, gate savings, combine statuses | unverified plans carry amounts | unverified savings never count |
| stress and term plans (`engines/stress`, `services/stress_simulation.py`, `services/term_plans.py`) | the bracket of a bisection | stress, judge, stretch the term | three-valued verdict in a bisection; which of two terms | no shock is a relief; the term is the shortest that passes |
| strategy comparison (`engines/strategy`, `services/strategy_comparison.py`, `services/housing_scenarios.py`) | — | judge, score, compare | money from four sections added up | judged purchases are funded by what was computed |
| savings portfolio (`engines/savings`, `services/savings_portfolio.py`) | budgets, candidates still active, the portfolio, what was removed | resolve budget, route through the rules, fill every subset, rank, check again, drop and repeat | rules see the whole budget first and the real amount last; shared budgets and protection limit; a loop | what is delivered was checked as it stands; nothing simpler would earn more; the loop ends |
| cash flow (`engines/cashflow`) | — | diagnose one snapshot | shares taken off one surplus in an order; unknown reserve | what others may spend never contains the reserve |
| purchase costs, affordability (`engines/purchase_costs`, `engines/affordability`, `services/property_affordability*.py`) | costs, loan, limit, verdict, what is missing | estimate, find out what is missing, look for a loan, judge; the user supplies facts | costs that are not known; the region's limits on the day; a catalog that fails | never affordable on an unknown; learning never makes a home cheaper; limits are lawful |
| lifecycle (`engines/lifecycle`, `reports/lifecycle_view.py`) | month, balances, points of the curve | save a month, buy, repay a month | instalments rounded one by one, loans of different lengths, a thinned chart | a loan is repaid in full, the curve ends at zero |
| regulations (`regulations/`, `data_pipeline/curated`) | dated tables | look up by place and day | a list that is older than the day asked for | never looser than the law of that day |
| rule engine (`rule_engine/product_packs`) | registry of packs | evaluate one product on what is known | three-valued conditions, predicates with several facts | an answer that was given stands |
| region trades (`services/region_trade.py`) | none of its own; the list a user is reading | name, count, rows; next page | pages are requests of their own while trades come and go; ties | who reads to the last page has seen every trade |
| existing debt, catalogs, HTTP surface, report templates, data generators | files, cached pool | formulas, reads, validation, rendering | — | not part of the core logic |

The behaviours that make this system hard are few: real concurrency and crashes
exist only in the archive; unreliable delivery only around the language model;
changes under a reader only in the list of trades; everywhere else the hazards
are sequential (budgets shared by several actors of
one search, values that go stale when a later step changes what they were
computed from, brackets of bisections, and the difference between nothing,
zero, refused and unknown at every border between two stages). `PROJECT.json`
lists each at its line.

## 3. Modules

| module | models | state and actions |
|---|---|---|
| `DocumentArchive` | the promise of the archive | documents published, delivered, damaged per number |
| `ReportArchive` | the archive, one action per file operation | `body`, `record`, `row` are what is on disk and in the table; `pc`, `job`, `seen`, `reply` one request thread; `published`, `delivered`, `damaged` are history. `Promise == INSTANCE DocumentArchive` is the refinement |
| `ReportPipeline` | one report through both agents | `draft`, `machineOk`, `verdict`, `final`, `notes` as in the code; `sent`, `said` are history |
| `LoanCombination` | the combination search | one attempt is `todo`, `amounts`, `remaining`, `binding` (`_allocate`); `feasible`, `blocked`, `unresolved`, `infeasible` the four lists; `TakeOnePerSize`, `SetAside`, `Try`, `Floor`, `Fill`, `Conclude`, `Rank` are the steps |
| `LoanLimit` | limits and terms of the options | `passed`, `rejected`, `unresolved`: routing; `search`: the running bisection; `BeginTerm`, `HalveTerm`, `EndTerm`, `Shorten`, `BeginAmount`, `HalveAmount`, `EndAmount` |
| `Recommendation`, `Stress`, `Strategy` | operators: ranking and statuses; stress input and verdicts; judgements | none |
| `Simulation` | `run_simulation`, composing the three | one variable per section, `stage` the section whose turn it is, `search` the bisection of `term_plans.py`, `missing` the gaps that are named |
| `ProductRules`, `ProductPredicates`, `ProductPacks` | operators: conditions, predicates and the 23 rule packs; the registry; the bounds of an amount | none |
| `Eligibility` | one product asked for again and again, with facts that become known in any order | `facts`, `eligible`; `AskProduct`, `LearnFact` |
| `Settling` | the promise of `Eligibility`: an answer may stay open, and once given it stands | `answer` |
| `Cashflow` | operators: the diagnosis of a snapshot | none |
| `SavingsPortfolio` | one savings request | `budgets`, `active`, `portfolio`, `removed` as in `_build_and_revalidate`; `BlockSavings`, `ResolveBudget`, `RouteSavings`, `BuildPortfolio`, `DeliverPortfolio`, `DropRejected`; `PackMissing` where an error escapes |
| `Regulations`, `PurchaseCosts` | operators: region, zone, ratios, caps; the six costs | none |
| `PropertyAffordability` | the assessment of one home and the answers the user gives to what was missing | `homeCosts`, `ltvLimit`, `homeLoan`, `homeGaps`, `verdict`; `EstimateCosts`, `GoWithoutLoan`, `LimitUnknown`, `Combine`, `Judge`, `SupplyCostFact`, `SupplyLoanProfile` |
| `Lifecycle` | a plan drawn month by month | `balances`, `repaid`, `curve`; `SaveMonth`, `Buy`, `RepayMonth` |
| `RegionTrades` | a list of trades read page by page while trades are loaded and cancelled | `valid` is the view in the database, `page`, `total`, `shown` what the user has; one action per statement |
| `Advice` | the five request kinds above as one service; each request is served alone, as they share no state | |
| `MC*` | the instances for TLC | |
| `FiniteSums` | nothing of the code: lemmas about sums, least elements and tables filled step by step, for the proofs | |
| `ReportArchive_proofs`, `ReportPipeline_proofs`, `LoanCombination_proofs`, `LoanLimit_proofs`, `Simulation_proofs` | theorems and proofs of the module of that name | |
| `Products_proofs` | theorems about `Eligibility` and `SavingsPortfolio`, which both rest on the rule packs | |
| `Advice_proofs` | theorems about `Lifecycle`, `PropertyAffordability`, `RegionTrades` and `Advice` | |

`Simulation` takes the answers of `LoanLimit` and of the savings portfolio as
the constants `LoanResults` and `SavingsOutcomes`. What it assumes of a loan
result (`MayResult`) is proved of `LoanLimit` (`ResultsAreAdmissible`): amounts below what is required,
terms not above the requested one. It does not assume one common term, as
`LoanLimit` shows that there may be none. `PropertyAffordability` takes from the
loan combination any result its invariants allow (`CombinationResults`): never
more than is needed, a mortgage never above the limit.

Two abstract specifications are implemented by detailed ones, with `INSTANCE
... WITH` as the refinement mapping: `DocumentArchive` by `ReportArchive`
(`Implements`) and `Settling` by `Eligibility` (`AnswersStand`); both are checked
by TLC and proved.

Operators whose comment begins with "Fault:" are mutated forms of the
definition after them: a bug of the kind that code invites. No specification
uses them; each property has a mutant in `PROJECT.json` that TLC must find.

Abstractions common to all modules: amounts are whole numbers of the unit the
code rounds to, `Payment` (the annuity formula) is any function monotone in
rate, term and principal, a document or a text is a model value, and SHA-256 is
injective.

## 4. Runs and bounds

| run | question | instance, and why it is enough |
|---|---|---|
| `archive` | what happens to a number when callers of the store race, fail and die anywhere? | one number, two threads, two months, two documents: numbers share no file, so one shows all of them; two threads can already disagree on document and month (both routes draw a fresh uuid4 for every POST, so that two requests do not meet on one number: the race is one the store is built to withstand, `storage.py:77`, not one the service runs into); failures, restarts and damage are unbounded |
| `archive_torn` | is a number whose record failed half-way "not found"? (violated) | one of everything |
| `report_pipeline` | what reaches the user, whatever the model answers? | two sections, and two texts one of which only one section may carry: sections are judged independently except for the conjunction |
| `report_pipeline_raise` | is a failed generation ever an exception? (violated) | same |
| `loan_combination` | do shared budgets, statuses and classes hold in the whole search? | three legs (the code's maximum) of three kinds; budgets for which each constraint binds in turn, negative room, unknown credit balance, all gate answers; `TopN` 2 cuts the list |
| `loan_combination_status` | does INFEASIBLE mean that something was computed? (violated) | same |
| `loan_limit` | are the amounts and terms the bisections find right? | two options, six months, amounts to 12, `Epsilon` 2: both bisections take several steps, terms are shortened to different months, all limits bind, are absent or unknown |
| `loan_limit_terms` | have all executable options one term? (violated) | same |
| `simulation` | do the sections stand on each other? | calls with every combination of absent inputs, and complete calls over scenarios that are survived, need a longer term, or survive none; eight loan results and six savings outcomes cover every status; a six-month bisection takes two halvings |
| `simulation_raise` | does an unsettled input ever end in an error? (violated) | same |
| `simulation_capacity` | was a capacity of zero ever calculated? (violated) | same |
| `advice` | does each of the other requests keep its promise, to its end? | see below |

The instance of `advice` has, for each kind of request:

- questions about each of the 23 packs with the values at and on either side of
  every bound of its conditions, learned in every order;
- savings requests over up to three of the five products of seven options, given and
  derived budgets, room for deposits protected in full and nearly used up, days
  before, within and after the validity of the packs: routes that are blocked,
  rejected, dropped once and dropped to nothing occur;
- homes in four places (regulated, regulated but listed without a code,
  designated after the list was made, never designated), prices on both sides of
  the tax and loan brackets, households with less than, exactly and more than
  the emergency fund, every missing fact and every answer to it;
- loans of 0 to 200 won over one to four months at three rates, of all three
  kinds, alone and beside a second one of another length: small amounts make the
  rounding errors as large, relative to the loan, as they can get;
- five trades with ties in area and price, pages of two, one trade that may be
  loaded and one that may be cancelled at any step. Two changes suffice to move
  a trade across a page boundary and to make a count out of date.

Some type invariants and step-wise invariants of the earlier modules are not
part of a run: they are proved (section 5), which says more than an instance.

Deadlock is checked for the archive, which serves forever. The other systems are
single calls that end; `Terminates`, `Concludes` and `RequestsSettle` say that
they do.

Fairness: `WF_vars(Next)` for `ReportPipeline` and `LoanCombination`,
`WF_adviceVars(Working)` for `Advice`, where `Working` is what the service does on
its own once it was asked - not the user's next question or answer, and not the
database. Each is one thread of straight-line code (or loops over finite lists)
that nothing else can block; the calls to the language model carry a timeout
(`gemini.py:111`), so an answer or a failure always comes. That the loop of
`_build_and_revalidate` ends is not a matter of fairness but of what a round
does: the mutant that drops nothing runs for ever. The other modules state safety
only. A part of `Advice` that would be fair by itself has its specification without
the fairness under a name of its own (`SavingsSafety`, `HomeSafety`, `LifeSafety`,
`AdviceSafety`): what is proved of that holds of the fair one all the more.

## 5. What is proved

All theorems hold for every value of the constants under the named ASSUMEs of
the modules (which TLC evaluates on the instances): distinct sentinels, types
of the inputs, monotony of `Payment`, that a plan has finitely many savings legs and
a district finitely many trades (rows of a table, each with an id of its own), and of
the regions that the list tells what was designated up to the day it was checked
(`AsListed`, `ListIsComplete`). No other assumption is made.

- **ReportArchive_proofs.** All safety properties of the run and the
  refinement. The inductive part is ownership: a file that is being written is
  owned by one thread whose job it was created for (`BodyOwned`,
  `RecordOwned`), a body stays while its record may still be written
  (`BodyStays`), and what is published is on disk unless damaged
  (`PublishedOnDisk`). `RecordHasBody` alone is not inductive: the step that
  writes a record needs to know that the body of its own request still stands.
- **ReportPipeline_proofs.** Both gates, the guard, the exactness of
  `fully_verified`, and that omissions are explained. The strengthening says
  what each program counter guarantees (`Progress`, `GateHeld`,
  `VerdictsAreSaid`, `Explained`).
- **LoanCombination_proofs.** No budget is overdrawn, by a leg or by all legs of a
  plan together (`SharedBudgetsHold`), filled legs stay filled, binding labels still
  bind at the end, plans are confirmed, no subset is lost, the status tells the best
  plan there was (`StatusTellsTheBest`). `AttemptIsSound` carries the sign and monotony
  of the remaining budgets; `BudgetsAreShared` says that what remains of a budget is
  what there was, less what all legs of the attempt take (`Charged`, a sum), and is
  what `SharedBudgetsHold` needs to be inductive. That the regime a plan was
  priced in is the one it ends in (`RegimeApplies`) makes the sum at the true rates the
  one the budgets were charged with. Amount and coverage never
  disagree, so a shortlist of the better plans has one that lends most and covers the
  need if any does (`ShortlistHasTheBest`).
- **LoanLimit_proofs.** Both bisections keep a bracket whose lower end is on
  one side and whose upper end on the other (`TermBracket`, `AmountBracket`);
  monotony of `Serviceable` turns the final bracket into "shortest" and "within
  `Epsilon` of the largest". As the upper end stays above the lower one, the target
  itself is never offered (`BelowTarget`), which gives the assumption `Simulation`
  makes of a loan result.
- **Simulation_proofs.** `IInv` says that each section was computed from the
  earlier ones as they still stand (`RecommendationIsOf`, `StressIsOf`,
  `StrategyIsOf`) in order (`InOrder`), with the bracket of the bisection
  (`StretchBracket`) and the gaps named so far (`GapsSoFar`). That passing is
  monotone in the term (`PassesMonotone`) is what makes the bisection right;
  the docstring of `shortest_stress_resilient_months` claims it and the lemma
  proves it, three-valued verdicts included.
- **FiniteSums.** The installed provers cannot instantiate the library's induction
  theorems, whose parameter is an operator. Collecting what a formula holds of in a
  *set* avoids that: a set of natural numbers with 0 and successors is all of them
  (`NatSetInduction`), a set of subsets of S with {} and one element more is all
  of them (`SubsetInduction`). From these follow that the sum of the community modules,
  a fold that picks its elements with CHOOSE, does not depend on the order
  (`SumTakesAny`), and so adds, removes and changes one element at a time; and that a
  table filled one row after the other exists and keeps what each row keeps
  (`IterationExists`, `IterationStays`).
- **Products_proofs**, eligibility. `NeverOverturned` is the algebra behind
  `AnswersStand`: one lemma per predicate says that what it answers does not change when
  more is known, because it asks for a fact before it uses it. `NeverAmbiguous` says
  that a registry that refuses overlaps never has two packs to choose from.
- **Products_proofs**, savings. `SavingsInv` says that the portfolio in hand is always
  a best one over the options that were forwarded and not dropped. The rest is about
  `Filled`: an option raised by the least of what its limits leave keeps all of them
  (`RaisedStays`), so that by iteration a filled plan is within its budgets and the
  protection of every institution (`FilledStays`). As a single option is one of the
  combinations (`AloneIsAPlan`), none that is left earns more alone. That all 23 packs
  resolve to bounds that are numbers is proved pack by pack (`BoundsAreNumbers`), that
  derived budgets leave the reserve alone from the order of the subtractions in
  `calculate_cashflow` (`BudgetsSpareTheReserve`).
- **Advice_proofs**, lifecycle. `LifeInv`: a loan's repaid part and its balance add up
  to its principal while it runs, and it is settled after its last row. That the level
  payment is a number at all needs that the larger base has the larger power; it
  is shown by contradiction from a least exponent that fails (`LeastNumber`).
  `ChartInv` says that a chart once begun starts with the sum of the principals, that
  its points fall, that no more is owed than the last
  of them says, and that it is exact in the month in which a loan ends; at the end the
  sum is one of zeros (`CurveEndsAtZero`).
- **Advice_proofs**, affordability. `HomeInv` ties the verdict to the costs and
  the loan it was reached with; between two questions of the user it carries that
  the costs known so far are bounded by the costs of the new facts (`CostsGrow`),
  the monotony of `estimate_purchase_costs` in what is known. `LimitInv` ties the
  limit to place and day, which no answer changes while a limit is there.
- **Advice_proofs**, trades. A trade has a place in a sorted list: the number of those
  that come no later (`PlaceOf`). In whatever order the database delivers rows
  that `_ORDER_BY` allows, each stands at its place (`OrderTellsThePlace`, a counting
  argument), because no two share an id; a page is an interval of places
  (`RowsOfPage`); and loading others only moves a trade back (`PlaceMovesBack`). So
  `SeenInv` is inductive: what had its place on the pages that were read has been
  seen - all of it, each once, while nothing changes, and of the trades of the start
  also when others are loaded. It says more than `NoTradeIsLost`, which speaks of the
  last page only. `torn` is where the argument stops: a count that is older than the
  rows no longer bounds the places.
- **Advice_proofs**, the whole. Each step of `Advice` is a step of one part while the
  others stand still (`StepIsOfOnePart`), so that a behaviour of the service is one of
  each part (`AdviceIsItsParts`) and keeps every promise of the parts
  (`AdviceTypeCorrect`, `AdviceKeepsItsPromises`).

The type invariants of all modules but `Advice`, `ServesPublishedOnly`, `CreatedIsOwn`,
`WriteOnce`, `JudgeSeesOnlyClean`, `NothingDroppedSilently`, `NeverOverdrawn`,
`CommonTermIsTight` and `DtiCoveredByDsr` are proved and not part of a run.

Every safety and action property of every passing run is a theorem. Only
model-checked are the liveness properties `Terminates`, `Concludes` and
`RequestsSettle`: fairness and ENABLED are out of the prover's reach. The violated
properties of the findings are refuted by TLC and have nothing to prove.

## 6. Findings

Each is a run that violates what the code's own text says; see `PROJECT.json`.

1. A record write that fails half-way makes an unpublished number "damaged",
   not "not found" (`storage.py:79`).
2. HTTP 200 with a body that is not JSON raises through the report pipeline
   (`gemini.py:126`).
3. A search in which nothing could be computed is INFEASIBLE instead of
   UNRESOLVED (`combination.py:667`).
4. One option without a serviceable term leaves the others with different terms
   (`loan_engine_adapter.py:478`), which the recommendation refuses.
5. A regulation day of its own, or a target date in the past, ends a simulation
   in an unhandled ValueError (`recommendation.py:230`).
6. A loan nobody simulated counts as a capacity of zero in the later purchase
   (`simulation_orchestrator.py:161`).

Observed while modelling, without a run: the DTI limit is kept when the term is
shortened (harmless while the safe DSR is the tighter rule, which
`DtiCoveredByDsr` of `LoanLimit` states and a theorem proves); no path through the services
reaches a READY loan, as `loan_max` stays below what is required; a comparison
reached through `run_simulation` never has the 60 % of the weight that a
recommended strategy needs; `compare_term_plans` says that a longer term would
not help also when the verdict is UNKNOWN.

Of the requests of `Advice`:

- 화성시 동탄구, designated from 2026-07-01, is listed without a code
  (`regulated_regions.py:188`), and `property_affordability.py:145` asks by code
  only: its valid code is not in the list, so it counts as unregulated and 70 % are
  lent instead of 40 %. `loan_simulation.py:400` warns of exactly that.
  `NeverLooserThanTheWorld` leaves out such a district and no other.
- The count and the rows of a page are read by separate statements: a trade loaded
  between them is pushed behind the page that is then called the last one.
  `NoTradeIsLost` excepts that case (`torn`), and TLC finds it without the exception.
- A product is routed with the whole budget, so that one whose monthly maximum is
  below it is refused, though `evaluation.py:95` caps the amount it would get.
- A product without a rule pack on that day ends the savings request in
  `ProductRulePackNotFoundError` (`PackMissing`); the check of a finished portfolio
  looks products up in the default registry, whatever the request was routed with.
- Budgets the caller gives are not compared with the cash flow; `ReserveIsKept`
  speaks of derived budgets.
- A loan of so little per month that it rounds to nothing has months without an
  instalment and a last one that pays all of it.
- A home that lacks less than the smallest amount of any loan product is a
  SHORTFALL, beyond the tolerance.

## 7. Not modelled, and why

Compound interest and the composite scores (closed formulas that order equal
options), the risk index of the cash flow (it only picks the months of the
emergency fund), agreed VAT rates, metrics that describe a finished portfolio, the
accumulation curve of the chart, existing debts (formulas of a line or two; their
sum is an input), the older rule sets under `rule_engine/loans` and
`rule_engine/savings`, which no service calls, filters and sorting of listings,
reading and normalising of product data, generators of test data, text layout and
the lexical checks of the reports (`Clean` stands for them), serialisation and
health probes. The archive's directory listing and the index queries only read.
Cash flow diagnosis and loan combinations are left out of `Simulation`: it reports
them and decides nothing with them.

These are most of the lines of the repository that no definition maps. What is
left of the core is covered by the modules above; the parts listed here have no
steps, no state and no failure of their own to check.

## 8. Order of work, and what could follow

`ReportArchive` with `DocumentArchive` (the only shared state), `ReportPipeline`
(the only unreliable peer), `LoanCombination`, `LoanLimit`, the simulation around
them with `Recommendation`, `Stress` and `Strategy`, then the other requests:
`ProductRules` to `ProductPacks`, `Eligibility` with `Settling`, `Cashflow`,
`SavingsPortfolio`, `Regulations`, `PurchaseCosts`, `PropertyAffordability`,
`Lifecycle`, `RegionTrades`, and `Advice` over them.

What could follow: `SavingsPortfolio` in place of the constant `SavingsOutcomes` of
`Simulation`, and `LoanLimit` as an implementation of its loan stage by a refinement
mapping. Both composites are products of two searches, and beyond what TLC
finishes on instances in which both searches still have something to decide.
