------------------------------ MODULE Selection ------------------------------
(***************************************************************************)
(* The pure selection core of routing_policy.py: hard gates, capability    *)
(* bar, utility and argmax (decide), and the cost-only choice the budget,  *)
(* runaway and kind-alarm demotions make.  Nothing here has state.         *)
(*                                                                         *)
(* Numbers are integers.  Capability, trust, bars and normalised scores    *)
(* are thousandths; context sizes and token counts are thousands of        *)
(* tokens; prices are milli-USD per million tokens; money is milli-HKD;    *)
(* utilities are hundred-thousandths, so a percent weight times a          *)
(* thousandth needs no rounding.  The only roundings are the divisions of  *)
(* Normalised, Headroom and EstimateCost.                                  *)
(***************************************************************************)
EXTENDS Integers, FiniteSetsExt

CONSTANTS
    Models,        \* the keys of PROFILES
    NoModel,       \* stands for None where the code holds a model or None
    Kinds,         \* the task kinds (BASE_BAR's keys)
    Asks,          \* identities of human asks, the text of a signature
    Vision,        \* [Models -> BOOLEAN]
    Window,        \* [Models -> Nat]: context window, thousands of tokens
    CostIn,        \* [Models -> Nat]: milli-USD per 1M input tokens
    CostOut,       \* [Models -> Nat]: milli-USD per 1M output tokens
    Latency,       \* [Models -> Nat]: relative class, 0 fastest
    Cap,           \* [Models -> [Kinds -> Nat]]: capability, thousandths
    BaseBar        \* [Kinds -> Nat]: capability bar, thousandths

Directives == {"use", "escalate", "high", "low", "cheap"}

(* What the policy reads of one request (class Signature).  A [[use:x]]     *)
(* directive is "use" in directives, and use the model x resolves to,       *)
(* NoModel when x names no profile of the fleet.                            *)
Signature ==
    [kind: Kinds, tokens: Nat, askTokens: Nat, image: BOOLEAN, fanout: BOOLEAN,
     stall: BOOLEAN, importance: 0..2, directives: SUBSET Directives,
     use: Models \cup {NoModel}, ask: Asks]

(* The (cost, trust, headroom, latency) weights, percent.                   *)
Weighting == [cost: 0..100, trust: 0..100, headroom: 0..100, latency: 0..100]

(* What the policy reads of learned.json and of the Laya scorer for one     *)
(* decision: persisted trust and bar bias, already clamped by the store,    *)
(* and laya_weight * laya_score.                                            *)
Learned == [trust: [Kinds -> [Models -> Int]], bias: [Kinds -> Int], laya: Nat]

ASSUME NoModelAssumption == NoModel \notin Models

ASSUME ProfileAssumption ==
    /\ IsFiniteSet(Models)
    /\ Vision  \in [Models -> BOOLEAN]
    /\ Window  \in [Models -> Nat]
    /\ CostIn  \in [Models -> Nat]
    /\ CostOut \in [Models -> Nat]
    /\ Latency \in [Models -> Nat]
    /\ Cap     \in [Models -> [Kinds -> Nat]]
    /\ BaseBar \in [Kinds -> Nat]
-----------------------------------------------------------------------------
(* Prices.  PREMIUM_COST is 1.0 USD blended: 100000 in these units.         *)

Blended(m) == 45 * CostIn[m] + 55 * CostOut[m]
Cheapest(pool) == {m \in pool : \A n \in pool : Blended(m) <= Blended(n)}
Premium(m) == Blended(m) > 100000

AtMost(x, limit) == IF x < limit THEN x ELSE limit
AtLeast(x, limit) == IF x > limit THEN x ELSE limit
Clamp(x, low, high) == AtLeast(low, AtMost(high, x))

(* _estimate_cost_hkd: the whole thread is re-sent as input, the answer is  *)
(* guessed from the size of the ask; 7.8 HKD per USD.                       *)
EstimateCost(sig, m) ==
    LET answer == AtMost(AtLeast(3 * sig.askTokens, 64), 4000)
        microUsd == sig.tokens * CostIn[m] + (answer * CostOut[m]) \div 1000
    IN  (microUsd * 78) \div 10000
-----------------------------------------------------------------------------
(* Hard gates.                                                              *)

Fits(sig, m) ==
    /\ sig.image => Vision[m]
    /\ 10 * sig.tokens < 9 * Window[m]

(* gate_relaxed: no profile fits, so keep the one closest by window,        *)
(* preferring vision for an image turn.                                     *)
Closer(sig, m, n) ==
    \/ sig.image /\ Vision[m] /\ ~Vision[n]
    \/ (sig.image => Vision[m] = Vision[n]) /\ Window[m] > Window[n]

Closest(sig, pool) == {m \in pool : \A n \in pool : ~Closer(sig, n, m)}
-----------------------------------------------------------------------------
(* Capability bar.  BarPreview is the bar the pin logic computes for        *)
(* itself, before the learned bias and the clamp.                           *)

BarPreview(sig) ==
    BaseBar[sig.kind]
    + 50 * AtMost(3, sig.askTokens \div 400)
    + 100 * (sig.importance - 1)
    + (IF "escalate" \in sig.directives \/ sig.stall THEN 100 ELSE 0)
    - (IF "cheap" \in sig.directives THEN 100 ELSE 0)

Bar(sig, learned) == Clamp(BarPreview(sig) + learned.bias[sig.kind], 350, 980)

(* The fitting models at or above the bar; when none is, the most capable   *)
(* fitting ones (bar_relaxed).                                              *)
Capable(sig, fitting, learned) ==
    LET cap(m) == Cap[m][sig.kind]
        over == {m \in fitting : cap(m) >= Bar(sig, learned)}
    IN  IF over # {} THEN over
        ELSE {m \in fitting : \A n \in fitting : cap(n) <= cap(m)}
-----------------------------------------------------------------------------
(* Utility.                                                                 *)

(* score is a function of at least the pool.                                *)
Normalised(score, m, pool) ==
    LET low  == Min({score[n] : n \in pool})
        high == Max({score[n] : n \in pool})
    IN  IF high = low THEN 0 ELSE (1000 * (score[m] - low)) \div (high - low)

Headroom(sig, m) ==
    AtMost(1000, AtLeast(0, 1000 - (1000 * sig.tokens) \div AtLeast(Window[m], 1)))

(* trust is a function of the model: effective_trust_of at this kind.       *)
Utility(sig, m, pool, trust, weights, learned) ==
    LET cost == [n \in pool |-> Blended(n)]
    IN  100 * Cap[m][sig.kind]
        + weights.trust * trust[m]
        + weights.headroom * Headroom(sig, m)
        - weights.cost * Normalised(cost, m, pool)
        - weights.latency * Normalised(Latency, m, pool)
        + learned.laya

(* decide: the models it scores, and those that come first when sorted by   *)
(* descending utility and then by ascending cost.                           *)
Scored(sig, pool, learned) ==
    Capable(sig, {m \in pool : Fits(sig, m)}, learned)

Decide(sig, pool, trust, weights, learned) ==
    LET scored == Scored(sig, pool, learned)
        utility(m) == Utility(sig, m, scored, trust, weights, learned)
        best == Max({utility(m) : m \in scored})
    IN  IF \E m \in pool : Fits(sig, m)
        THEN Cheapest({m \in scored : utility(m) = best})
        ELSE Closest(sig, pool)
-----------------------------------------------------------------------------
(* The demotion: cheapest model that clears BASE_BAR alone, is not excluded *)
(* and fits; without the bar when none does; without the exclusion when     *)
(* still none does.                                                         *)

DemotionPool(sig, fleet, excluded) ==
    LET fitting == {m \in fleet : Fits(sig, m)}
        spared  == fitting \ excluded
        able    == {m \in spared : Cap[m][sig.kind] >= BaseBar[sig.kind]}
    IN  IF able # {} THEN able ELSE IF spared # {} THEN spared ELSE fitting

=============================================================================
