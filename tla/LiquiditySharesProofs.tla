------------------------- MODULE LiquiditySharesProofs -------------------------
(***************************************************************************)
(* What the abstract pool promises, for every width of the amounts and     *)
(* every locked part: the shares keep their invariant and what a share is  *)
(* worth never falls.                                                      *)
(***************************************************************************)
EXTENDS LiquidityShares, TLAPS

\* The product of the reserves is a natural number.
LEMMA ProductNat ==
    ASSUME SharesInv
    PROVE  reserve[0] \in Nat /\ reserve[1] \in Nat /\ product \in Nat /\ shares \in Nat
<1>1. reserve[0] \in Nat /\ reserve[1] \in Nat /\ shares \in Nat
  BY SharesAssumption DEF SharesInv, Tokens
<1>2. QED
  BY <1>1 DEF product

\* Inequalities multiply.
LEMMA MulBoth ==
    ASSUME NEW a \in Nat, NEW b \in Nat, NEW c \in Nat, NEW d \in Nat, a <= b, c <= d
    PROVE  a * c <= b * d
<1>1. a * c <= b * c
  OBVIOUS
<1>2. b * c <= b * d
  OBVIOUS
<1>3. a * c \in Nat /\ b * c \in Nat /\ b * d \in Nat
  OBVIOUS
<1>4. QED
  BY <1>1, <1>2, <1>3

\* Two reserves that grow at least in proportion to the shares multiply to at
\* least the square of that proportion.
LEMMA ProductInProportion ==
    ASSUME NEW r0 \in Nat, NEW r1 \in Nat, NEW q0 \in Nat, NEW q1 \in Nat,
           NEW s \in Nat, NEW t \in Nat,
           q0 * s >= r0 * t, q1 * s >= r1 * t
    PROVE  (q0 * q1) * s * s >= (r0 * r1) * t * t
<1>1. q0 * s \in Nat /\ r0 * t \in Nat /\ q1 * s \in Nat /\ r1 * t \in Nat
  OBVIOUS
<1>2. (r0 * t) * (r1 * t) <= (q0 * s) * (q1 * s)
  BY <1>1, MulBoth
<1>3. (r0 * t) * (r1 * t) = (r0 * r1) * t * t
  OBVIOUS
<1>4. (q0 * s) * (q1 * s) = (q0 * q1) * s * s
  OBVIOUS
<1>5. QED
  BY <1>2, <1>3, <1>4

\* No step lowers the value of a share (constant_product.rs:50-90,
\* swap_base_input.rs:180): the product of the reserves over the square of
\* the shares.
LEMMA StepKeepsShareValue ==
    ASSUME SharesInv, SharesInv', [Next]_vars, shares > 0
    PROVE  product' * shares * shares >= product * shares' * shares'
<1>1. /\ reserve[0] \in Nat /\ reserve[1] \in Nat /\ product \in Nat /\ shares \in Nat
      /\ product = reserve[0] * reserve[1]
  BY ProductNat DEF product
<1>2. shares' \in Nat /\ product' = reserve'[0] * reserve'[1]
      /\ reserve'[0] \in Nat /\ reserve'[1] \in Nat /\ product' \in Nat
  <2>1. shares' \in Nat /\ reserve'[0] \in Nat /\ reserve'[1] \in Nat
    BY SharesAssumption DEF SharesInv, Tokens
  <2>2. product' = reserve'[0] * reserve'[1]
    BY DEF product
  <2>3. QED
    BY <2>1, <2>2
<1>3. CASE Found
  BY <1>3 DEF Found
<1>4. CASE Rescale
  <2>1. /\ reserve'[0] * shares >= reserve[0] * shares'
        /\ reserve'[1] * shares >= reserve[1] * shares'
    BY <1>4 DEF Rescale, Tokens
  <2>2. QED
    BY <1>1, <1>2, <2>1, ProductInProportion
<1>5. CASE product' >= product /\ shares' = shares
  <2>1. shares * shares \in Nat /\ product * (shares * shares) <= product' * (shares * shares)
    <3>1. shares * shares \in Nat
      BY <1>1
    <3>2. QED
      BY <1>1, <1>2, <1>5, <3>1, MulBoth
  <2>2. /\ product * (shares * shares) = product * shares * shares
        /\ product' * (shares * shares) = product' * shares * shares
    BY <1>1, <1>2
  <2>3. QED
    BY <1>5, <2>1, <2>2
<1>6. CASE Trade
  BY <1>5, <1>6 DEF Trade
<1>7. CASE Forfeit \/ UNCHANGED vars
  <2>1. product' = product /\ shares' = shares
    BY <1>7 DEF Forfeit, vars, product
  <2>2. QED
    BY <1>1, <1>5, <2>1
<1>8. QED
  BY <1>3, <1>4, <1>6, <1>7 DEF Next, Join, Leave

\* What can be redeemed after a step is bounded by the shares after it.
LEMMA RedeemableBounded ==
    ASSUME NEW max \in Nat, NEW locked \in Nat, NEW t \in 1 .. max, NEW q \in Nat,
           q + locked <= t
    PROVE  q \in 0 .. max /\ t \in 0 .. max /\ t # 0
  OBVIOUS

\* All but the locked part of the first shares.
LEMMA FirstRedeemable ==
    ASSUME NEW max \in Nat, NEW locked \in Nat, locked >= 1, NEW t \in locked .. max,
           NEW q, q = t - locked
    PROVE  t \in 1 .. max /\ q \in Nat /\ q + locked <= t
  OBVIOUS

\* Shares and what can be redeemed move alike: the locked part stays.
LEMMA RedeemableMovesAlike ==
    ASSUME NEW locked \in Nat, NEW s \in Nat, NEW t \in Nat, NEW r \in Nat,
           r + locked <= s, t >= s \/ r + t - s >= 0
    PROVE  r + t - s \in Nat /\ (r + t - s) + locked <= t
  OBVIOUS

\* Less can be redeemed of as many shares.
LEMMA RedeemableFalls ==
    ASSUME NEW max \in Nat, NEW locked \in Nat, NEW s \in Nat, NEW r \in 0 .. max,
           NEW q \in 0 .. r
    PROVE  /\ q \in 0 .. max
           /\ r = 0 => q = 0
           /\ r + locked <= s => q + locked <= s
  OBVIOUS

\* The shares keep their invariant.
LEMMA StepKeepsShares == SharesInv /\ [Next]_vars => SharesInv'
<1> SUFFICES ASSUME SharesInv, [Next]_vars PROVE SharesInv'
  OBVIOUS
<1>1. /\ MAX_AMOUNT \in Nat /\ LOCKED \in Nat /\ LOCKED >= 1
      /\ shares \in Nat /\ redeemable \in Nat /\ shares <= MAX_AMOUNT
      /\ redeemable <= MAX_AMOUNT
  BY SharesAssumption DEF SharesInv
<1>2. shares > 0 => redeemable + LOCKED <= shares
  BY DEF SharesInv
<1>3. ASSUME reserve' \in [Tokens -> 1 .. MAX_AMOUNT], shares' \in 1 .. MAX_AMOUNT,
             redeemable' \in Nat, redeemable' + LOCKED <= shares'
      PROVE  SharesInv'
  <2>1. /\ reserve' \in [Tokens -> 0 .. MAX_AMOUNT]
        /\ \A i \in Tokens : reserve'[i] > 0
    BY <1>3, SharesAssumption
  <2>2. redeemable' \in 0 .. MAX_AMOUNT /\ shares' \in 0 .. MAX_AMOUNT /\ shares' # 0
    BY <1>1, <1>3, RedeemableBounded, Zenon
  <2>3. QED
    BY <1>3, <2>1, <2>2 DEF SharesInv
<1>4. CASE Found
  <2>1. /\ reserve' \in [Tokens -> 1 .. MAX_AMOUNT]
        /\ shares' \in LOCKED .. MAX_AMOUNT
        /\ redeemable' = shares' - LOCKED
    BY <1>4 DEF Found
  <2>2. /\ shares' \in 1 .. MAX_AMOUNT /\ redeemable' \in Nat
        /\ redeemable' + LOCKED <= shares'
    BY <1>1, <2>1, FirstRedeemable, Zenon
  <2>3. QED
    BY <1>3, <2>1, <2>2
<1>5. CASE Join \/ Leave
  <2>1. /\ reserve' \in [Tokens -> 1 .. MAX_AMOUNT] /\ shares' \in 1 .. MAX_AMOUNT
        /\ redeemable' = redeemable + shares' - shares
    BY <1>5 DEF Join, Leave, Rescale
  <2>2. shares > 0 /\ (shares' > shares \/ redeemable' >= 0)
    BY <1>5 DEF Join, Leave, Rescale
  <2>3. shares' \in Nat
    <3>1. shares' \in 1 .. MAX_AMOUNT
      BY <2>1
    <3>2. QED
      BY <1>1, <3>1
  <2>4. shares' >= shares \/ redeemable' >= 0
    BY <1>1, <2>2, <2>3
  <2>5. redeemable + LOCKED <= shares
    BY <1>2, <2>2
  <2>6. LOCKED \in Nat /\ shares \in Nat /\ redeemable \in Nat
    BY <1>1
  <2>7. redeemable' = redeemable + shares' - shares
    BY <2>1
  <2>8. /\ redeemable + shares' - shares \in Nat
        /\ (redeemable + shares' - shares) + LOCKED <= shares'
    <3>1. shares' >= shares \/ redeemable + shares' - shares >= 0
      BY <2>4, <2>7, Zenon
    <3>2. QED
      BY <2>3, <2>5, <2>6, <3>1, RedeemableMovesAlike, Zenon
  <2>9. QED
    BY <1>3, <2>1, <2>7, <2>8, Zenon
<1>6. CASE Trade
  <2>1. /\ reserve' \in [Tokens -> 1 .. MAX_AMOUNT]
        /\ shares > 0 /\ shares' = shares /\ redeemable' = redeemable
    BY <1>6 DEF Trade
  <2>2. /\ shares \in 1 .. MAX_AMOUNT /\ redeemable \in Nat
        /\ redeemable + LOCKED <= shares
    BY <1>1, <1>2, <2>1
  <2>3. QED
    BY <1>3, <2>1, <2>2
<1>7. CASE Forfeit
  <2>1. redeemable' \in 0 .. redeemable /\ reserve' = reserve /\ shares' = shares
    BY <1>7 DEF Forfeit
  <2>2. redeemable \in 0 .. MAX_AMOUNT
    BY DEF SharesInv
  <2>3. /\ redeemable' \in 0 .. MAX_AMOUNT
        /\ redeemable = 0 => redeemable' = 0
        /\ redeemable + LOCKED <= shares => redeemable' + LOCKED <= shares
    BY <1>1, <2>1, <2>2, RedeemableFalls, Zenon
  <2>4. QED
    BY <1>2, <2>1, <2>3, Zenon DEF SharesInv
<1>8. CASE UNCHANGED vars
  BY <1>8 DEF vars, SharesInv
<1>9. QED
  BY <1>4, <1>5, <1>6, <1>7, <1>8 DEF Next

\* There is nothing to share at first.
LEMMA InitShares == Init => SharesInv
  BY SharesAssumption DEF Init, SharesInv, Tokens

\* A pool with shares has reserves of both tokens and its locked part out of
\* reach (initialize.rs:273).
THEOREM SharesInvariant == Spec => []SharesInv
  BY InitShares, StepKeepsShares, PTL DEF Spec

\* Nobody profits at the expense of those who stay, whatever the order of
\* joining, leaving, trading and forfeiting (deposit.rs:106, withdraw.rs:121).
THEOREM ShareValueKept == Spec => ShareValueNeverFalls
<1>1. SharesInv /\ SharesInv' /\ [Next]_vars =>
          [shares > 0 => product' * shares * shares >= product * shares' * shares']_vars
  BY StepKeepsShareValue
<1>2. QED
  BY <1>1, SharesInvariant, PTL DEF Spec, ShareValueNeverFalls
=============================================================================
