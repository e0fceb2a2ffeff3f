-------------------------- MODULE MCMerchantFunds --------------------------
(* MerchantFunds for TLC.                                                   *)
EXTENDS MerchantFunds

\* Base fees that rise by a half and tips that rise by a fifth, to the default:
\* all a set-up on EVM allows for, and more than a call does. Energy prices that
\* rise by a tenth, with the default of 420 SUN between them.
MCPrices == [evm |-> {40, 60}, tron |-> {400, 440}]
MCTips   == [evm |-> {30, 36}, tron |-> {0}]

\* What claims of ten wallets and releases use, of gas and of energy; the last
\* is beyond what the dialog reckons with.
MCCallGas == [claim |-> {100, 269, 340}, release |-> {80, 115, 150}]

\* Claims of fifty wallets, the size the page suggests.
MCLargeCallGas == [claim |-> {300, 1550}, release |-> {150}]

\* A balance that is just sufficient, and one just below.
Around(b) == {b - 1, b}
Half(b)   == Around(Percent(b, 150))

\* For a price and a tip, the least balance a dialog finds sufficient, written
\* out for N = 2: a set-up, a claim of one batch of ten and of two, a release.
EvmPurses(p, t) ==
  Half(496 * Percent(2 * p + t, 150)) \cup Half(350 * (p + t))
    \cup Half(700 * (p + t)) \cup Half(150 * (p + t))

TronPurses(p) ==
  LET fee(energy) == Percent(energy * p + 500, 120)
  IN  Half(2 * fee(ApproveGas) + fee(AddGas) + fee(AddGas) \div 2 + 3300)

MCPurses ==
  [evm  |-> EvmPurses(40, 30) \cup EvmPurses(60, 36),
   tron |-> UNION { TronPurses(p) : p \in MCPrices.tron }
              \cup Around(120000) \cup Around(150000) \cup Around(300000)]

MCLargePurses ==
  [evm  |-> UNION { Half(1550 * (p + t)) : p \in MCPrices.evm, t \in MCTips.evm },
   tron |-> {}]
=============================================================================
