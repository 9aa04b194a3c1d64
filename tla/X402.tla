-------------------------------- MODULE X402 --------------------------------
(* The paid fetch of the OpenClaw plugin (x402/): fetch, choose among the   *)
(* payments the server offers, plan how to fund the payment - from the      *)
(* holding, or with an opt-in and a swap of ALGO in the same atomic group - *)
(* have the wallet sign the group, and fetch again with it.                 *)
(*                                                                          *)
(* Amounts are in small units: the asset and ALGO trade one for one, each   *)
(* transaction costs Fee.  The chain, the pool, the HTTP server and the     *)
(* x402 client library are external and answer as they like.                *)
EXTENDS SignRelay, Integers, Sequences

CONSTANTS
  Offers,         \* the payments a server may offer
  MaxAmount,      \* max_amount_atomic
  Networks,       \* allowed_networks, in one spelling
  Preferences,    \* network_preferences, in order
  Wallets,        \* what a wallet may hold when the tool looks
  Fee,
  OptInMbr,       \* ASSET_OPT_IN_MBR
  MinSwapLeg,     \* MIN_SWAP_LEG
  MaxDoublings,   \* MAX_LOW_AMOUNT_DOUBLINGS
  SlippagePct,    \* swap_slippage_bps, in percent
  MaxGroupSize    \* MAX_TRANSACTION_GROUP_SIZE

\* Amounts are whole numbers, and nobody holds an asset without having opted in.
ASSUME PayAssumption ==
  /\ {Fee, OptInMbr, MinSwapLeg, MaxDoublings, SlippagePct} \subseteq Nat
  /\ Preferences \in Seq(STRING)
  /\ \A o \in Offers : o.amount \in Nat
  /\ Wallets \subseteq [optedIn : BOOLEAN, balance : Nat, algo : Nat, minBalance : Nat]
  /\ \A w \in Wallets : ~w.optedIn => w.balance = 0

VARIABLES
  stage,      \* where x402FetchFlow is
  chosen,     \* the selected requirements
  holds,      \* what the wallet held when the payment was planned
  group,      \* the transactions to be signed, in order
  signed,     \* the signatures at hand: one per transaction, or None
  presented,  \* the signed group was sent to the server
  result      \* the status of the X402FetchResult

payVars == <<stage, chosen, holds, group, signed, presented, result>>

Statuses == {"paid", "http_error", "payment_required", "rejected", "error"}

PayInit ==
  /\ stage = "resolve"
  /\ chosen = None /\ holds = None
  /\ group = <<>> /\ signed = <<>>
  /\ presented = FALSE /\ result = None

Finish(status) == stage' = "done" /\ result' = status

----------------------------------------------------------------------------
(* Choosing: policy and selector.                                           *)

\* "allowed" stands for an asset, and a payee where these are limited, on the list.
Allowed(o) ==
  /\ o.scheme = "exact"
  /\ o.network \in Networks
  /\ o.asset = "allowed"
  /\ o.amount <= MaxAmount

\* The first that survives the policy, on the network preferred most: of two
\* offers, the one whose network comes first in the preferences, if one does.
Preferred(o, p) ==
  \E k \in DOMAIN Preferences :
    Preferences[k] = o.network /\ \A m \in 1..k : Preferences[m] # p.network

SelectRequirements(offers) ==
  LET kept == {i \in DOMAIN offers : Allowed(offers[i])}
      before(i, j) == \/ Preferred(offers[i], offers[j])
                      \/ i < j /\ ~Preferred(offers[j], offers[i])
  IN IF kept = {} THEN None
     ELSE offers[CHOOSE i \in kept : \A j \in kept \ {i} : before(i, j)]

----------------------------------------------------------------------------
(* Funding.  A wallet is [optedIn, balance, algo, minBalance].              *)

Direct(w, required) == w.optedIn /\ w.balance >= required
Shortfall(w, required) == required - w.balance

\* The output the pool agrees to swap: rounded up to the minimum it is thought
\* to have, doubled while it is below the one it has.
QuoteFixedOutput(shortfall, least) ==
  LET effective[n \in 0..MaxDoublings] ==
        IF n > 0 THEN 2 * effective[n - 1]
        ELSE IF shortfall > MinSwapLeg THEN shortfall ELSE MinSwapLeg
      accepted == {n \in 0..MaxDoublings : effective[n] >= least}
  IN IF accepted = {} THEN None
     ELSE effective[CHOOSE n \in accepted : \A m \in accepted : n <= m]

\* Quote plus slippage, rounded up.
WithSlippage(amount) == amount + (amount * SlippagePct + 99) \div 100

OptIn == [type |-> "optin", amount |-> 0]
Escrow(in) == [type |-> "escrow", amount |-> in]
Call(out) == [type |-> "call", amount |-> out]
Payment(amount) == [type |-> "payment", amount |-> amount]

\* The escrow, and a call for each hop, the last of which pays out.
Swap(in, out, hops) ==
  <<Escrow(in)>> \o [i \in 1..hops |-> Call(IF i = hops THEN out ELSE 0)]

\* The order in which the group is put together.
OrderGroup_PayFirst(optIns, swap, payment) == optIns \o payment \o swap
OrderGroup(optIns, swap, payment) == optIns \o swap \o payment

FundedGroup(w, amount, swap) ==
  OrderGroup(IF w.optedIn THEN <<>> ELSE <<OptIn>>, swap, <<Payment(amount)>>)

TotalAlgoInput(txns) ==
  LET total[n \in 0..Len(txns)] ==
        IF n = 0 THEN 0
        ELSE total[n - 1] + IF txns[n].type = "escrow" THEN txns[n].amount ELSE 0
  IN total[Len(txns)]

Affordable(w, txns, swap) ==
  LET mbrBump == IF w.optedIn THEN 0 ELSE OptInMbr
      spendable == w.algo - w.minBalance - mbrBump - Fee * Len(txns)
  IN spendable >= TotalAlgoInput(swap)

----------------------------------------------------------------------------
(* The flow.                                                                *)

\* resolveWalletAccount: a daemon that hangs keeps the tool waiting, as this
\* request has no backstop; an account that is none of Algorand's is an error.
Resolve ==
  /\ stage = "resolve" /\ daemon # "wedged"
  /\ IF daemon = "down" \/ link = "down"
     THEN Finish("rejected")
     ELSE (stage' = "fetch" /\ UNCHANGED result) \/ Finish("error")
  /\ UNCHANGED <<chosen, holds, group, signed, presented, relayVars>>

\* The first fetch: no payment is asked for, it fails, or the server offers.
Fetch ==
  /\ stage = "fetch"
  /\ \/ \E s \in {"paid", "http_error", "error"} : Finish(s) /\ UNCHANGED chosen
     \/ \E n \in 1..2 : \E offers \in [1..n -> Offers] :
          /\ chosen' = SelectRequirements(offers)
          /\ IF chosen' = None THEN Finish("error")
             ELSE stage' = "fund" /\ UNCHANGED result
  /\ UNCHANGED <<holds, group, signed, presented, relayVars>>

\* createPaymentPayload, up to the signing; a lookup, the quote or the build
\* may fail.  Tinyman may route the swap through a second pool.
Fund ==
  /\ stage = "fund"
  /\ \/ Finish("error") /\ UNCHANGED <<holds, group, signed>>
     \/ \E w \in Wallets :
          /\ holds' = w
          /\ IF Direct(w, chosen.amount)
             THEN /\ group' = <<Payment(chosen.amount)>>
                  /\ signed' = <<None>>
                  /\ stage' = "sign"
                  /\ UNCHANGED result
             ELSE \E least \in {MinSwapLeg, 2 * MinSwapLeg + 1}, hops \in 1..2 :
                    LET out == QuoteFixedOutput(Shortfall(w, chosen.amount), least)
                        swap == Swap(WithSlippage(out), out, hops)
                        txns == FundedGroup(w, chosen.amount, swap)
                    IN IF /\ out # None
                          /\ Len(txns) <= MaxGroupSize
                          /\ Affordable(w, txns, swap)
                       THEN /\ group' = txns
                            /\ signed' = [i \in DOMAIN txns |-> None]
                            /\ stage' = "sign"
                            /\ UNCHANGED result
                       ELSE Finish("error") /\ UNCHANGED <<group, signed>>
  /\ UNCHANGED <<chosen, presented, relayVars>>

\* signTransactions: the group in one request when it has several
\* transactions, then - for a wallet that cannot - one after the other.
WholeGroup == [schema |-> "group", what |-> 0]
Txn(i) == [schema |-> "transaction", what |-> i]
Unsigned == {i \in DOMAIN signed : signed[i] = None}
NextUnsigned == CHOOSE i \in Unsigned : \A j \in Unsigned : i <= j

AskGroup ==
  /\ stage = "sign" /\ Len(group) > 1
  /\ Ask(WholeGroup)
  /\ stage' = "asked"
  /\ UNCHANGED <<chosen, holds, group, signed, presented, result>>

AskTxn ==
  /\ \/ stage = "sign" /\ Len(group) = 1
     \/ stage = "single"
  /\ Unsigned # {}
  /\ Ask(Txn(NextUnsigned))
  /\ stage' = "asked"
  /\ UNCHANGED <<chosen, holds, group, signed, presented, result>>

\* requestSignature: a signature of another account's is refused.
Accepted(r) == r \in Signatures \ {"foreign"}
Expected(x) == IF x.schema = "group" THEN "all" ELSE "one"

Sign(idx, r) ==
  signed' = [i \in DOMAIN signed |->
    IF i \in idx THEN [kind |-> r, over |-> item] ELSE signed[i]]

WalletReplied ==
  /\ stage = "asked" /\ call = "none"
  /\ IF ~Accepted(reply)
     THEN /\ Finish(IF reply \in {"rejected", "no_session"} THEN "rejected" ELSE "error")
          /\ UNCHANGED signed
     ELSE IF reply = Expected(item)
     THEN /\ Sign(IF item = WholeGroup THEN DOMAIN signed ELSE {item.what}, reply)
          /\ stage' = "single"
          /\ UNCHANGED result
     ELSE IF item = WholeGroup /\ reply = "one"
     THEN stage' = "single" /\ UNCHANGED <<signed, result>>
     ELSE Finish("error") /\ UNCHANGED signed
  /\ Taken
  /\ UNCHANGED <<chosen, holds, group, presented>>

\* The second fetch, with the group: the server may settle and answer, answer
\* with an error, ask for payment again, or be lost.
Present ==
  /\ stage = "single" /\ Unsigned = {}
  /\ presented' = TRUE
  /\ \E s \in {"paid", "http_error", "payment_required", "error"} : Finish(s)
  /\ UNCHANGED <<chosen, holds, group, signed, relayVars>>

PayNext ==
  \/ Resolve \/ Fetch \/ Fund \/ AskGroup \/ AskTxn \/ WalletReplied \/ Present

----------------------------------------------------------------------------
(* What may not go wrong.                                                   *)

\* What the chain does with a group, transaction by transaction; Broke when
\* one of them fails, and with it the whole group.
Broke == [optedIn |-> FALSE, balance |-> -1, algo |-> 0, minBalance |-> 0]

Apply(w, t) ==
  LET after == [optedIn |-> w.optedIn \/ t.type = "optin",
                balance |-> CASE t.type = "call" -> w.balance + t.amount
                              [] t.type = "payment" -> w.balance - t.amount
                              [] OTHER -> w.balance,
                algo |-> w.algo - Fee - IF t.type = "escrow" THEN t.amount ELSE 0,
                minBalance |-> w.minBalance + IF t.type = "optin" THEN OptInMbr ELSE 0]
      needsAsset == t.type \in {"payment", "call"} /\ t.amount > 0
  IN IF \/ w = Broke
        \/ after.balance < 0
        \/ after.algo < after.minBalance
        \/ needsAsset /\ ~w.optedIn
     THEN Broke ELSE after

Executes(w, txns) ==
  LET after[n \in 0..Len(txns)] == IF n = 0 THEN w ELSE Apply(after[n - 1], txns[n])
  IN after[Len(txns)] # Broke

\* The wallet is shown no swap group that its own chain state would refuse,
\* and what is put before the server is what was chosen, the payment last,
\* every transaction signed by the payer and by a request that covered it -
\* never with the signature an old wallet makes over the group as one blob.
GroupStands ==
  /\ (stage = "asked" /\ Len(group) > 1) => Executes(holds, group)
  /\ presented =>
       /\ Allowed(chosen)
       /\ group[Len(group)] = Payment(chosen.amount)
       /\ \A i \in DOMAIN group :
            signed[i] \in {[kind |-> "all", over |-> WholeGroup], [kind |-> "one", over |-> Txn(i)]}
=============================================================================
