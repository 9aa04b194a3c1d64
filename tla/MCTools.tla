------------------------------ MODULE MCTools ------------------------------
(* The TLC instance of Tools: offers that pass and that fail  *)
(* the policy, wallets on both sides of each limit, a merge of two commits. *)
EXTENDS Tools

CONSTANTS main, topic

MCBranches == {main, topic}

Offer(scheme, network, asset, amount) ==
  [scheme |-> scheme, network |-> network, asset |-> asset, amount |-> amount]
MCOffers == {Offer("exact", "testnet", "allowed", 3), Offer("exact", "mainnet", "allowed", 2),
             Offer("exact", "testnet", "allowed", 9), Offer("upto", "mainnet", "allowed", 1),
             Offer("exact", "mainnet", "other", 1)}
MCPreferences == <<"mainnet">>
MCNetworks == {"mainnet", "testnet"}

Wallet(optedIn, balance, algo) ==
  [optedIn |-> optedIn, balance |-> balance, algo |-> algo, minBalance |-> 1]
MCWallets == {Wallet(TRUE, 3, 1), Wallet(TRUE, 2, 7), Wallet(TRUE, 0, 8),
              Wallet(FALSE, 0, 9), Wallet(FALSE, 0, 10), Wallet(FALSE, 0, 11), Wallet(FALSE, 0, 20)}

MCCommits == {"c1", "c2", "c3"}
By(a, b, c) == [c1 |-> a, c2 |-> b, c3 |-> c]
MCSigned ==
  {By(None, None, None), By("account", None, "account"), By("account", "account", "account"),
   By("machine", "account", "account")}
MCParents == [c1 |-> {"c0"}, c2 |-> {"c0"}, c3 |-> {"c1", "c2"}]
=============================================================================
